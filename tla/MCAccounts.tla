------------------------------ MODULE MCAccounts ------------------------------
(* Instances of Accounts for TLC: two schools founded for one admin address,  *)
(* which an imported line has too; one school and its invited admin; the same *)
(* with a student who registers.                                              *)
EXTENDS Accounts, TLC

CONSTANTS unilag, covenant, ada, bola, m1, m2, m3

OnboardingKind   == m1 :> "school" @@ m2 :> "school" @@ m3 :> "import"
OnboardingEmail  == m1 :> ada @@ m2 :> ada @@ m3 :> ada
OnboardingSchool == m1 :> unilag @@ m2 :> covenant @@ m3 :> unilag

OneKind   == m1 :> "school"
OneEmail  == m1 :> ada
OneSchool == m1 :> unilag

TwoKind   == m1 :> "school" @@ m2 :> "register"
TwoEmail  == m1 :> ada @@ m2 :> bola
TwoSchool == m1 :> unilag @@ m2 :> unilag
===============================================================================
