---------------------------- MODULE MCExamSession ----------------------------
(* Instances of ExamSession for TLC: starts by one student, ada, and saves for *)
(* one question, as many of each as a configuration names.                     *)
EXTENDS ExamSession, TLC

CONSTANTS ada, r1, r2, s1, s2, q1

TwoStarts == r1 :> ada @@ r2 :> ada
OneStart  == r1 :> ada
TwoSaves  == s1 :> q1 @@ s2 :> q1
OneSave   == s1 :> q1
NoSaves   == << >>

(* Starts by one student are alike, and so are saves for one question.         *)
Alike == Permutations(Starts) \cup Permutations(Saves)
=============================================================================
