----------------------------- MODULE MCRateLimit -----------------------------
(* Instances of RateLimit for TLC.  Requests of one address are alike.        *)
EXTENDS RateLimit, TLC

CONSTANTS home, lab, r1, r2, r3, r4

TwoPlaces == r1 :> home @@ r2 :> home @@ r3 :> home @@ r4 :> lab
OnePlace  == r1 :> home @@ r2 :> home @@ r3 :> home

AtHome == Permutations({r \in Requests : Ip[r] = home})
==============================================================================
