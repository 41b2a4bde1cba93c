------------------------------- MODULE MCAdmins -------------------------------
(* Instances of Admins for TLC. *)
EXTENDS Admins, TLC

Symmetry == Permutations(Admins) \cup Permutations(Requests)
=============================================================================
