---------------------------- MODULE MCSubmission ----------------------------
(* Instances of Submission for TLC. *)
EXTENDS Submission, TLC

\* Rows, requests and sweeps are interchangeable (safety runs only).
Symmetry == Permutations(Subs) \cup Permutations(Clients) \cup Permutations(Sweepers)
=============================================================================
