------------------------------ MODULE MCGrading ------------------------------
(* Instances of Grading for TLC: a question of one point with two tests, so   *)
(* that scoring rounds, one that is worth nothing yet and may have a test or  *)
(* none, one that may come while the exam is on, and one of another exam; the *)
(* student may answer any two of the three that are there.  A lecturer may    *)
(* make a question worth two points or, since nothing forbids it, less than   *)
(* nothing, and type a score that is too high for one point.                  *)
EXTENDS Grading, TLC

CONSTANTS a1, a2, a3, q1, q2, q3, other

MCAnswers   == {a1, a2, a3}
MCQuestions == {q1, q2, q3, other}
MCAsked     == {q1, q2, q3}
MCQuestion  == a1 :> q1 @@ a2 :> q2 @@ a3 :> other
MCPoints    == q1 :> 1 @@ q2 :> 0 @@ other :> 1
OneTest     == q1 :> 2 @@ q2 :> 1 @@ other :> 1
NoTest      == q1 :> 2 @@ q2 :> 0 @@ other :> 0
MCWorths    == {-1, 2}
MCTyped     == {0, 2}

Symmetry == Permutations(Graders) \cup Permutations(Lecturers)
=============================================================================
