----------------------------- MODULE MCEnrolment -----------------------------
(* Instances of Enrolment for TLC: one course, of school a, an exam of each of  *)
(* two schools that names it, students 1 and 2 of school a who share the number *)
(* n, and student 3 of school b, whose number m is unknown in school a.         *)
EXTENDS Enrolment, TLC

CONSTANTS a, b, ann, c1, e1, e2, r1, r2, m, n

TheSchool == ann :> a @@ [s \in Students |-> IF s = 3 THEN b ELSE a]
TheMatric == [s \in Students |-> IF s = 3 THEN m ELSE n]
TheOwner  == c1 :> ann
OneCourse == [e \in Exams |-> c1]
TheExamSchool == [e \in Exams |-> IF e = e1 THEN a ELSE b]
AllAnn    == [r \in Enrols |-> ann]
TheLists  == [r \in Enrols |-> IF r = r1 THEN <<m, n>> ELSE <<n>>]
=============================================================================
