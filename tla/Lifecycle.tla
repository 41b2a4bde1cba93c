------------------------------ MODULE Lifecycle ------------------------------
(***************************************************************************)
(* What one exam attempt looks like from outside: the `status` and         *)
(* `auto_submitted` columns of the submissions table, and the only ways    *)
(* they may change.  This is the promise the students, lecturers and the   *)
(* analytics queries rely on; Submission.tla is shown to keep it although  *)
(* its requests, sweeps and grading runs interleave freely.                *)
(***************************************************************************)

CONSTANT Subs           \* the submissions that can exist

VARIABLES status, auto

Status == {"absent", "in_progress", "submitted", "graded"}
Closed == {"submitted", "graded"}

Init == /\ status = [s \in Subs |-> "absent"]
        /\ auto   = [s \in Subs |-> FALSE]

\* A student starts an exam.
Start(s) ==
    /\ status[s] = "absent"
    /\ status' = [status EXCEPT ![s] = "in_progress"]
    /\ UNCHANGED auto

\* The student's browser closes the attempt.  The request may land late, on
\* an attempt already closed or graded; it never reopens one and it is never
\* taken for the sweep.
StudentClose(s) ==
    /\ status[s] # "absent"
    /\ status' = [status EXCEPT ![s] = "submitted"]
    /\ UNCHANGED auto

\* The server closes an attempt nobody submitted, and marks it.  Only an open
\* attempt can be swept, hence none is swept twice.
SweepClose(s) ==
    /\ status[s] = "in_progress"
    /\ status' = [status EXCEPT ![s] = "submitted"]
    /\ auto'   = [auto EXCEPT ![s] = TRUE]

\* A grading run publishes its result.  An open attempt is never graded.
Grade(s) ==
    /\ status[s] \in Closed
    /\ status' = [status EXCEPT ![s] = "graded"]
    /\ UNCHANGED auto

Next == \E s \in Subs : Start(s) \/ StudentClose(s) \/ SweepClose(s) \/ Grade(s)

Spec == Init /\ [][Next]_<<status, auto>>
==============================================================================
