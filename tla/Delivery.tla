------------------------------- MODULE Delivery -------------------------------
(***************************************************************************)
(* What the task queue promises the code that hands it something to do: a  *)
(* mail, the grading of a submission (internal/queue and asynq behind it,  *)
(* dispatchGrading's fallback).  A task the queue has is run until it is   *)
(* done or has had MaxRetry + 1 runs, and never again after that.  A       *)
(* caller told that the queue does not have it, which may be wrong, may    *)
(* run it as well, once.  Submission and Mail are shown to keep to this    *)
(* with their crashes and timeouts.                                        *)
(***************************************************************************)
EXTENDS Integers

CONSTANTS
    Tasks,
    MaxRetry     \* asynq.MaxRetry (3)

VARIABLES
    state,       \* where the queue has each task,
    tries,       \*   and how many runs of it the queue has begun
    own          \* the run of its own a caller made of it

vars == <<state, tries, own>>

State == {"none",                  \* not offered
          "refused",               \* the queue does not have it and never will
          "waiting", "running",
          "done",
          "archived"}              \* given up by the queue
Own   == {"none", "running", "done", "lost"}

Init ==
    /\ state = [t \in Tasks |-> "none"]
    /\ tries = [t \in Tasks |-> 0]
    /\ own   = [t \in Tasks |-> "none"]

\* The queue has t in st, and n runs of it have begun.
To(t, st, n) == state'[t] = st /\ tries'[t] = n

Stays(t) == To(t, state[t], tries[t])

\* The queue takes t or not, and the caller runs it or not.
Offer(t) ==
    /\ state[t] = "none"
    /\ To(t, "waiting", tries[t]) \/ To(t, "refused", tries[t])
    /\ own'[t] \in {own[t], "running"}

Begin(t) == state[t] = "waiting" /\ To(t, "running", tries[t] + 1)

Finish(t) == state[t] = "running" /\ To(t, "done", tries[t])

Retry(t) ==
    /\ state[t] = "running" /\ tries[t] <= MaxRetry
    /\ To(t, "waiting", tries[t])

GiveUp(t) ==
    /\ state[t] = "running" /\ tries[t] > MaxRetry
    /\ To(t, "archived", tries[t])

InQueue(t) == Begin(t) \/ Finish(t) \/ Retry(t) \/ GiveUp(t)

OwnEnds(t) == own[t] = "running" /\ own'[t] \in {"done", "lost"}

\* A crash may move both a task and its caller's run.
Step(t) ==
    \/ Offer(t)
    \/ /\ InQueue(t) \/ Stays(t)
       /\ OwnEnds(t) \/ own'[t] = own[t]

\* It moves several tasks at once.
Next ==
    /\ state' \in [Tasks -> State]
    /\ tries' \in [Tasks -> Nat]
    /\ own'   \in [Tasks -> Own]
    /\ \A t \in Tasks : Step(t)

Spec == Init /\ [][Next]_vars

\* What is taken is done or given up in the end.
Settles == \A t \in Tasks : state[t] = "waiting" ~> state[t] \in {"done", "archived"}

\* What t can still go through: two steps for each run it may have, the offer or
\* the end, and the end of the caller's run.
Left(t) ==
    2 * (MaxRetry + 1 - tries[t]) +
    (CASE state[t] = "none"    -> 3
       [] state[t] = "running" -> 2
       [] state[t] = "waiting" -> 1
       [] OTHER                -> 0) +
    (IF own[t] = "running" THEN 1 ELSE 0)

\* Whatever becomes of a task uses up some of that: no task goes round for ever.
UsesUp ==
    \A t \in Tasks : \/ Stays(t) /\ own'[t] = own[t]
                     \/ Left(t)' \in 0..(Left(t) - 1)

RunsOut == [][UsesUp]_vars
==============================================================================
