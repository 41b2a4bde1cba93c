----------------------------- MODULE Submission -----------------------------
(***************************************************************************)
(* The life of exam submissions: how requests of the API process, the      *)
(* scheduled sweep of the worker process and the grading runs that both    *)
(* dispatch move a row of the submissions table from in_progress over      *)
(* submitted to graded  (internal/submission/service.go, cmd/worker,       *)
(* internal/queue).                                                        *)
(*                                                                         *)
(* Every statement the code sends to the database commits on its own: a    *)
(* handler that reads a row, decides and writes it back is therefore       *)
(* several actions, and what it read may be stale when it writes.  The     *)
(* local variables such a handler carries from one statement to the next   *)
(* are pc, cur, seen and todo.                                             *)
(*                                                                         *)
(* A row never becomes in_progress again, so one handler dispatches one    *)
(* submission at most once (HandlerDispatchesOnce) and the pair names the  *)
(* grading task that results.                                              *)
(***************************************************************************)
EXTENDS Integers

CONSTANTS
    Subs,            \* rows of the submissions table, existing or to come
    Clients,         \* request goroutines of the API process
    Sweepers,        \* sweep tasks the worker may be running at a time
    ViolationLimit,  \* violations that end an exam (3)
    MaxRetry,        \* retries asynq grants a grading task (3)
    MaxOutages,      \* bound: process crashes, failed sweeps and failed enqueues
    NoSub            \* "no submission in hand"

Handlers == Clients \cup Sweepers       \* whoever calls dispatchGrading
Tasks    == Subs \X Handlers            \* the grading t[2] dispatches for t[1]

ASSUME SubmissionAssumption ==
    /\ NoSub \notin Subs
    /\ Clients \cap Sweepers = {}
    /\ ViolationLimit \in Nat \ {0}
    /\ MaxRetry \in Nat
    /\ MaxOutages \in Nat

VARIABLES
    status,      \* submissions.status; "absent" while there is no row
    violations,  \* submissions.violation_count
    auto,        \* submissions.auto_submitted
    expired,     \* the rows with started_at + duration_minutes < now()
    pc,          \* where each handler is
    cur,         \* the submission it works on
    seen,        \* the violation_count a client read
    todo,        \* the rest of the rows a sweep found stale
    task,        \* what became of each grading task
    retried,     \* how often asynq retried it
    stray,       \* its runs asynq gave up waiting for, still executing
    inline,      \* the goroutine that grades when Enqueue returned an error
    outages

rows    == <<status, violations, auto>>
locals  == <<pc, cur, seen, todo>>
grading == <<task, retried, stray, inline>>
vars    == <<rows, expired, locals, grading, outages>>

Status    == {"absent", "in_progress", "submitted", "graded"}
Closed    == {"submitted", "graded"}
TaskState == {"none",                           \* not dispatched
              "refused",                        \* dispatched, but Redis has no task
              "queued", "active",               \* in Redis, running
              "completed",
              "archived",                       \* asynq ran out of retries
              "unsent"}                         \* the handler died before dispatching
InlineState == {"none", "running", "completed",
                "lost"}                         \* it failed or died

Init ==
    /\ status     = [s \in Subs |-> "absent"]
    /\ violations = [s \in Subs |-> 0]
    /\ auto       = [s \in Subs |-> FALSE]
    /\ expired    = {}
    /\ pc         = [h \in Handlers |-> "idle"]
    /\ cur        = [h \in Handlers |-> NoSub]
    /\ seen       = [c \in Clients |-> 0]
    /\ todo       = [w \in Sweepers |-> {}]
    /\ task       = [t \in Tasks |-> "none"]
    /\ retried    = [t \in Tasks |-> 0]
    /\ stray      = [t \in Tasks |-> 0]
    /\ inline     = [t \in Tasks |-> "none"]
    /\ outages    = 0

-----------------------------------------------------------------------------
(* The exam clock.                                                         *)

\* StartExam inserts the row.  (Who may start what is not this module's
\* concern: a submission is whatever row was inserted.)
StartExam(s) ==
    /\ status[s] = "absent"
    /\ status'     = [status     EXCEPT ![s] = "in_progress"]
    /\ violations' = [violations EXCEPT ![s] = 0]
    /\ auto'       = [auto       EXCEPT ![s] = FALSE]
    /\ UNCHANGED <<expired, locals, grading, outages>>

\* The deadline passes, whatever state the submission is in.
Expire(s) ==
    /\ status[s] # "absent" /\ s \notin expired
    /\ expired' = expired \cup {s}
    /\ UNCHANGED <<rows, locals, grading, outages>>

\* The lecturer takes the exam back to draft and gives it more minutes: the
\* deadline is computed from the exam's row on every read, so it moves.
Extend(s) ==
    /\ s \in expired
    /\ expired' = expired \ {s}
    /\ UNCHANGED <<rows, locals, grading, outages>>

-----------------------------------------------------------------------------
(* Requests of the student's browser.  Reads the code answers at once      *)
(* (submission not active) change nothing and are not actions.             *)

\* Mutant: the check is forgotten.
ReadableAnyStatus(c, s) == pc[c] = "idle" /\ status[s] # "absent"

\* The status check at the top of Submit and LogViolation.
Readable(c, s) == pc[c] = "idle" /\ status[s] = "in_progress"

\* The handler is through with this request.
Done(c) ==
    /\ pc'   = [pc   EXCEPT ![c] = "idle"]
    /\ cur'  = [cur  EXCEPT ![c] = NoSub]
    /\ seen' = [seen EXCEPT ![c] = 0]

SubmitRead(c, s) ==
    /\ Readable(c, s)
    /\ pc'  = [pc  EXCEPT ![c] = "submit"]
    /\ cur' = [cur EXCEPT ![c] = s]
    /\ UNCHANGED <<rows, expired, seen, todo, grading, outages>>

\* The UPDATE carries no condition on the status it was decided from.
SubmitWrite(c) ==
    /\ pc[c] = "submit"
    /\ status' = [status EXCEPT ![cur[c]] = "submitted"]
    /\ pc' = [pc EXCEPT ![c] = "dispatch"]
    /\ UNCHANGED <<violations, auto, expired, cur, seen, todo, grading, outages>>

ViolationRead(c, s) ==
    /\ Readable(c, s)
    /\ pc'   = [pc   EXCEPT ![c] = "violation"]
    /\ cur'  = [cur  EXCEPT ![c] = s]
    /\ seen' = [seen EXCEPT ![c] = violations[s]]
    /\ UNCHANGED <<rows, expired, todo, grading, outages>>

\* Mutant: one violation too many.
LimitPassed(c) == seen[c] + 1 > ViolationLimit

\* Does the count this client is about to write end the exam?
LimitReached(c) == seen[c] + 1 >= ViolationLimit

ViolationWrite(c) ==
    /\ pc[c] = "violation"
    /\ violations' = [violations EXCEPT ![cur[c]] = seen[c] + 1]
    /\ \/ /\ LimitReached(c)
          /\ status' = [status EXCEPT ![cur[c]] = "submitted"]
          /\ pc'   = [pc   EXCEPT ![c] = "dispatch"]
          /\ seen' = [seen EXCEPT ![c] = 0]
          /\ UNCHANGED cur
       \/ ~LimitReached(c) /\ Done(c) /\ UNCHANGED status
    /\ UNCHANGED <<auto, expired, todo, grading, outages>>

\* Mutant: the error of the UPDATE is ignored.
RequestFailsUnnoticed(c) ==
    /\ pc[c] \in {"submit", "violation"}
    /\ pc'   = [pc   EXCEPT ![c] = "dispatch"]
    /\ seen' = [seen EXCEPT ![c] = 0]
    /\ UNCHANGED <<rows, expired, cur, todo, grading, outages>>

\* The UPDATE returns an error: the request answers 500.
RequestFails(c) ==
    /\ pc[c] \in {"submit", "violation"}
    /\ Done(c)
    /\ UNCHANGED <<rows, expired, todo, grading, outages>>

-----------------------------------------------------------------------------
(* SweepExpired, run by the worker on a schedule.                          *)

\* Mutant: the wrong status in the WHERE clause.
StaleClosed == {s \in Subs : status[s] = "submitted" /\ s \in expired}

\* The rows the SELECT of the sweep returns.
Stale == {s \in Subs : status[s] = "in_progress" /\ s \in expired}

\* An empty result ends the run at once.
SweepFind(w) ==
    /\ pc[w] = "idle" /\ Stale # {}
    /\ todo' = [todo EXCEPT ![w] = Stale]
    /\ pc'   = [pc   EXCEPT ![w] = "sweep"]
    /\ UNCHANGED <<rows, expired, cur, seen, grading, outages>>

\* Where the loop of w goes when `rest` is left to do.
LoopPc(rest) == IF rest = {} THEN "idle" ELSE "sweep"

\* Mutant: UPDATE ... WHERE id = s.
RowAffectedAlways(s) == status[s] # "absent"

\* Whether UPDATE ... WHERE id = s AND status = 'in_progress' takes effect.
RowAffected(s) == status[s] = "in_progress"

\* The loop body, on the rows in whatever order the database returned them.
SweepUpdate(w, s) ==
    /\ pc[w] = "sweep" /\ s \in todo[w]
    /\ todo' = [todo EXCEPT ![w] = @ \ {s}]
    /\ \/ /\ RowAffected(s)
          /\ status' = [status EXCEPT ![s] = "submitted"]
          /\ auto'   = [auto   EXCEPT ![s] = TRUE]
          /\ pc'     = [pc     EXCEPT ![w] = "dispatch"]
          /\ cur'    = [cur    EXCEPT ![w] = s]
       \/ /\ ~RowAffected(s)
          /\ pc' = [pc EXCEPT ![w] = LoopPc(todo[w] \ {s})]
          /\ UNCHANGED <<status, auto, cur>>
    /\ UNCHANGED <<violations, expired, seen, grading, outages>>

\* The UPDATE fails: the run returns early, the rows after this one wait for
\* the next.
SweepFails(w) ==
    /\ pc[w] = "sweep" /\ outages < MaxOutages
    /\ pc'   = [pc   EXCEPT ![w] = "idle"]
    /\ todo' = [todo EXCEPT ![w] = {}]
    /\ outages' = outages + 1
    /\ UNCHANGED <<rows, expired, cur, seen, grading>>

-----------------------------------------------------------------------------
(* dispatchGrading: to the queue and, if Enqueue returns an error, to a    *)
(* goroutine of the same process.  The error does not mean that Redis has  *)
(* no task: its reply may be lost, and a command go-redis repeats after    *)
(* that is answered with a conflict.                                       *)

\* Mutant: no fallback, the error of the enqueue is dropped.
HandoverQueueOnly == {"queued", "refused"} \X {"none"}

\* What becomes of the task and of the goroutine: taken; refused; or taken, but
\* reported as an error.
Handover == {<<"queued", "none">>, <<"refused", "running">>, <<"queued", "running">>}

Dispatch(h) ==
    /\ pc[h] = "dispatch"
    /\ \E to \in Handover :
          /\ task'   = [task   EXCEPT ![<<cur[h], h>>] = to[1]]
          /\ inline' = [inline EXCEPT ![<<cur[h], h>>] = to[2]]
          /\ outages' = IF to = <<"queued", "none">> THEN outages ELSE outages + 1
    /\ outages' <= MaxOutages
    /\ pc'  = [pc  EXCEPT ![h] = IF h \in Sweepers THEN LoopPc(todo[h]) ELSE "idle"]
    /\ cur' = [cur EXCEPT ![h] = NoSub]
    /\ UNCHANGED <<rows, expired, seen, todo, retried, stray>>

-----------------------------------------------------------------------------
(* Grading.  A run writes `graded` without looking at the status.          *)

\* asynq hands a task, new or due for a retry, to a worker goroutine.
Deliver(t) ==
    /\ task[t] = "queued"
    /\ task' = [task EXCEPT ![t] = "active"]
    /\ UNCHANGED <<rows, expired, locals, retried, stray, inline, outages>>

Publish(s) == status' = [status EXCEPT ![s] = "graded"]

\* A run asynq waits for reaches the end of GradeSubmission.
Grade(t) ==
    /\ task[t] = "active"
    /\ Publish(t[1])
    /\ task' = [task EXCEPT ![t] = "completed"]
    /\ UNCHANGED <<violations, auto, expired, locals, retried, stray, inline, outages>>

\* So does one that overran its timeout: the handler ignores its context.
GradeLate(t) ==
    /\ stray[t] > 0
    /\ Publish(t[1])
    /\ stray' = [stray EXCEPT ![t] = @ - 1]
    /\ UNCHANGED <<violations, auto, expired, locals, task, retried, inline, outages>>

\* So does the goroutine of dispatchGrading.
GradeInline(t) ==
    /\ inline[t] = "running"
    /\ Publish(t[1])
    /\ inline' = [inline EXCEPT ![t] = "completed"]
    /\ UNCHANGED <<violations, auto, expired, locals, task, retried, stray, outages>>

\* Mutant: the option MaxRetry is not passed, or zero.
ArchiveAtOnce(t) ==
    /\ task' = [task EXCEPT ![t] = "archived"]
    /\ UNCHANGED retried

\* asynq's answer to a run that did not succeed.
RetryOrArchive(t) ==
    \/ /\ retried[t] < MaxRetry
       /\ retried' = [retried EXCEPT ![t] = @ + 1]
       /\ task'    = [task    EXCEPT ![t] = "queued"]
    \/ /\ retried[t] >= MaxRetry
       /\ task' = [task EXCEPT ![t] = "archived"]
       /\ UNCHANGED retried

\* Mutant: the worker handler swallows the error.
GradeFailsUnnoticed(t) ==
    /\ task[t] = "active"
    /\ task' = [task EXCEPT ![t] = "completed"]
    /\ UNCHANGED <<rows, expired, locals, retried, stray, inline, outages>>

\* GradeSubmission returns an error (a failed read, a failed final UPDATE).
GradeFails(t) ==
    /\ task[t] = "active"
    /\ RetryOrArchive(t)
    /\ UNCHANGED <<rows, expired, locals, stray, inline, outages>>

\* The two minutes are over: asynq gives up on the run, which goes on.
GradeTimesOut(t) ==
    /\ task[t] = "active"
    /\ RetryOrArchive(t)
    /\ stray' = [stray EXCEPT ![t] = @ + 1]
    /\ UNCHANGED <<rows, expired, locals, inline, outages>>

GradeLateFails(t) ==
    /\ stray[t] > 0
    /\ stray' = [stray EXCEPT ![t] = @ - 1]
    /\ UNCHANGED <<rows, expired, locals, task, retried, inline, outages>>

\* The error of the goroutine's run is dropped.
InlineFails(t) ==
    /\ inline[t] = "running"
    /\ inline' = [inline EXCEPT ![t] = "lost"]
    /\ UNCHANGED <<rows, expired, locals, task, retried, stray, outages>>

-----------------------------------------------------------------------------
(* Crashes.  The database and Redis survive; goroutines do not.            *)

Dispatching(s, h) == pc[h] = "dispatch" /\ cur[h] = s

\* What the crash of the process that runs the handlers in H leaves of the task
\* t and of its goroutine.
AfterCrash(H, t) ==
    IF t[2] \in H /\ Dispatching(t[1], t[2]) THEN "unsent" ELSE task[t]

InlineAfterCrash(H, t) ==
    IF t[2] \in H /\ inline[t] = "running" THEN "lost" ELSE inline[t]

ApiCrash ==
    /\ outages < MaxOutages
    /\ outages' = outages + 1
    /\ pc'   = [h \in Handlers |-> IF h \in Clients THEN "idle" ELSE pc[h]]
    /\ cur'  = [h \in Handlers |-> IF h \in Clients THEN NoSub ELSE cur[h]]
    /\ seen' = [c \in Clients |-> 0]
    /\ task'   = [t \in Tasks |-> AfterCrash(Clients, t)]
    /\ inline' = [t \in Tasks |-> InlineAfterCrash(Clients, t)]
    /\ UNCHANGED <<rows, expired, todo, retried, stray>>

\* asynq finds the tasks the dead worker held and retries or archives them.
WorkerCrash ==
    /\ outages < MaxOutages
    /\ outages' = outages + 1
    /\ pc'   = [h \in Handlers |-> IF h \in Sweepers THEN "idle" ELSE pc[h]]
    /\ cur'  = [h \in Handlers |-> IF h \in Sweepers THEN NoSub ELSE cur[h]]
    /\ todo' = [w \in Sweepers |-> {}]
    /\ task' = [t \in Tasks |->
                  IF task[t] # "active" THEN AfterCrash(Sweepers, t)
                  ELSE IF retried[t] < MaxRetry THEN "queued" ELSE "archived"]
    /\ retried' = [t \in Tasks |-> IF task[t] = "active" /\ retried[t] < MaxRetry
                                   THEN retried[t] + 1 ELSE retried[t]]
    /\ stray'  = [t \in Tasks |-> 0]
    /\ inline' = [t \in Tasks |-> InlineAfterCrash(Sweepers, t)]
    /\ UNCHANGED <<rows, expired, seen>>

-----------------------------------------------------------------------------
Clock(s)  == StartExam(s) \/ Expire(s) \/ Extend(s)

Request(c) ==
    \/ \E s \in Subs : SubmitRead(c, s) \/ ViolationRead(c, s)
    \/ SubmitWrite(c) \/ ViolationWrite(c) \/ RequestFails(c)

Sweep(w) ==
    \/ SweepFind(w) \/ SweepFails(w)
    \/ \E s \in Subs : SweepUpdate(w, s)

Run(t) ==
    \/ Deliver(t) \/ Grade(t) \/ GradeFails(t) \/ GradeTimesOut(t)
    \/ GradeLate(t) \/ GradeLateFails(t)
    \/ GradeInline(t) \/ InlineFails(t)

Next ==
    \/ \E s \in Subs : Clock(s)
    \/ \E c \in Clients : Request(c)
    \/ \E w \in Sweepers : Sweep(w)
    \/ \E h \in Handlers : Dispatch(h)
    \/ \E t \in Tasks : Run(t)
    \/ ApiCrash
    \/ WorkerCrash

Spec == Init /\ [][Next]_vars

(***************************************************************************)
(* Goroutines are scheduled, the sweep recurs, asynq delivers what it      *)
(* holds, and no run lasts for ever: a request ends in its write or an     *)
(* error, a grading run in its result, an error or the timeout.  Nothing   *)
(* is assumed of the students, of the clock or of outages.                 *)
(***************************************************************************)
FinishRequest(c) == SubmitWrite(c) \/ ViolationWrite(c) \/ RequestFails(c)
FinishRun(t)     == Grade(t) \/ GradeFails(t) \/ GradeTimesOut(t)

Fairness ==
    /\ \A c \in Clients  : WF_vars(FinishRequest(c))
    /\ \A h \in Handlers : WF_vars(Dispatch(h))
    /\ \A w \in Sweepers : /\ WF_vars(SweepFind(w))
                           /\ WF_vars(\E s \in Subs : SweepUpdate(w, s))
    /\ \A t \in Tasks    : /\ WF_vars(Deliver(t))
                           /\ WF_vars(FinishRun(t))
                           /\ WF_vars(GradeLate(t) \/ GradeLateFails(t))
                           /\ WF_vars(GradeInline(t) \/ InlineFails(t))

FairSpec == Spec /\ Fairness

-----------------------------------------------------------------------------
(* Invariants.                                                             *)

\* The shape of the state.  Of the code it says that a violation count never
\* passes the limit, and that a handler has a submission exactly when it works
\* on one.
TypeOK ==
    /\ status     \in [Subs -> Status]
    /\ violations \in [Subs -> 0..ViolationLimit]
    /\ auto       \in [Subs -> BOOLEAN]
    /\ expired    \in SUBSET Subs
    /\ pc \in [Handlers -> {"idle", "submit", "violation", "sweep", "dispatch"}]
    /\ \A c \in Clients  : pc[c] # "sweep"
    /\ \A w \in Sweepers : pc[w] \notin {"submit", "violation"}
    /\ cur \in [Handlers -> Subs \cup {NoSub}]
    /\ \A h \in Handlers : cur[h] = NoSub <=> pc[h] \in {"idle", "sweep"}
    /\ seen \in [Clients -> 0..(ViolationLimit - 1)]
    /\ todo \in [Sweepers -> SUBSET Subs]
    /\ task    \in [Tasks -> TaskState]
    /\ retried \in [Tasks -> 0..MaxRetry]
    /\ stray   \in [Tasks -> Nat]
    /\ inline  \in [Tasks -> InlineState]
    /\ outages \in 0..MaxOutages

\* h has closed s, and has dispatched its grading or is about to.
Claimed(s, h) == Dispatching(s, h) \/ task[<<s, h>>] # "none"

\* The grading h dispatched or will dispatch for s did not complete (yet),
\* neither from the queue nor in a goroutine; what Redis refused has one.
Owed(s, h) ==
    \/ Dispatching(s, h)
    \/ /\ task[<<s, h>>] \notin {"none", "completed"} /\ inline[<<s, h>>] # "completed"
       /\ task[<<s, h>>] = "refused" => inline[<<s, h>>] # "none"

\* No request and no sweep dispatches the grading of a submission it has
\* dispatched before, whatever it read and however late it writes: duplicates
\* take two handlers, or a reply of Redis that was lost.  (Submit, LogViolation,
\* SweepExpired.)
HandlerDispatchesOnce ==
    \A h \in Handlers : pc[h] = "dispatch" => task[<<cur[h], h>>] = "none"

\* A submission that shows `submitted` has grading ahead of it, or grading that
\* is known to have been given up (archived, lost, never sent); a late write
\* that takes a graded submission back brings its own.  (Submit, LogViolation,
\* SweepExpired, dispatchGrading and GradeSubmission together.)
SubmittedHasGrader ==
    \A s \in Subs : status[s] = "submitted" => \E h \in Handlers : Owed(s, h)

\* Nobody grades, or is about to grade, an exam still being written:
\* GradeSubmission itself does not look at the status.
OpenUnclaimed ==
    \A s \in Subs : status[s] \notin Closed => \A h \in Handlers : ~Claimed(s, h)

\* auto_submitted is set on the submissions a sweep closed and dispatched, and
\* on no other; however many sweeps overlap, one of them did it.
SweptByOne ==
    \A s \in Subs :
        /\ auto[s] <=> \E w \in Sweepers : Claimed(s, w)
        /\ \A w1, w2 \in Sweepers : Claimed(s, w1) /\ Claimed(s, w2) => w1 = w2

\* An open exam is below the violation limit even though lost updates make the
\* count go down: the write that reaches the limit closes it.  (LogViolation.)
OpenBelowLimit ==
    \A s \in Subs : status[s] = "in_progress" => violations[s] < ViolationLimit

\* A client that decided to write has not claimed the row it read, and the
\* row exists.
UnclaimedByReader ==
    \A c \in Clients : pc[c] \in {"submit", "violation"} =>
        status[cur[c]] # "absent" /\ task[<<cur[c], c>>] = "none"

\* Only what was dispatched has runs that asynq gave up on, or a goroutine.
StrayDispatched ==
    \A t \in Tasks : stray[t] > 0 \/ inline[t] # "none" => task[t] # "none"

\* All of it, in the form every step preserves: the invariants above need the
\* two just stated (a late write must find its own task unused, a late run must
\* belong to a closed row), and each other.
IInv ==
    /\ TypeOK
    /\ HandlerDispatchesOnce
    /\ OpenUnclaimed
    /\ SubmittedHasGrader
    /\ SweptByOne
    /\ OpenBelowLimit
    /\ UnclaimedByReader
    /\ StrayDispatched

-----------------------------------------------------------------------------
(* Refinement and liveness.                                                *)

Life == INSTANCE Lifecycle

\* All those interleavings show, from outside, as the transitions of Lifecycle:
\* nothing reopens, nothing open is graded, the sweep touches open rows only.
ImplementsLifecycle == Life!Spec

\* A grading as the queue's callers see it.
TaskOf(t) ==
    CASE task[t] = "none"                  -> "none"
      [] task[t] \in {"unsent", "refused"} -> "refused"
      [] task[t] = "queued"                -> "waiting"
      [] task[t] = "active"                -> "running"
      [] task[t] = "completed"             -> "done"
      [] task[t] = "archived"              -> "archived"

\* The runs of it that asynq has begun.
Tries(t) == IF task[t] \in {"active", "completed", "archived"} THEN retried[t] + 1
                                                               ELSE retried[t]

\* The run its caller made of it.
OwnOf(t) == IF inline[t] = "completed" THEN "done" ELSE inline[t]

Queue == INSTANCE Delivery WITH
    Tasks    <- Tasks,
    MaxRetry <- MaxRetry,
    state    <- [t \in Tasks |-> TaskOf(t)],
    tries    <- [t \in Tasks |-> Tries(t)],
    own      <- [t \in Tasks |-> OwnOf(t)]

\* A grading is offered to the queue once.  What the queue has it gives the runs
\* it was granted, one at a time, and gives up only after the last; a goroutine
\* begins at most one more run, when the task is offered and never later, and
\* whatever overlaps, times out or crashes nothing that is done, given up or
\* lost comes back.  (dispatchGrading, enqueue, the worker.)
ImplementsDelivery == Queue!Spec

\* Nobody will ever grade s on behalf of some handler that closed it, and nobody
\* has: it was never sent, Redis refused it and the goroutine is lost, or it is
\* archived and there is no goroutine any more.
GivenUp(s) ==
    \E h \in Handlers : /\ task[<<s, h>>] \in {"unsent", "refused", "archived"}
                        /\ inline[<<s, h>>] \in {"none", "lost"}
                        /\ task[<<s, h>>] = "refused" => inline[<<s, h>>] # "none"

\* An exam nobody submits is closed once its time is over, unless it gets more
\* time first.  (SweepExpired.)
ExpiredCloses ==
    \A s \in Subs : status[s] = "in_progress" /\ s \in expired
                       ~> (status[s] \in Closed \/ s \notin expired)

\* A submitted exam ends up graded and stays so, after the last late write and
\* duplicate run, unless a grading of it was given up.
GradingSettles ==
    \A s \in Subs : status[s] = "submitted" ~> [](status[s] = "graded" \/ GivenUp(s))

-----------------------------------------------------------------------------
(* What the repository's texts say, and the code does not keep.            *)

\* service.go:211 "a client submitting at the same moment wins the race and
\* grading is not dispatched twice".
SweepNeverDoublesClient ==
    \A s \in Subs, c \in Clients, w \in Sweepers : ~(Claimed(s, c) /\ Claimed(s, w))

\* service.go:533 "LogViolation increments the violation count".
ViolationIncrements ==
    [][\A c \in Clients : ViolationWrite(c) =>
           violations'[cur[c]] = violations[cur[c]] + 1]_vars

\* README:195 "status changes from submitted -> graded", allowing for a task
\* that failed all its attempts and for the best-effort goroutine.
SubmittedGetsGraded ==
    \A s \in Subs : status[s] = "submitted" ~>
        \/ status[s] = "graded"
        \/ \E h \in Handlers : task[<<s, h>>] = "archived" \/ inline[<<s, h>>] = "lost"
=============================================================================
