-------------------------- MODULE SubmissionProofs --------------------------
(***************************************************************************)
(* Proofs about Submission, for every set of rows, requests and sweeps,    *)
(* every violation limit, retry count and number of outages.               *)
(*                                                                         *)
(* IInv is inductive.  Its conjuncts about who claimed what rest on three  *)
(* lemmas: a claim is never taken back (ClaimKept), it begins when its     *)
(* handler enters dispatchGrading (ClaimNew), and a grading owed stays     *)
(* owed until the row is graded (OwedKept).  What a step does to the two   *)
(* columns the sweep decides on is in SweepEnters and AutoNew.             *)
(***************************************************************************)
EXTENDS Submission, TLAPS

-----------------------------------------------------------------------------
(* Type correctness.                                                       *)

\* asynq's answer to a failed run keeps the types of what it changes.
LEMMA RetryType ==
    ASSUME IInv, NEW t \in Tasks, RetryOrArchive(t)
    PROVE  task' \in [Tasks -> TaskState] /\ retried' \in [Tasks -> 0..MaxRetry]
<1> USE DEF IInv, TypeOK, TaskState
<1>1. CASE retried[t] < MaxRetry
  <2>1. retried[t] + 1 \in 0..MaxRetry
    BY <1>1, SubmissionAssumption
  <2>2. /\ retried' = [retried EXCEPT ![t] = retried[t] + 1]
        /\ task'    = [task    EXCEPT ![t] = "queued"]
    BY <1>1, SubmissionAssumption DEF RetryOrArchive
  <2> QED
    BY <2>1, <2>2
<1>2. CASE retried[t] >= MaxRetry
  <2>1. retried' = retried /\ task' = [task EXCEPT ![t] = "archived"]
    BY <1>2, SubmissionAssumption DEF RetryOrArchive
  <2> QED
    BY <2>1
<1> QED
  BY <1>1, <1>2, SubmissionAssumption

\* A step keeps the types.
LEMMA TypeStep ==
    ASSUME IInv, [Next]_vars
    PROVE  TypeOK'
<1> USE SubmissionAssumption DEF IInv, TypeOK, OpenBelowLimit, Handlers, Tasks, Status,
    TaskState, InlineState, rows, locals, grading
<1>1. ASSUME NEW s \in Subs, Clock(s)
      PROVE  TypeOK'
  <2>1. CASE StartExam(s)
    BY <2>1 DEF StartExam
  <2>2. CASE Expire(s)
    BY <2>2 DEF Expire
  <2>3. CASE Extend(s)
    BY <2>3 DEF Extend
  <2> QED
    BY <1>1, <2>1, <2>2, <2>3
     DEF Clock
<1>2. ASSUME NEW c \in Clients, Request(c)
      PROVE  TypeOK'
  <2>1. ASSUME NEW s \in Subs, SubmitRead(c, s)
        PROVE  TypeOK'
    BY <2>1 DEF SubmitRead, Readable
  <2>2. ASSUME NEW s \in Subs, ViolationRead(c, s)
        PROVE  TypeOK'
    BY <2>2 DEF ViolationRead, Readable
  <2>3. CASE SubmitWrite(c)
    BY <2>3 DEF SubmitWrite
  <2>4. CASE ViolationWrite(c)
    <3>1. cur[c] \in Subs /\ seen[c] + 1 \in 0..ViolationLimit
      BY <2>4 DEF ViolationWrite
    <3>2. violations' \in [Subs -> 0..ViolationLimit] /\ status' \in [Subs -> Status]
      BY <2>4, <3>1 DEF ViolationWrite
    <3>3. seen' \in [Clients -> 0..(ViolationLimit - 1)]
      BY <2>4 DEF ViolationWrite, Done
    <3>4. CASE LimitReached(c)
      <4>1. pc' = [pc EXCEPT ![c] = "dispatch"] /\ cur' = cur
        BY <2>4, <3>4 DEF ViolationWrite
      <4> QED
        BY <2>4, <3>1, <3>2, <3>3, <4>1 DEF ViolationWrite
    <3>5. CASE ~LimitReached(c)
      <4>1. pc' = [pc EXCEPT ![c] = "idle"] /\ cur' = [cur EXCEPT ![c] = NoSub]
        BY <2>4, <3>5 DEF ViolationWrite, Done
      <4> QED
        BY <2>4, <3>2, <3>3, <4>1 DEF ViolationWrite
    <3> QED
      BY <3>4, <3>5
  <2>5. CASE RequestFails(c)
    BY <2>5 DEF RequestFails, Done
  <2> QED
    BY <1>2, <2>1, <2>2, <2>3, <2>4, <2>5
     DEF Request
<1>3. ASSUME NEW w \in Sweepers, Sweep(w)
      PROVE  TypeOK'
  <2>1. CASE SweepFind(w)
    BY <2>1 DEF SweepFind, Stale
  <2>2. CASE SweepFails(w)
    BY <2>2 DEF SweepFails
  <2>3. ASSUME NEW s \in Subs, SweepUpdate(w, s)
        PROVE  TypeOK'
    <3>1. todo' \in [Sweepers -> SUBSET Subs]
      BY <2>3 DEF SweepUpdate
    <3>2. CASE status[s] = "in_progress"
      <4>1. /\ status' = [status EXCEPT ![s] = "submitted"]
            /\ auto'   = [auto   EXCEPT ![s] = TRUE]
            /\ pc'     = [pc     EXCEPT ![w] = "dispatch"]
            /\ cur'    = [cur    EXCEPT ![w] = s]
        BY <2>3, <3>2 DEF SweepUpdate, RowAffected
      <4> QED
        BY <2>3, <3>1, <4>1 DEF SweepUpdate
    <3>3. CASE status[s] # "in_progress"
      <4>1. /\ pc' = [pc EXCEPT ![w] = LoopPc(todo[w] \ {s})]
            /\ UNCHANGED <<status, auto, cur>>
        BY <2>3, <3>3 DEF SweepUpdate, RowAffected
      <4> QED
        BY <2>3, <3>1, <4>1 DEF SweepUpdate, LoopPc
    <3> QED
      BY <3>2, <3>3
  <2> QED
    BY <1>3, <2>1, <2>2, <2>3
     DEF Sweep
<1>4. ASSUME NEW h \in Handlers, Dispatch(h)
      PROVE  TypeOK'
  <2>1. PICK to \in Handover :
           /\ task'   = [task   EXCEPT ![<<cur[h], h>>] = to[1]]
           /\ inline' = [inline EXCEPT ![<<cur[h], h>>] = to[2]]
           /\ outages' \in {outages, outages + 1}
    BY <1>4 DEF Dispatch
  <2>2. to[1] \in TaskState /\ to[2] \in InlineState
    BY DEF Handover
  <2>3. task' \in [Tasks -> TaskState] /\ inline' \in [Tasks -> InlineState]
    BY <2>1, <2>2
  <2>4. outages' \in 0..MaxOutages
    BY <1>4, <2>1 DEF Dispatch
  <2> QED
    BY <1>4, <2>3, <2>4 DEF Dispatch, LoopPc
<1>5. ASSUME NEW t \in Tasks, Run(t)
      PROVE  TypeOK'
  <2>1. CASE Deliver(t)
    BY <2>1 DEF Deliver
  <2>2. CASE Grade(t)
    BY <2>2 DEF Grade, Publish
  <2>3. CASE GradeFails(t)
    <3>1. task' \in [Tasks -> TaskState] /\ retried' \in [Tasks -> 0..MaxRetry]
      BY <2>3, RetryType DEF GradeFails
    <3> QED
      BY <2>3, <3>1 DEF GradeFails
  <2>4. CASE GradeTimesOut(t)
    <3>1. task' \in [Tasks -> TaskState] /\ retried' \in [Tasks -> 0..MaxRetry]
      BY <2>4, RetryType DEF GradeTimesOut
    <3>2. stray' \in [Tasks -> Nat]
      BY <2>4 DEF GradeTimesOut
    <3> QED
      BY <2>4, <3>1, <3>2 DEF GradeTimesOut
  <2>5. CASE GradeLate(t)
    BY <2>5 DEF GradeLate, Publish
  <2>6. CASE GradeLateFails(t)
    BY <2>6 DEF GradeLateFails
  <2>7. CASE GradeInline(t)
    BY <2>7 DEF GradeInline, Publish
  <2>8. CASE InlineFails(t)
    BY <2>8 DEF InlineFails
  <2> QED
    BY <1>5, <2>1, <2>2, <2>3, <2>4, <2>5, <2>6, <2>7, <2>8
     DEF Run
<1>6. CASE ApiCrash
  BY <1>6
     DEF ApiCrash, AfterCrash, InlineAfterCrash, Dispatching
<1>7. CASE WorkerCrash
  BY <1>7
     DEF WorkerCrash, AfterCrash, InlineAfterCrash, Dispatching
<1>8. CASE UNCHANGED vars
  BY <1>8 DEF vars
<1> QED
  BY <1>1, <1>2, <1>3, <1>4, <1>5, <1>6, <1>7, <1>8 DEF Next

-----------------------------------------------------------------------------
(* Claims: who has dispatched, or is about to dispatch, which grading.     *)

\* A handler that dispatched the grading of q, or is about to, has done so for
\* ever: a crash leaves the task behind as unsent.
LEMMA ClaimKept ==
    ASSUME IInv, [Next]_vars, NEW q \in Subs, NEW g \in Handlers,
           Claimed(q, g)
    PROVE  Claimed(q, g)'
<1> USE DEF IInv, TypeOK, Handlers, Tasks, rows, locals, grading, Claimed, Dispatching
<1>1. ASSUME NEW s \in Subs, Clock(s)
      PROVE  Claimed(q, g)'
  BY <1>1
     DEF Clock, StartExam, Expire, Extend
<1>2. ASSUME NEW c \in Clients, Request(c)
      PROVE  Claimed(q, g)'
  BY <1>2
     DEF Request, SubmitRead, Readable, ViolationRead, SubmitWrite,
         ViolationWrite, Done, LimitReached, RequestFails
<1>3. ASSUME NEW w \in Sweepers, Sweep(w)
      PROVE  Claimed(q, g)'
  BY <1>3
     DEF Sweep, SweepFind, Stale, SweepFails, SweepUpdate, RowAffected,
         LoopPc
<1>4. ASSUME NEW h \in Handlers, Dispatch(h)
      PROVE  Claimed(q, g)'
  BY <1>4
     DEF Dispatch, Handover, LoopPc
<1>5. ASSUME NEW t \in Tasks, Run(t)
      PROVE  Claimed(q, g)'
  BY <1>5
     DEF Run, Deliver, Grade, Publish, GradeFails, RetryOrArchive,
         GradeTimesOut, GradeLate, GradeLateFails, GradeInline, InlineFails
<1>6. CASE ApiCrash
  BY <1>6
     DEF ApiCrash, AfterCrash, InlineAfterCrash, Dispatching
<1>7. CASE WorkerCrash
  BY <1>7
     DEF WorkerCrash, AfterCrash, InlineAfterCrash, Dispatching
<1>8. CASE UNCHANGED vars
  BY <1>8 DEF vars
<1> QED
  BY <1>1, <1>2, <1>3, <1>4, <1>5, <1>6, <1>7, <1>8 DEF Next

\* A claim begins with the handler entering dispatchGrading.
LEMMA ClaimNew ==
    ASSUME IInv, [Next]_vars, NEW q \in Subs, NEW g \in Handlers,
           ~Claimed(q, g), Claimed(q, g)'
    PROVE  pc[g] # "dispatch" /\ pc'[g] = "dispatch" /\ cur'[g] = q
<1> USE DEF IInv, TypeOK, Handlers, Tasks, rows, locals, grading, Claimed, Dispatching, StrayDispatched
<1>1. ASSUME NEW s \in Subs, Clock(s)
      PROVE  pc[g] # "dispatch" /\ pc'[g] = "dispatch" /\ cur'[g] = q
  BY <1>1
     DEF Clock, StartExam, Expire, Extend
<1>2. ASSUME NEW c \in Clients, Request(c)
      PROVE  pc[g] # "dispatch" /\ pc'[g] = "dispatch" /\ cur'[g] = q
  BY <1>2
     DEF Request, SubmitRead, Readable, ViolationRead, SubmitWrite,
         ViolationWrite, Done, LimitReached, RequestFails
<1>3. ASSUME NEW w \in Sweepers, Sweep(w)
      PROVE  pc[g] # "dispatch" /\ pc'[g] = "dispatch" /\ cur'[g] = q
  BY <1>3
     DEF Sweep, SweepFind, Stale, SweepFails, SweepUpdate, RowAffected,
         LoopPc
<1>4. ASSUME NEW h \in Handlers, Dispatch(h)
      PROVE  pc[g] # "dispatch" /\ pc'[g] = "dispatch" /\ cur'[g] = q
  BY <1>4
     DEF Dispatch, Handover, LoopPc
<1>5. ASSUME NEW t \in Tasks, Run(t)
      PROVE  pc[g] # "dispatch" /\ pc'[g] = "dispatch" /\ cur'[g] = q
  BY <1>5
     DEF Run, Deliver, Grade, Publish, GradeFails, RetryOrArchive,
         GradeTimesOut, GradeLate, GradeLateFails, GradeInline, InlineFails
<1>6. CASE ApiCrash
  BY <1>6
     DEF ApiCrash, AfterCrash, InlineAfterCrash, Dispatching
<1>7. CASE WorkerCrash
  BY <1>7
     DEF WorkerCrash, AfterCrash, InlineAfterCrash, Dispatching
<1>8. CASE UNCHANGED vars
  BY <1>8 DEF vars
<1> QED
  BY <1>1, <1>2, <1>3, <1>4, <1>5, <1>6, <1>7, <1>8 DEF Next

\* Grading owed to a row that shows `submitted` after the step is still owed.
LEMMA OwedKept ==
    ASSUME IInv, [Next]_vars, NEW q \in Subs, NEW g \in Handlers,
           Owed(q, g), status'[q] = "submitted"
    PROVE  Owed(q, g)'
<1> USE DEF IInv, TypeOK, Handlers, Tasks, rows, locals, grading, Owed, Dispatching
<1>1. ASSUME NEW s \in Subs, Clock(s)
      PROVE  Owed(q, g)'
  BY <1>1
     DEF Clock, StartExam, Expire, Extend
<1>2. ASSUME NEW c \in Clients, Request(c)
      PROVE  Owed(q, g)'
  BY <1>2
     DEF Request, SubmitRead, Readable, ViolationRead, SubmitWrite,
         ViolationWrite, Done, LimitReached, RequestFails
<1>3. ASSUME NEW w \in Sweepers, Sweep(w)
      PROVE  Owed(q, g)'
  BY <1>3
     DEF Sweep, SweepFind, Stale, SweepFails, SweepUpdate, RowAffected,
         LoopPc
<1>4. ASSUME NEW h \in Handlers, Dispatch(h)
      PROVE  Owed(q, g)'
  BY <1>4
     DEF Dispatch, Handover, LoopPc
<1>5. ASSUME NEW t \in Tasks, Run(t)
      PROVE  Owed(q, g)'
  BY <1>5
     DEF Run, Deliver, Grade, Publish, GradeFails, RetryOrArchive,
         GradeTimesOut, GradeLate, GradeLateFails, GradeInline, InlineFails
<1>6. CASE ApiCrash
  <2>1. Dispatching(q, g) => task[<<q, g>>] = "none"
    BY DEF HandlerDispatchesOnce
  <2>2. task[<<q, g>>] = "none" => inline[<<q, g>>] = "none"
    BY DEF StrayDispatched
  <2>3. /\ task'[<<q, g>>]   = AfterCrash(Clients, <<q, g>>)
        /\ inline'[<<q, g>>] = InlineAfterCrash(Clients, <<q, g>>)
        /\ g \notin Clients => Dispatching(q, g)' = Dispatching(q, g)
    BY <1>6 DEF ApiCrash
  <2> QED
    BY <2>1, <2>2, <2>3 DEF AfterCrash, InlineAfterCrash
<1>7. CASE WorkerCrash
  <2>1. Dispatching(q, g) => task[<<q, g>>] = "none"
    BY DEF HandlerDispatchesOnce
  <2>2. task[<<q, g>>] = "none" => inline[<<q, g>>] = "none"
    BY DEF StrayDispatched
  <2>3. /\ \/ task'[<<q, g>>] = AfterCrash(Sweepers, <<q, g>>)
           \/ task[<<q, g>>] = "active" /\ task'[<<q, g>>] \in {"queued", "archived"}
        /\ inline'[<<q, g>>] = InlineAfterCrash(Sweepers, <<q, g>>)
        /\ g \notin Sweepers => Dispatching(q, g)' = Dispatching(q, g)
    BY <1>7 DEF WorkerCrash
  <2> QED
    BY <2>1, <2>2, <2>3 DEF AfterCrash, InlineAfterCrash
<1>8. CASE UNCHANGED vars
  BY <1>8 DEF vars
<1> QED
  BY <1>1, <1>2, <1>3, <1>4, <1>5, <1>6, <1>7, <1>8 DEF Next

\* Whoever turns a row to `submitted` is about to dispatch its grading.
LEMMA SubmittedNew ==
    ASSUME IInv, [Next]_vars, NEW q \in Subs,
           status[q] # "submitted", status'[q] = "submitted"
    PROVE  \E g \in Handlers : Dispatching(q, g)'
<1> USE DEF IInv, TypeOK, Handlers, Tasks, rows, locals, grading, Dispatching
<1>1. ASSUME NEW s \in Subs, Clock(s)
      PROVE  \E g \in Handlers : Dispatching(q, g)'
  BY <1>1
     DEF Clock, StartExam, Expire, Extend
<1>2. ASSUME NEW c \in Clients, Request(c)
      PROVE  \E g \in Handlers : Dispatching(q, g)'
  BY <1>2
     DEF Request, SubmitRead, Readable, ViolationRead, SubmitWrite,
         ViolationWrite, Done, LimitReached, RequestFails
<1>3. ASSUME NEW w \in Sweepers, Sweep(w)
      PROVE  \E g \in Handlers : Dispatching(q, g)'
  BY <1>3
     DEF Sweep, SweepFind, Stale, SweepFails, SweepUpdate, RowAffected,
         LoopPc
<1>4. ASSUME NEW h \in Handlers, Dispatch(h)
      PROVE  \E g \in Handlers : Dispatching(q, g)'
  BY <1>4
     DEF Dispatch, Handover, LoopPc
<1>5. ASSUME NEW t \in Tasks, Run(t)
      PROVE  \E g \in Handlers : Dispatching(q, g)'
  BY <1>5
     DEF Run, Deliver, Grade, Publish, GradeFails, RetryOrArchive,
         GradeTimesOut, GradeLate, GradeLateFails, GradeInline, InlineFails
<1>6. CASE ApiCrash
  BY <1>6
     DEF ApiCrash, AfterCrash, InlineAfterCrash, Dispatching
<1>7. CASE WorkerCrash
  BY <1>7
     DEF WorkerCrash, AfterCrash, InlineAfterCrash, Dispatching
<1>8. CASE UNCHANGED vars
  BY <1>8 DEF vars
<1> QED
  BY <1>1, <1>2, <1>3, <1>4, <1>5, <1>6, <1>7, <1>8 DEF Next

\* A sweep enters dispatchGrading only by closing an open row and marking it.
LEMMA SweepEnters ==
    ASSUME IInv, [Next]_vars, NEW v \in Sweepers,
           pc[v] # "dispatch", pc'[v] = "dispatch"
    PROVE  /\ status[cur'[v]] = "in_progress" /\ auto'[cur'[v]]
           /\ \A g \in Handlers : g # v => pc'[g] = pc[g]
<1> USE DEF IInv, TypeOK, Handlers, Tasks, rows, locals, grading
<1>1. ASSUME NEW s \in Subs, Clock(s)
      PROVE  /\ status[cur'[v]] = "in_progress" /\ auto'[cur'[v]]
           /\ \A g \in Handlers : g # v => pc'[g] = pc[g]
  BY <1>1
     DEF Clock, StartExam, Expire, Extend
<1>2. ASSUME NEW c \in Clients, Request(c)
      PROVE  /\ status[cur'[v]] = "in_progress" /\ auto'[cur'[v]]
           /\ \A g \in Handlers : g # v => pc'[g] = pc[g]
  BY <1>2
     DEF Request, SubmitRead, Readable, ViolationRead, SubmitWrite,
         ViolationWrite, Done, LimitReached, RequestFails
<1>3. ASSUME NEW w \in Sweepers, Sweep(w)
      PROVE  /\ status[cur'[v]] = "in_progress" /\ auto'[cur'[v]]
           /\ \A g \in Handlers : g # v => pc'[g] = pc[g]
  BY <1>3
     DEF Sweep, SweepFind, Stale, SweepFails, SweepUpdate, RowAffected,
         LoopPc
<1>4. ASSUME NEW h \in Handlers, Dispatch(h)
      PROVE  /\ status[cur'[v]] = "in_progress" /\ auto'[cur'[v]]
           /\ \A g \in Handlers : g # v => pc'[g] = pc[g]
  BY <1>4
     DEF Dispatch, Handover, LoopPc
<1>5. ASSUME NEW t \in Tasks, Run(t)
      PROVE  /\ status[cur'[v]] = "in_progress" /\ auto'[cur'[v]]
           /\ \A g \in Handlers : g # v => pc'[g] = pc[g]
  BY <1>5
     DEF Run, Deliver, Grade, Publish, GradeFails, RetryOrArchive,
         GradeTimesOut, GradeLate, GradeLateFails, GradeInline, InlineFails
<1>6. CASE ApiCrash
  BY <1>6
     DEF ApiCrash, AfterCrash, InlineAfterCrash, Dispatching
<1>7. CASE WorkerCrash
  BY <1>7
     DEF WorkerCrash, AfterCrash, InlineAfterCrash, Dispatching
<1>8. CASE UNCHANGED vars
  BY <1>8 DEF vars
<1> QED
  BY <1>1, <1>2, <1>3, <1>4, <1>5, <1>6, <1>7, <1>8 DEF Next

\* Only a sweep that enters dispatchGrading changes auto_submitted.
LEMMA AutoNew ==
    ASSUME IInv, [Next]_vars, NEW q \in Subs, auto'[q] # auto[q]
    PROVE  \E v \in Sweepers : pc[v] # "dispatch" /\ pc'[v] = "dispatch" /\ cur'[v] = q
<1> USE DEF IInv, TypeOK, Handlers, Tasks, rows, locals, grading, SweptByOne, OpenUnclaimed, Closed
<1>1. ASSUME NEW s \in Subs, Clock(s)
      PROVE  \E v \in Sweepers : pc[v] # "dispatch" /\ pc'[v] = "dispatch" /\ cur'[v] = q
  <2>1. CASE StartExam(s)
    BY <2>1 DEF StartExam
  <2> QED
    BY <1>1, <2>1
     DEF Clock, Expire, Extend
<1>2. ASSUME NEW c \in Clients, Request(c)
      PROVE  \E v \in Sweepers : pc[v] # "dispatch" /\ pc'[v] = "dispatch" /\ cur'[v] = q
  BY <1>2
     DEF Request, SubmitRead, Readable, ViolationRead, SubmitWrite,
         ViolationWrite, Done, LimitReached, RequestFails
<1>3. ASSUME NEW w \in Sweepers, Sweep(w)
      PROVE  \E v \in Sweepers : pc[v] # "dispatch" /\ pc'[v] = "dispatch" /\ cur'[v] = q
  BY <1>3
     DEF Sweep, SweepFind, Stale, SweepFails, SweepUpdate, RowAffected,
         LoopPc
<1>4. ASSUME NEW h \in Handlers, Dispatch(h)
      PROVE  \E v \in Sweepers : pc[v] # "dispatch" /\ pc'[v] = "dispatch" /\ cur'[v] = q
  BY <1>4
     DEF Dispatch, Handover, LoopPc
<1>5. ASSUME NEW t \in Tasks, Run(t)
      PROVE  \E v \in Sweepers : pc[v] # "dispatch" /\ pc'[v] = "dispatch" /\ cur'[v] = q
  BY <1>5
     DEF Run, Deliver, Grade, Publish, GradeFails, RetryOrArchive,
         GradeTimesOut, GradeLate, GradeLateFails, GradeInline, InlineFails
<1>6. CASE ApiCrash
  BY <1>6
     DEF ApiCrash, AfterCrash, InlineAfterCrash, Dispatching
<1>7. CASE WorkerCrash
  BY <1>7
     DEF WorkerCrash, AfterCrash, InlineAfterCrash, Dispatching
<1>8. CASE UNCHANGED vars
  BY <1>8 DEF vars
<1> QED
  BY <1>1, <1>2, <1>3, <1>4, <1>5, <1>6, <1>7, <1>8 DEF Next

-----------------------------------------------------------------------------
(* The conjuncts of the inductive invariant, one lemma each.               *)

\* The write that reaches the limit closes the row.
LEMMA LimitStep ==
    ASSUME IInv, [Next]_vars
    PROVE  OpenBelowLimit'
<1> USE SubmissionAssumption DEF IInv, TypeOK, Handlers, Tasks, rows, locals, grading, OpenBelowLimit
<1>1. ASSUME NEW s \in Subs, Clock(s)
      PROVE  OpenBelowLimit'
  BY <1>1
     DEF Clock, StartExam, Expire, Extend
<1>2. ASSUME NEW c \in Clients, Request(c)
      PROVE  OpenBelowLimit'
  <2>1. CASE ViolationWrite(c)
    <3>1. CASE LimitReached(c)
      BY <2>1, <3>1 DEF ViolationWrite
    <3>2. CASE ~LimitReached(c)
      BY <2>1, <3>2, SubmissionAssumption DEF ViolationWrite, LimitReached
    <3> QED
      BY <3>1, <3>2
  <2> QED
    BY <1>2, <2>1
     DEF Request, SubmitRead, Readable, ViolationRead, SubmitWrite,
         RequestFails, Done
<1>3. ASSUME NEW w \in Sweepers, Sweep(w)
      PROVE  OpenBelowLimit'
  BY <1>3
     DEF Sweep, SweepFind, Stale, SweepFails, SweepUpdate, RowAffected,
         LoopPc
<1>4. ASSUME NEW h \in Handlers, Dispatch(h)
      PROVE  OpenBelowLimit'
  BY <1>4
     DEF Dispatch, Handover, LoopPc
<1>5. ASSUME NEW t \in Tasks, Run(t)
      PROVE  OpenBelowLimit'
  BY <1>5
     DEF Run, Deliver, Grade, Publish, GradeFails, RetryOrArchive,
         GradeTimesOut, GradeLate, GradeLateFails, GradeInline, InlineFails
<1>6. CASE ApiCrash
  BY <1>6
     DEF ApiCrash, AfterCrash, InlineAfterCrash, Dispatching
<1>7. CASE WorkerCrash
  BY <1>7
     DEF WorkerCrash, AfterCrash, InlineAfterCrash, Dispatching
<1>8. CASE UNCHANGED vars
  BY <1>8 DEF vars
<1> QED
  BY <1>1, <1>2, <1>3, <1>4, <1>5, <1>6, <1>7, <1>8 DEF Next

\* A run goes astray only after its task was dispatched.
LEMMA StrayStep ==
    ASSUME IInv, [Next]_vars
    PROVE  StrayDispatched'
<1> USE DEF IInv, TypeOK, Handlers, Tasks, rows, locals, grading, StrayDispatched
<1>1. ASSUME NEW s \in Subs, Clock(s)
      PROVE  StrayDispatched'
  BY <1>1
     DEF Clock, StartExam, Expire, Extend
<1>2. ASSUME NEW c \in Clients, Request(c)
      PROVE  StrayDispatched'
  BY <1>2
     DEF Request, SubmitRead, Readable, ViolationRead, SubmitWrite,
         ViolationWrite, Done, LimitReached, RequestFails
<1>3. ASSUME NEW w \in Sweepers, Sweep(w)
      PROVE  StrayDispatched'
  BY <1>3
     DEF Sweep, SweepFind, Stale, SweepFails, SweepUpdate, RowAffected,
         LoopPc
<1>4. ASSUME NEW h \in Handlers, Dispatch(h)
      PROVE  StrayDispatched'
  BY <1>4
     DEF Dispatch, Handover, LoopPc
<1>5. ASSUME NEW t \in Tasks, Run(t)
      PROVE  StrayDispatched'
  BY <1>5
     DEF Run, Deliver, Grade, Publish, GradeFails, RetryOrArchive,
         GradeTimesOut, GradeLate, GradeLateFails, GradeInline, InlineFails
<1>6. CASE ApiCrash
  BY <1>6
     DEF ApiCrash, AfterCrash, InlineAfterCrash, Dispatching
<1>7. CASE WorkerCrash
  BY <1>7
     DEF WorkerCrash, AfterCrash, InlineAfterCrash, Dispatching
<1>8. CASE UNCHANGED vars
  BY <1>8 DEF vars
<1> QED
  BY <1>1, <1>2, <1>3, <1>4, <1>5, <1>6, <1>7, <1>8 DEF Next

\* What a client read open it has not claimed when it writes.
LEMMA ReaderStep ==
    ASSUME IInv, [Next]_vars
    PROVE  UnclaimedByReader'
<1> USE SubmissionAssumption DEF IInv, TypeOK, Handlers, Tasks, rows, locals, grading, Closed, UnclaimedByReader, OpenUnclaimed, Claimed, Dispatching
<1>1. ASSUME NEW s \in Subs, Clock(s)
      PROVE  UnclaimedByReader'
  BY <1>1
     DEF Clock, StartExam, Expire, Extend
<1>2. ASSUME NEW c \in Clients, Request(c)
      PROVE  UnclaimedByReader'
  BY <1>2
     DEF Request, SubmitRead, Readable, ViolationRead, SubmitWrite,
         ViolationWrite, Done, LimitReached, RequestFails
<1>3. ASSUME NEW w \in Sweepers, Sweep(w)
      PROVE  UnclaimedByReader'
  BY <1>3
     DEF Sweep, SweepFind, Stale, SweepFails, SweepUpdate, RowAffected,
         LoopPc
<1>4. ASSUME NEW h \in Handlers, Dispatch(h)
      PROVE  UnclaimedByReader'
  BY <1>4
     DEF Dispatch, Handover, LoopPc
<1>5. ASSUME NEW t \in Tasks, Run(t)
      PROVE  UnclaimedByReader'
  BY <1>5
     DEF Run, Deliver, Grade, Publish, GradeFails, RetryOrArchive,
         GradeTimesOut, GradeLate, GradeLateFails, GradeInline, InlineFails
<1>6. CASE ApiCrash
  BY <1>6
     DEF ApiCrash, AfterCrash, InlineAfterCrash, Dispatching
<1>7. CASE WorkerCrash
  BY <1>7
     DEF WorkerCrash, AfterCrash, InlineAfterCrash, Dispatching
<1>8. CASE UNCHANGED vars
  BY <1>8 DEF vars
<1> QED
  BY <1>1, <1>2, <1>3, <1>4, <1>5, <1>6, <1>7, <1>8 DEF Next

\* A handler enters dispatchGrading with its task unused.
LEMMA OnceStep ==
    ASSUME IInv, [Next]_vars
    PROVE  HandlerDispatchesOnce'
<1> USE SubmissionAssumption DEF IInv, TypeOK, Handlers, Tasks, rows, locals, grading, Closed, HandlerDispatchesOnce, UnclaimedByReader,
    OpenUnclaimed, Claimed, Dispatching
<1>1. ASSUME NEW s \in Subs, Clock(s)
      PROVE  HandlerDispatchesOnce'
  BY <1>1
     DEF Clock, StartExam, Expire, Extend
<1>2. ASSUME NEW c \in Clients, Request(c)
      PROVE  HandlerDispatchesOnce'
  <2>1. CASE ViolationWrite(c)
    <3>1. CASE LimitReached(c)
      <4>1. /\ pc' = [pc EXCEPT ![c] = "dispatch"]
            /\ UNCHANGED <<cur, task>>
        BY <2>1, <3>1 DEF ViolationWrite
      <4>2. task[<<cur[c], c>>] = "none"
        BY <2>1 DEF ViolationWrite
      <4> QED
        BY <4>1, <4>2
    <3>2. CASE ~LimitReached(c)
      <4>1. /\ pc'  = [pc  EXCEPT ![c] = "idle"]
            /\ cur' = [cur EXCEPT ![c] = NoSub]
            /\ UNCHANGED task
        BY <2>1, <3>2 DEF ViolationWrite, Done
      <4> QED
        BY <4>1
    <3> QED
      BY <3>1, <3>2
  <2> QED
    BY <1>2, <2>1
     DEF Request, SubmitRead, Readable, ViolationRead, SubmitWrite,
         RequestFails, Done
<1>3. ASSUME NEW w \in Sweepers, Sweep(w)
      PROVE  HandlerDispatchesOnce'
  <2>1. ASSUME NEW s \in Subs, SweepUpdate(w, s)
        PROVE  HandlerDispatchesOnce'
    BY <2>1 DEF SweepUpdate, RowAffected, LoopPc
  <2> QED
    BY <1>3, <2>1
     DEF Sweep, SweepFind, Stale, SweepFails
<1>4. ASSUME NEW h \in Handlers, Dispatch(h)
      PROVE  HandlerDispatchesOnce'
  BY <1>4
     DEF Dispatch, Handover, LoopPc
<1>5. ASSUME NEW t \in Tasks, Run(t)
      PROVE  HandlerDispatchesOnce'
  BY <1>5
     DEF Run, Deliver, Grade, Publish, GradeFails, RetryOrArchive,
         GradeTimesOut, GradeLate, GradeLateFails, GradeInline, InlineFails
<1>6. CASE ApiCrash
  BY <1>6
     DEF ApiCrash, AfterCrash, InlineAfterCrash, Dispatching
<1>7. CASE WorkerCrash
  BY <1>7
     DEF WorkerCrash, AfterCrash, InlineAfterCrash, Dispatching
<1>8. CASE UNCHANGED vars
  BY <1>8 DEF vars
<1> QED
  BY <1>1, <1>2, <1>3, <1>4, <1>5, <1>6, <1>7, <1>8 DEF Next

\* Every claim is on a closed row.
LEMMA OpenStep ==
    ASSUME IInv, [Next]_vars
    PROVE  OpenUnclaimed'
<1> USE DEF IInv, TypeOK, Handlers, Tasks, rows, locals, grading, Closed, OpenUnclaimed, Claimed, Dispatching,
    UnclaimedByReader, StrayDispatched
<1>1. ASSUME NEW s \in Subs, Clock(s)
      PROVE  OpenUnclaimed'
  BY <1>1
     DEF Clock, StartExam, Expire, Extend
<1>2. ASSUME NEW c \in Clients, Request(c)
      PROVE  OpenUnclaimed'
  BY <1>2
     DEF Request, SubmitRead, Readable, ViolationRead, SubmitWrite,
         ViolationWrite, Done, LimitReached, RequestFails
<1>3. ASSUME NEW w \in Sweepers, Sweep(w)
      PROVE  OpenUnclaimed'
  BY <1>3
     DEF Sweep, SweepFind, Stale, SweepFails, SweepUpdate, RowAffected,
         LoopPc
<1>4. ASSUME NEW h \in Handlers, Dispatch(h)
      PROVE  OpenUnclaimed'
  BY <1>4
     DEF Dispatch, Handover, LoopPc
<1>5. ASSUME NEW t \in Tasks, Run(t)
      PROVE  OpenUnclaimed'
  BY <1>5
     DEF Run, Deliver, Grade, Publish, GradeFails, RetryOrArchive,
         GradeTimesOut, GradeLate, GradeLateFails, GradeInline, InlineFails
<1>6. CASE ApiCrash
  BY <1>6
     DEF ApiCrash, AfterCrash, InlineAfterCrash, Dispatching
<1>7. CASE WorkerCrash
  BY <1>7
     DEF WorkerCrash, AfterCrash, InlineAfterCrash, Dispatching
<1>8. CASE UNCHANGED vars
  BY <1>8 DEF vars
<1> QED
  BY <1>1, <1>2, <1>3, <1>4, <1>5, <1>6, <1>7, <1>8 DEF Next

\* The row was `submitted` before, and what was owed is owed; or it has just
\* become so, and its writer owes it.
LEMMA OwedStep == IInv /\ [Next]_vars => SubmittedHasGrader'
<1> SUFFICES ASSUME IInv, [Next]_vars, NEW q \in Subs, status'[q] = "submitted"
             PROVE  \E g \in Handlers : Owed(q, g)'
  BY DEF SubmittedHasGrader
<1>1. CASE status[q] = "submitted"
  <2>1. PICK g \in Handlers : Owed(q, g)
    BY <1>1 DEF IInv, SubmittedHasGrader
  <2>2. Owed(q, g)'
    BY <2>1, OwedKept
  <2> QED
    BY <2>2
<1>2. CASE status[q] # "submitted"
  <2>1. PICK g \in Handlers : Dispatching(q, g)'
    BY <1>2, SubmittedNew
  <2>2. Owed(q, g)'
    BY <2>1 DEF Owed
  <2> QED
    BY <2>2
<1> QED
  BY <1>1, <1>2

\* A sweep that closes a row is the first to claim it among the sweeps, for an
\* open row has no claim on it; no other step adds a sweep's claim.
LEMMA SweptStep == IInv /\ [Next]_vars => SweptByOne'
<1> SUFFICES ASSUME IInv, [Next]_vars, NEW q \in Subs
             PROVE  /\ auto'[q] <=> \E w \in Sweepers : Claimed(q, w)'
                    /\ \A w1, w2 \in Sweepers :
                          Claimed(q, w1)' /\ Claimed(q, w2)' => w1 = w2
  BY DEF SweptByOne
<1>a. Sweepers \subseteq Handlers
  BY DEF Handlers
<1>b. auto[q] \in BOOLEAN /\ auto'[q] \in BOOLEAN
  BY TypeStep DEF IInv, TypeOK
<1>1. CASE \E v \in Sweepers : ~Claimed(q, v) /\ Claimed(q, v)'
  <2>1. PICK v \in Sweepers : ~Claimed(q, v) /\ Claimed(q, v)'
    BY <1>1
  <2>2. pc[v] # "dispatch" /\ pc'[v] = "dispatch" /\ cur'[v] = q
    BY <1>a, <2>1, ClaimNew
  <2>3. /\ status[q] = "in_progress" /\ auto'[q]
        /\ \A g \in Handlers : g # v => pc'[g] = pc[g]
    BY <2>2, SweepEnters
  <2>4. \A w \in Sweepers : ~Claimed(q, w)
    BY <1>a, <2>3 DEF IInv, OpenUnclaimed, Closed
  <2>5. ASSUME NEW w \in Sweepers, Claimed(q, w)' PROVE w = v
    <3>1. pc[w] # "dispatch" /\ pc'[w] = "dispatch"
      BY <1>a, <2>4, <2>5, ClaimNew
    <3> QED
      BY <1>a, <2>3, <3>1
  <2> QED
    BY <2>1, <2>3, <2>5
<1>2. CASE ~ \E v \in Sweepers : ~Claimed(q, v) /\ Claimed(q, v)'
  <2>1. \A w \in Sweepers : Claimed(q, w)' <=> Claimed(q, w)
    BY <1>a, <1>2, ClaimKept
  <2>2. auto'[q] = auto[q]
    <3> SUFFICES ASSUME auto'[q] # auto[q] PROVE FALSE
      OBVIOUS
    <3>1. PICK v \in Sweepers :
             pc[v] # "dispatch" /\ pc'[v] = "dispatch" /\ cur'[v] = q
      BY AutoNew
    <3>2. ~Claimed(q, v)
      BY <1>a, <3>1, SweepEnters DEF IInv, OpenUnclaimed, Closed
    <3>3. Claimed(q, v)'
      BY <3>1 DEF Claimed, Dispatching
    <3> QED
      BY <1>2, <3>2, <3>3
  <2> QED
    BY <2>1, <2>2 DEF IInv, SweptByOne
<1> QED
  BY <1>1, <1>2

-----------------------------------------------------------------------------
(* The theorems.                                                           *)

LEMMA InitInv == Init => IInv
<1> SUFFICES ASSUME Init PROVE IInv
  OBVIOUS
<1> USE SubmissionAssumption DEF Init, Handlers, Tasks
<1>1. TypeOK
  BY DEF TypeOK, Status, TaskState, InlineState
<1>2. \A s \in Subs, h \in Handlers : ~Claimed(s, h)
  BY DEF Claimed, Dispatching
<1>3. HandlerDispatchesOnce /\ SubmittedHasGrader /\ OpenBelowLimit
  BY DEF HandlerDispatchesOnce, SubmittedHasGrader, OpenBelowLimit
<1>4. OpenUnclaimed /\ SweptByOne
  BY <1>2 DEF OpenUnclaimed, SweptByOne
<1>5. UnclaimedByReader /\ StrayDispatched
  BY DEF UnclaimedByReader, StrayDispatched
<1> QED
  BY <1>1, <1>3, <1>4, <1>5 DEF IInv

LEMMA StepInv == IInv /\ [Next]_vars => IInv'
BY TypeStep, OnceStep, OpenStep, OwedStep, SweptStep, LimitStep, ReaderStep,
   StrayStep DEF IInv

\* The invariant the others follow from.
THEOREM Invariance == Spec => []IInv
BY InitInv, StepInv, PTL DEF Spec

\* The types, with the bound on the violation count.
THEOREM TypeCorrect == Spec => []TypeOK
BY Invariance, PTL DEF IInv

\* A request or a sweep never dispatches one submission twice.
THEOREM DispatchesOnce == Spec => []HandlerDispatchesOnce
BY Invariance, PTL DEF IInv

\* A submitted row is never without grading to come, short of one given up.
THEOREM NothingForgotten == Spec => []SubmittedHasGrader
BY Invariance, PTL DEF IInv

\* No exam is graded while it is being written.
THEOREM NoEarlyGrading == Spec => []OpenUnclaimed
BY Invariance, PTL DEF IInv

\* auto_submitted marks what exactly one sweep closed.
THEOREM SweptOnce == Spec => []SweptByOne
BY Invariance, PTL DEF IInv

\* Lost updates do not take an open exam past the limit.
THEOREM LimitCloses == Spec => []OpenBelowLimit
BY Invariance, PTL DEF IInv

-----------------------------------------------------------------------------
(* The refinement.                                                         *)


\* Every step is one of Lifecycle, or does not show.
LEMMA LifeStep ==
    ASSUME IInv, [Next]_vars
    PROVE  Life!Next \/ UNCHANGED <<status, auto>>
<1> USE DEF IInv, TypeOK, Handlers, Tasks, rows, locals, grading
<1>1. ASSUME NEW s \in Subs, Clock(s)
      PROVE  Life!Next \/ UNCHANGED <<status, auto>>
  <2>1. CASE StartExam(s)
    <3>1. auto[s] = FALSE
      BY <2>1 DEF StartExam, SweptByOne, OpenUnclaimed, Closed
    <3>2. Life!Start(s)
      BY <2>1, <3>1 DEF StartExam, Life!Start
    <3> QED
      BY <3>2 DEF Life!Next
  <2> QED
    BY <1>1, <2>1
     DEF Clock, Expire, Extend
<1>2. ASSUME NEW c \in Clients, Request(c)
      PROVE  Life!Next \/ UNCHANGED <<status, auto>>
  <2>1. CASE SubmitWrite(c)
    <3>1. cur[c] \in Subs /\ status[cur[c]] # "absent"
      BY <2>1 DEF SubmitWrite, UnclaimedByReader
    <3>2. Life!StudentClose(cur[c])
      BY <2>1, <3>1 DEF SubmitWrite, Life!StudentClose
    <3> QED
      BY <3>1, <3>2 DEF Life!Next
  <2>2. CASE ViolationWrite(c)
    <3>1. cur[c] \in Subs /\ status[cur[c]] # "absent"
      BY <2>2 DEF ViolationWrite, UnclaimedByReader
    <3>2. CASE LimitReached(c)
      <4>1. Life!StudentClose(cur[c])
        BY <2>2, <3>1, <3>2 DEF ViolationWrite, Life!StudentClose
      <4> QED
        BY <3>1, <4>1 DEF Life!Next
    <3>3. CASE ~LimitReached(c)
      BY <2>2, <3>3 DEF ViolationWrite
    <3> QED
      BY <3>2, <3>3
  <2> QED
    BY <1>2, <2>1, <2>2
     DEF Request, SubmitRead, Readable, ViolationRead, RequestFails, Done
<1>3. ASSUME NEW w \in Sweepers, Sweep(w)
      PROVE  Life!Next \/ UNCHANGED <<status, auto>>
  <2>1. ASSUME NEW s \in Subs, SweepUpdate(w, s)
        PROVE  Life!Next \/ UNCHANGED <<status, auto>>
    <3>1. CASE status[s] = "in_progress"
      <4>1. Life!SweepClose(s)
        BY <2>1, <3>1 DEF SweepUpdate, RowAffected, Life!SweepClose
      <4> QED
        BY <4>1 DEF Life!Next
    <3>2. CASE status[s] # "in_progress"
      BY <2>1, <3>2 DEF SweepUpdate, RowAffected
    <3> QED
      BY <3>1, <3>2
  <2> QED
    BY <1>3, <2>1
     DEF Sweep, SweepFind, Stale, SweepFails
<1>4. ASSUME NEW h \in Handlers, Dispatch(h)
      PROVE  Life!Next \/ UNCHANGED <<status, auto>>
  BY <1>4
     DEF Dispatch, Handover, LoopPc
<1>5. ASSUME NEW t \in Tasks, Run(t)
      PROVE  Life!Next \/ UNCHANGED <<status, auto>>
  <2>1. CASE Grade(t)
    <3>1. t[1] \in Subs /\ t[2] \in Handlers /\ t = <<t[1], t[2]>>
      OBVIOUS
    <3>2. Claimed(t[1], t[2])
      BY <2>1, <3>1 DEF Grade, Claimed
    <3>3. Life!Grade(t[1])
      BY <2>1, <3>1, <3>2 DEF Grade, Publish, OpenUnclaimed, Closed, Life!Grade, Life!Closed
    <3> QED
      BY <3>1, <3>3 DEF Life!Next
  <2>2. CASE GradeLate(t)
    <3>1. t[1] \in Subs /\ t[2] \in Handlers /\ t = <<t[1], t[2]>>
      OBVIOUS
    <3>2. Claimed(t[1], t[2])
      BY <2>2, <3>1 DEF GradeLate, StrayDispatched, Claimed
    <3>3. Life!Grade(t[1])
      BY <2>2, <3>1, <3>2 DEF GradeLate, Publish, OpenUnclaimed, Closed, Life!Grade, Life!Closed
    <3> QED
      BY <3>1, <3>3 DEF Life!Next
  <2>3. CASE GradeInline(t)
    <3>1. t[1] \in Subs /\ t[2] \in Handlers /\ t = <<t[1], t[2]>>
      OBVIOUS
    <3>2. Claimed(t[1], t[2])
      BY <2>3, <3>1 DEF GradeInline, StrayDispatched, Claimed
    <3>3. Life!Grade(t[1])
      BY <2>3, <3>1, <3>2 DEF GradeInline, Publish, OpenUnclaimed, Closed, Life!Grade, Life!Closed
    <3> QED
      BY <3>1, <3>3 DEF Life!Next
  <2> QED
    BY <1>5, <2>1, <2>2, <2>3
     DEF Run, Deliver, GradeFails, RetryOrArchive, GradeTimesOut,
         GradeLateFails, InlineFails
<1>6. CASE ApiCrash
  BY <1>6
     DEF ApiCrash, AfterCrash, InlineAfterCrash, Dispatching
<1>7. CASE WorkerCrash
  BY <1>7
     DEF WorkerCrash, AfterCrash, InlineAfterCrash, Dispatching
<1>8. CASE UNCHANGED vars
  BY <1>8 DEF vars
<1> QED
  BY <1>1, <1>2, <1>3, <1>4, <1>5, <1>6, <1>7, <1>8 DEF Next

LEMMA LifeInit == Init => Life!Init
BY DEF Init, Life!Init

\* Submission implements Lifecycle: what students, lecturers and the analytics
\* queries see of a row changes only as Lifecycle says.
THEOREM Refinement == Spec => ImplementsLifecycle
<1>1. IInv /\ [Next]_vars => [Life!Next]_<<status, auto>>
  BY LifeStep
<1> QED
  BY <1>1, LifeInit, Invariance, PTL DEF Spec, ImplementsLifecycle, Life!Spec

-----------------------------------------------------------------------------
\* What a step may do to one grading: the task of the queue and the goroutine
\* begin together, then each goes its own way.
Offered(t) ==
    /\ task[t] = "none" /\ inline[t] = "none"
    /\ task'[t] \in {"queued", "refused", "unsent"} /\ retried'[t] = retried[t]
    /\ inline'[t] \in {"none", "running"}

TaskMoves(t) ==
    \/ task'[t] = task[t] /\ retried'[t] = retried[t]
    \/ task[t] = "queued" /\ task'[t] = "active" /\ retried'[t] = retried[t]
    \/ task[t] = "active" /\ task'[t] = "completed" /\ retried'[t] = retried[t]
    \/ /\ task[t] = "active" /\ task'[t] = "queued"
       /\ retried[t] < MaxRetry /\ retried'[t] = retried[t] + 1
    \/ /\ task[t] = "active" /\ task'[t] = "archived"
       /\ retried[t] >= MaxRetry /\ retried'[t] = retried[t]

InlineMoves(t) ==
    \/ inline'[t] = inline[t]
    \/ inline[t] = "running" /\ inline'[t] \in {"completed", "lost"}

Moves(t) == Offered(t) \/ (TaskMoves(t) /\ InlineMoves(t))

\* A crash takes a dispatch that was not made, or a goroutine that was running;
\* by HandlerDispatchesOnce a grading has not both.
LEMMA CrashMoves ==
    ASSUME IInv, NEW H, NEW t \in Tasks
    PROVE  /\ \/ AfterCrash(H, t) = task[t]
              \/ /\ task[t] = "none" /\ AfterCrash(H, t) = "unsent"
                 /\ inline[t] = "none" /\ InlineAfterCrash(H, t) = "none"
           /\ \/ InlineAfterCrash(H, t) = inline[t]
              \/ inline[t] = "running" /\ InlineAfterCrash(H, t) = "lost"
<1>1. t[1] \in Subs /\ t[2] \in Handlers /\ t = <<t[1], t[2]>>
  BY DEF Tasks
<1>2. Dispatching(t[1], t[2]) => task[t] = "none"
  BY <1>1 DEF Dispatching, IInv, HandlerDispatchesOnce
<1>3. task[t] = "none" => inline[t] = "none"
  BY DEF IInv, StrayDispatched
<1> QED
  BY <1>2, <1>3 DEF AfterCrash, InlineAfterCrash

LEMMA EveryTaskMoves ==
    ASSUME IInv, [Next]_vars
    PROVE  \A t \in Tasks : Moves(t)
<1> USE DEF IInv, TypeOK, Moves, TaskMoves, InlineMoves, rows, locals, grading
<1>1. ASSUME NEW t \in Tasks, RetryOrArchive(t), task[t] = "active", UNCHANGED inline
      PROVE  \A u \in Tasks : Moves(u)
  BY <1>1 DEF RetryOrArchive
<1>2. ASSUME NEW t \in Tasks, Run(t) PROVE \A u \in Tasks : Moves(u)
  <2>1. CASE GradeFails(t) \/ GradeTimesOut(t)
    BY <1>1, <2>1 DEF GradeFails, GradeTimesOut
  <2>2. CASE Deliver(t) \/ Grade(t)
    BY <2>2 DEF Deliver, Grade
  <2>3. CASE GradeLate(t) \/ GradeLateFails(t)
    BY <2>3 DEF GradeLate, GradeLateFails
  <2>4. CASE GradeInline(t) \/ InlineFails(t)
    BY <2>4 DEF GradeInline, InlineFails
  <2> QED
    BY <1>2, <2>1, <2>2, <2>3, <2>4 DEF Run
<1>3. ASSUME NEW h \in Handlers, Dispatch(h) PROVE \A u \in Tasks : Moves(u)
  <2> DEFINE d == <<cur[h], h>>
  <2>1. d \in Tasks /\ task[d] = "none"
    BY <1>3 DEF Dispatch, HandlerDispatchesOnce, Tasks
  <2>2. inline[d] = "none"
    BY <2>1 DEF StrayDispatched
  <2>3. PICK to \in Handover : /\ task'   = [task   EXCEPT ![d] = to[1]]
                               /\ inline' = [inline EXCEPT ![d] = to[2]]
    BY <1>3 DEF Dispatch
  <2>4. UNCHANGED retried
    BY <1>3 DEF Dispatch
  <2>5. Offered(d)
    BY <2>1, <2>2, <2>3, <2>4 DEF Offered, Handover
  <2>6. ASSUME NEW u \in Tasks, u # d PROVE Moves(u)
    BY <2>3, <2>4, <2>6
  <2> QED
    BY <2>5, <2>6
<1>4. CASE \E s \in Subs : Clock(s)
  BY <1>4 DEF Clock, StartExam, Expire, Extend
<1>5. CASE \E c \in Clients : Request(c)
  BY <1>5 DEF Request, SubmitRead, ViolationRead, SubmitWrite, ViolationWrite, RequestFails
<1>6. CASE \E w \in Sweepers : Sweep(w)
  BY <1>6 DEF Sweep, SweepFind, SweepFails, SweepUpdate
<1>7. CASE ApiCrash
  <2>1. ASSUME NEW t \in Tasks PROVE Moves(t)
    <3>1. /\ task'[t] = AfterCrash(Clients, t) /\ retried'[t] = retried[t]
          /\ inline'[t] = InlineAfterCrash(Clients, t)
      BY <1>7 DEF ApiCrash
    <3> QED
      BY <3>1, CrashMoves DEF Offered
  <2> QED
    BY <2>1
<1>8. CASE WorkerCrash
  <2>1. ASSUME NEW t \in Tasks PROVE Moves(t)
    <3>1. inline'[t] = InlineAfterCrash(Sweepers, t)
      BY <1>8 DEF WorkerCrash
    <3>2. CASE task[t] # "active"
      <4>1. task'[t] = AfterCrash(Sweepers, t) /\ retried'[t] = retried[t]
        BY <1>8, <3>2 DEF WorkerCrash
      <4> QED
        BY <3>1, <4>1, CrashMoves DEF Offered
    <3>3. CASE task[t] = "active"
      <4>1. \/ retried[t] < MaxRetry /\ task'[t] = "queued" /\ retried'[t] = retried[t] + 1
            \/ retried[t] >= MaxRetry /\ task'[t] = "archived" /\ retried'[t] = retried[t]
        BY <1>8, <3>3, SubmissionAssumption DEF WorkerCrash
      <4>2. InlineMoves(t)
        BY <3>1, CrashMoves
      <4> QED
        BY <3>3, <4>1, <4>2
    <3> QED
      BY <3>2, <3>3
  <2> QED
    BY <2>1
<1>9. CASE UNCHANGED vars
  BY <1>9 DEF vars
<1> QED
  BY <1>2, <1>3, <1>4, <1>5, <1>6, <1>7, <1>8, <1>9 DEF Next

\* As the queue and its callers see it, what a step may do is one of these.
LEMMA MoveShows ==
    ASSUME TypeOK, NEW t \in Tasks, Moves(t)
    PROVE  \/ /\ TaskOf(t) = "none" /\ TaskOf(t)' \in {"waiting", "refused"}
              /\ Tries(t)' = Tries(t) /\ OwnOf(t) = "none"
              /\ OwnOf(t)' \in {"none", "running"}
           \/ /\ \/ TaskOf(t)' = TaskOf(t) /\ Tries(t)' = Tries(t)
                 \/ /\ TaskOf(t) = "waiting" /\ TaskOf(t)' = "running"
                    /\ Tries(t)' = Tries(t) + 1
                 \/ TaskOf(t) = "running" /\ TaskOf(t)' = "done" /\ Tries(t)' = Tries(t)
                 \/ /\ TaskOf(t) = "running" /\ TaskOf(t)' = "waiting"
                    /\ Tries(t) <= MaxRetry /\ Tries(t)' = Tries(t)
                 \/ /\ TaskOf(t) = "running" /\ TaskOf(t)' = "archived"
                    /\ Tries(t) > MaxRetry /\ Tries(t)' = Tries(t)
              /\ \/ OwnOf(t)' = OwnOf(t)
                 \/ OwnOf(t) = "running" /\ OwnOf(t)' \in {"done", "lost"}
<1> USE SubmissionAssumption DEF TypeOK
<1>1. CASE Offered(t)
  <2>1. OwnOf(t) = "none" /\ OwnOf(t)' \in {"none", "running"}
    BY <1>1 DEF Offered, OwnOf
  <2> QED
    BY <1>1, <2>1 DEF Offered, TaskOf, Tries
<1>2. CASE TaskMoves(t) /\ InlineMoves(t)
  <2>1. \/ OwnOf(t)' = OwnOf(t)
        \/ OwnOf(t) = "running" /\ OwnOf(t)' \in {"done", "lost"}
    BY <1>2 DEF InlineMoves, OwnOf
  <2>2. \/ TaskOf(t)' = TaskOf(t) /\ Tries(t)' = Tries(t)
        \/ /\ TaskOf(t) = "waiting" /\ TaskOf(t)' = "running"
           /\ Tries(t)' = Tries(t) + 1
        \/ TaskOf(t) = "running" /\ TaskOf(t)' = "done" /\ Tries(t)' = Tries(t)
        \/ /\ TaskOf(t) = "running" /\ TaskOf(t)' = "waiting"
           /\ Tries(t) <= MaxRetry /\ Tries(t)' = Tries(t)
        \/ /\ TaskOf(t) = "running" /\ TaskOf(t)' = "archived"
           /\ Tries(t) > MaxRetry /\ Tries(t)' = Tries(t)
    BY <1>2 DEF TaskMoves, TaskState, TaskOf, Tries
  <2> QED
    BY <2>1, <2>2
<1> QED
  BY <1>1, <1>2 DEF Moves

LEMMA DeliveryInit == Init => Queue!Init
BY DEF Init, Queue!Init, TaskOf, Tries, OwnOf

LEMMA DeliveryStep ==
    ASSUME IInv, IInv', [Next]_vars
    PROVE  Queue!Next
<1> DEFINE st == [t \in Tasks |-> TaskOf(t)]
           tr == [t \in Tasks |-> Tries(t)]
           ow == [t \in Tasks |-> OwnOf(t)]
<1>1. st' \in [Tasks -> Queue!State] /\ tr' \in [Tasks -> Nat] /\ ow' \in [Tasks -> Queue!Own]
  <2>1. \A t \in Tasks : TaskOf(t)' \in Queue!State /\ Tries(t)' \in Nat
    BY SubmissionAssumption DEF IInv, TypeOK, TaskState, TaskOf, Tries, Queue!State
  <2>2. \A t \in Tasks : OwnOf(t)' \in Queue!Own
    BY DEF IInv, TypeOK, InlineState, OwnOf, Queue!Own
  <2> QED
    BY <2>1, <2>2
<1>2. ASSUME NEW t \in Tasks PROVE Queue!Step(t)
  <2>1. /\ st[t] = TaskOf(t) /\ tr[t] = Tries(t) /\ ow[t] = OwnOf(t)
        /\ st'[t] = TaskOf(t)' /\ tr'[t] = Tries(t)' /\ ow'[t] = OwnOf(t)'
    OBVIOUS
  <2>2. TypeOK /\ Moves(t)
    BY EveryTaskMoves DEF IInv
  <2> HIDE DEF st, tr, ow
  <2> QED
    BY <2>1, <2>2, MoveShows
    DEF st, tr, ow, Queue!Step, Queue!To, Queue!Stays, Queue!Offer, Queue!InQueue,
        Queue!Begin, Queue!Finish, Queue!Retry, Queue!GiveUp, Queue!OwnEnds
<1> QED
  BY <1>1, <1>2 DEF Queue!Next

\* Submission implements Delivery: whatever was made of the hand-over, the runs
\* of a grading are those the queue granted and at most one of its caller's own.
\* (dispatchGrading, enqueue, asynq, the worker.)
THEOREM GradingIsDelivered == Spec => ImplementsDelivery
<1>1. IInv /\ IInv' /\ [Next]_vars => Queue!Next
  BY DeliveryStep
<1> QED
  BY <1>1, DeliveryInit, Invariance, PTL DEF Spec, ImplementsDelivery, Queue!Spec

\* Whatever becomes of a grading uses up what it can go through.
LEMMA RunsUsedUp ==
    ASSUME IInv, IInv', [Next]_vars
    PROVE  Queue!UsesUp
<1> DEFINE st == [t \in Tasks |-> TaskOf(t)]
           tr == [t \in Tasks |-> Tries(t)]
           ow == [t \in Tasks |-> OwnOf(t)]
<1> SUFFICES ASSUME NEW t \in Tasks
             PROVE  \/ Queue!Stays(t) /\ ow'[t] = ow[t]
                    \/ Queue!Left(t)' \in 0..(Queue!Left(t) - 1)
  BY DEF Queue!UsesUp
<1>1. /\ Queue!Left(t) = 2 * (MaxRetry + 1 - Tries(t)) +
            (CASE TaskOf(t) = "none" -> 3 [] TaskOf(t) = "running" -> 2
               [] TaskOf(t) = "waiting" -> 1 [] OTHER -> 0) +
            (IF OwnOf(t) = "running" THEN 1 ELSE 0)
      /\ Queue!Left(t)' = 2 * (MaxRetry + 1 - Tries(t)') +
            (CASE TaskOf(t)' = "none" -> 3 [] TaskOf(t)' = "running" -> 2
               [] TaskOf(t)' = "waiting" -> 1 [] OTHER -> 0) +
            (IF OwnOf(t)' = "running" THEN 1 ELSE 0)
      /\ Queue!Stays(t) <=> TaskOf(t)' = TaskOf(t) /\ Tries(t)' = Tries(t)
      /\ ow'[t] = ow[t] <=> OwnOf(t)' = OwnOf(t)
  BY DEF Queue!Left, Queue!To, Queue!Stays
<1>2. Tries(t) \in 0..MaxRetry + 1 /\ Tries(t)' \in 0..MaxRetry + 1
  BY SubmissionAssumption DEF IInv, TypeOK, Tries
<1>3. TypeOK /\ Moves(t)
  BY EveryTaskMoves DEF IInv
<1> HIDE DEF st, tr, ow
<1> QED
  BY <1>1, <1>2, <1>3, MoveShows, SubmissionAssumption

\* No grading is begun again for ever, whatever Judge0, the timeouts and the
\* crashes do: its task and its goroutine change at most 2 * MaxRetry + 5 times,
\* and late runs change them no more.  (dispatchGrading, MaxRetry, Timeout.)
THEOREM GradingRunsOut == Spec => Queue!RunsOut
<1>1. IInv /\ IInv' /\ [Next]_vars => Queue!UsesUp
  BY RunsUsedUp
<1> QED
  BY <1>1, Invariance, PTL DEF Spec, Queue!RunsOut
=============================================================================
