--------------------------------- MODULE Mail ---------------------------------
(***************************************************************************)
(* Mails: asked for by a request or by the goroutine a login starts, put   *)
(* on the queue, and handed by a worker to one provider after the other    *)
(* (internal/mailer, internal/queue/client.go, cmd/worker/main.go; asynq   *)
(* as in module Submission).                                               *)
(*                                                                         *)
(* A mail is tried in runs 0, 1, ... MaxRetry.  The handler ignores its    *)
(* context, and nothing bounds an SMTP conversation: a run that asynq gave *)
(* up waiting for goes on.                                                 *)
(***************************************************************************)
EXTENDS Integers

CONSTANTS
    Mails,
    Providers,   \* how many are configured: Resend, then SMTP
    MaxRetry,    \* retries asynq grants (3)
    MaxOutages   \* bound: process crashes considered

ASSUME MailAssumption ==
    /\ Providers \in Nat \ {0}
    /\ MaxRetry \in Nat
    /\ MaxOutages \in Nat

Runs     == Mails \X (0..MaxRetry)
Attempts == Runs \X (1..Providers)

VARIABLES
    mail,        \* what became of it
    retried,     \* how often asynq retried it
    at,          \* the provider a run is talking to; 0 if it did not begin,
                 \* Providers + 1 if it is over
    outages,
    sent,        \* history: the attempts whose provider took the mail,
    failed,      \*   those that ended with an error,
    cut          \*   and the runs asynq did not see the end of

vars == <<mail, retried, at, outages, sent, failed, cut>>

MailState == {"none", "asked",
              "dropped",                 \* never got on the queue
              "queued", "active",
              "completed",
              "archived"}                \* asynq ran out of retries

Init ==
    /\ mail    = [m \in Mails |-> "none"]
    /\ retried = [m \in Mails |-> 0]
    /\ at      = [r \in Runs |-> 0]
    /\ outages = 0
    /\ sent = {} /\ failed = {} /\ cut = {}

Becomes(m, st) == mail' = [mail EXCEPT ![m] = st]
Running(r)     == at[r] \in 1..Providers
Current(m)     == <<m, retried[m]>>

-----------------------------------------------------------------------------
(* The API process.                                                        *)

\* The login, the invitation or the reset that the mail announces is done.
Ask(m) ==
    /\ mail[m] = "none"
    /\ Becomes(m, "asked")
    /\ UNCHANGED <<retried, at, outages, sent, failed, cut>>

\* If Redis refuses the task that is logged.
Enqueue(m) ==
    /\ mail[m] = "asked"
    /\ Becomes(m, "queued") \/ Becomes(m, "dropped")
    /\ UNCHANGED <<retried, at, outages, sent, failed, cut>>

ApiCrash ==
    /\ outages < MaxOutages /\ outages' = outages + 1
    /\ mail' = [m \in Mails |-> IF mail[m] = "asked" THEN "dropped" ELSE mail[m]]
    /\ UNCHANGED <<retried, at, sent, failed, cut>>

-----------------------------------------------------------------------------
(* The worker.                                                             *)

Deliver(m) ==
    /\ mail[m] = "queued"
    /\ Becomes(m, "active")
    /\ at' = [at EXCEPT ![Current(m)] = 1]
    /\ UNCHANGED <<retried, outages, sent, failed, cut>>

\* Mutant: the option MaxRetry is not passed, or zero.
ArchiveAtOnce(m) == Becomes(m, "archived") /\ UNCHANGED retried

\* Mutant: the handlers of the worker drop the error.
ErrorDropped(m) == Becomes(m, "completed") /\ UNCHANGED retried

\* asynq's answer to a run that did not succeed.
RetryOrArchive(m) ==
    \/ /\ retried[m] < MaxRetry
       /\ retried' = [retried EXCEPT ![m] = @ + 1]
       /\ Becomes(m, "queued")
    \/ /\ retried[m] >= MaxRetry
       /\ Becomes(m, "archived")
       /\ UNCHANGED retried

\* Mutant: the next provider is tried all the same.
AfterSuccessNext(r) == at[r] + 1

\* The first success ends a run.
AfterSuccess(r) == Providers + 1

\* The provider takes the mail; if that was the end, asynq learns of it unless
\* it no longer listens.
Succeeds(r) ==
    /\ Running(r)
    /\ sent' = sent \cup {<<r, at[r]>>}
    /\ at' = [at EXCEPT ![r] = AfterSuccess(r)]
    /\ IF at'[r] > Providers /\ r \notin cut THEN Becomes(r[1], "completed") ELSE UNCHANGED mail
    /\ UNCHANGED <<retried, outages, failed, cut>>

\* Mutant: the first error ends a run.
AfterErrorOver(r) == Providers + 1

\* The next provider, if there is one.
AfterError(r) == at[r] + 1

\* An error, the mail taken or not: the answer of a provider may be lost.
Errs(r) ==
    /\ Running(r)
    /\ failed' = failed \cup {<<r, at[r]>>}
    /\ sent' \in {sent, sent \cup {<<r, at[r]>>}}
    /\ at' = [at EXCEPT ![r] = AfterError(r)]
    /\ IF at'[r] > Providers /\ r \notin cut THEN RetryOrArchive(r[1]) ELSE UNCHANGED <<mail, retried>>
    /\ UNCHANGED <<outages, cut>>

\* Mutant: tasks without a timeout.
OverdueNever(m) == FALSE

Overdue(m) == mail[m] = "active"

\* The two minutes are over; the run goes on.
TimesOut(m) ==
    /\ Overdue(m)
    /\ cut' = cut \cup {Current(m)}
    /\ RetryOrArchive(m)
    /\ UNCHANGED <<at, outages, sent, failed>>

\* The runs die with the process; asynq recovers its tasks.
WorkerCrash ==
    /\ outages < MaxOutages /\ outages' = outages + 1
    /\ cut' = cut \cup {r \in Runs : Running(r)}
    /\ at' = [r \in Runs |-> IF Running(r) THEN Providers + 1 ELSE at[r]]
    /\ mail' = [m \in Mails |->
                   IF mail[m] # "active" THEN mail[m]
                   ELSE IF retried[m] < MaxRetry THEN "queued" ELSE "archived"]
    /\ retried' = [m \in Mails |->
                      IF mail[m] = "active" /\ retried[m] < MaxRetry THEN retried[m] + 1
                                                                     ELSE retried[m]]
    /\ UNCHANGED <<sent, failed>>

Next ==
    \/ \E m \in Mails : Ask(m) \/ Enqueue(m) \/ Deliver(m) \/ TimesOut(m)
    \/ \E r \in Runs : Succeeds(r) \/ Errs(r)
    \/ ApiCrash \/ WorkerCrash

Spec == Init /\ [][Next]_vars

\* The goroutine goes on, a worker takes the tasks of the queue and the clock of
\* their timeouts runs.  Nothing is said of the providers, which may never answer.
Fairness == \A m \in Mails : WF_vars(Enqueue(m)) /\ WF_vars(Deliver(m)) /\ WF_vars(TimesOut(m))

FairSpec == Spec /\ Fairness

-----------------------------------------------------------------------------
(* Properties.                                                             *)

TypeOK ==
    /\ mail \in [Mails -> MailState]
    /\ retried \in [Mails -> 0..MaxRetry]
    /\ at \in [Runs -> 0..Providers + 1]
    /\ outages \in 0..MaxOutages
    /\ sent \subseteq Attempts /\ failed \subseteq Attempts
    /\ cut \subseteq Runs

InDoubt(x) == x \in failed \/ x[1] \in cut

\* Of two copies of a mail one at least was sent in doubt: its provider took it
\* and reported an error, or asynq had given up the run, or its worker died.
\* (FallbackMailer.try stops at the first success; asynq does not retry what
\* succeeded.)
DuplicatesInDoubt ==
    \A x, y \in sent : x # y /\ x[1][1] = y[1][1] => InDoubt(x) \/ InDoubt(y)

\* A mail asynq counts as done was taken by a provider that said so.
\* (FallbackMailer.try, the handlers of the worker.)
CompletedIsSent ==
    \A m \in Mails : mail[m] = "completed" =>
        \E p \in 1..Providers : <<Current(m), p>> \in sent \ failed

\* A mail is given up only after every run it was granted has had an error of
\* every provider, or was cut short.  (FallbackMailer.try, MaxRetry.)
GivenUpTried ==
    \A m \in Mails : mail[m] = "archived" =>
        \A k \in 0..MaxRetry :
            <<m, k>> \in cut \/ \A p \in 1..Providers : <<<<m, k>>, p>> \in failed

\* A run that began is one asynq granted; the only one it listens to is the
\* latest of an active mail.
RunInOrder(m, k) ==
    /\ at[<<m, k>>] # 0 => k <= retried[m]
    /\ <<m, k>> \in cut => at[<<m, k>>] # 0 /\ (k < retried[m] \/ mail[m] = "archived")
    /\ k = retried[m] =>
          (at[<<m, k>>] = 0 <=> mail[m] \in {"none", "asked", "dropped", "queued"})
    /\ k = retried[m] /\ mail[m] = "active" => Running(<<m, k>>)
    /\ Running(<<m, k>>) /\ <<m, k>> \notin cut => k = retried[m] /\ mail[m] = "active"

RunsInOrder == \A m \in Mails, k \in 0..MaxRetry : RunInOrder(m, k)

\* A run goes from one provider to the next on an error and ends with a success.
AttemptsInOrder ==
    /\ \A x \in sent \cup failed : x[2] < at[x[1]]
    /\ \A r \in Runs, p \in 1..Providers :
          Running(r) /\ p < at[r] => <<r, p>> \in failed
    /\ \A x \in sent \ failed : at[x[1]] = Providers + 1
    /\ \A x, y \in sent \ failed : x[1] = y[1] => x = y
    /\ \A x \in sent \ failed : x[1] \notin cut =>
          mail[x[1][1]] = "completed" /\ x[1] = Current(x[1][1])

\* Whatever run asynq has put behind it came to nothing.
Tried ==
    \A m \in Mails :
        /\ mail[m] = "archived" => retried[m] = MaxRetry
        /\ \A k \in 0..MaxRetry :
              k < retried[m] \/ (k = retried[m] /\ mail[m] = "archived") =>
                  <<m, k>> \in cut \/ \A p \in 1..Providers : <<<<m, k>>, p>> \in failed

\* The inductive invariant.  DuplicatesInDoubt follows from AttemptsInOrder,
\* GivenUpTried from Tried.
IInv == TypeOK /\ RunsInOrder /\ AttemptsInOrder /\ Tried /\ CompletedIsSent

-----------------------------------------------------------------------------
(* Refinement and liveness.                                                *)

\* A mail as the queue's callers see it.
Task(m) ==
    CASE mail[m] \in {"none", "asked"} -> "none"
      [] mail[m] = "dropped"           -> "refused"
      [] mail[m] = "queued"            -> "waiting"
      [] mail[m] = "active"            -> "running"
      [] mail[m] = "completed"         -> "done"
      [] mail[m] = "archived"          -> "archived"

\* The runs of it asynq has begun.
Tries(m) == IF mail[m] \in {"active", "completed", "archived"} THEN retried[m] + 1
                                                               ELSE retried[m]

Queue == INSTANCE Delivery WITH
    Tasks    <- Mails,
    MaxRetry <- MaxRetry,
    state    <- [m \in Mails |-> Task(m)],
    tries    <- [m \in Mails |-> Tries(m)],
    own      <- [m \in Mails |-> "none"]     \* nobody sends a mail but the queue

\* Through errors, timeouts, crashes and runs that outlive them a mail gets the
\* runs it was granted, no more, and none after it is done; it is given up only
\* after the last of them.  (enqueue, the handlers of the worker.)
ImplementsDelivery == Queue!Spec

\* What is on the queue is sent or given up in the end, whatever the providers
\* do.  (MaxRetry, Timeout.)
MailSettles == Queue!Settles
===============================================================================
