# Verification of proctura-backend

proctura-backend is the server of an online programming exam: schools and
their admins, lecturers and students; timed exams a student sits in a browser
that reports violations; answers that are run by Judge0 and graded
automatically.  Two Go processes share a Postgres database and a Redis queue:

* the **API** (`src/cmd/main.go`, Gin and GORM): every request is a goroutine,
* the **worker** (`src/cmd/worker/main.go`, asynq): grading tasks, mail tasks
  and a scheduled sweep over expired exams.

Almost all of the difficulty has one cause.  No request handler uses a
transaction: each GORM call commits on its own, so whatever a handler read may
be stale when it writes, and a process may die between any two statements.  The
modules here model the handlers **statement by statement**: one action per
statement that changes something or decides something, with the local variables
a handler carries between them (`pc`, what it has read) as state.

## 1. Inventory

| Part | State | Operations | Hard behaviour | What makes it correct |
|---|---|---|---|---|
| Submission lifecycle (`internal/submission`) | `status`, `violation_count`, `auto_submitted` of a submission | StartExam, Submit, LogViolation, SweepExpired, dispatchGrading | reads before unguarded UPDATEs; overlapping sweeps; crash between closing and dispatching | a closed exam never reopens; each is swept once; what is closed gets graded; an open exam is not graded |
| Grading and override (`internal/submission`) | `score`, `total_score`, status `graded` | GradeSubmission, runAgainstTestCases, OverrideAnswerScore | runs that overlap by retry, timeout, duplicate dispatch; overrides and edits of the exam in the middle; ignored errors | scores in range; grading again repairs every score; the total is the sum; nobody above full marks |
| Exam session (`internal/exam`, `submission`) | exam status and minutes, enrolment, attempts, answer rows | UpdateExam, UpdateExamStatus, StartExam, SaveAnswer | look-then-insert; deadline checked before the write | one attempt; one row per answer; acknowledged text kept and graded |
| Courses, exams, enrolment (`internal/course`, `exam`, `user`) | rows of courses, exams, students, enrolments, attempts | Create and Delete of each, Enroll, Unenroll, StartExam | a list worked through number by number while rows come and go; FirstOrCreate; keys that refuse a statement in the middle | no number on the list is skipped because of another; attempts stay within a school |
| School admins (`internal/user`) | `users` rows of a school's admins | InviteAdmin, Update, Delete, BulkUpdateActive | count-then-write | never more than two, never none |
| Accounts (`internal/auth`, `tenant`, `user`) | `users`, `tenants`, invitation and reset tokens, JWTs | Create (school), invitations, import, register, accept, forgot, reset, change password, login | two inserts that belong together; tokens read, then cleared | placeholder passwords open nothing; a link works once |
| Rate limiter (`internal/middleware/ratelimit.go`) | map of token buckets | Load, LoadOrStore, Reserve, Delay, Cancel | racing first requests; reservations given back out of order | a bucket per address; burst and rate kept |
| Mail (`internal/mailer`, `internal/queue`) | asynq tasks | enqueue, fallback chain, retry | providers that take a mail and then err or hang; timeouts that leave a run going | no needless copy; no silent loss |
| Task queue (`internal/queue`, asynq) | tasks in Redis | enqueue, deliver, retry, archive, recover | at-least-once delivery | what it promises is Delivery, which Submission and Mail implement |
| Authentication, tenant middleware | none | look-ups | stale within a request | guards in Accounts |
| Questions and test cases (`internal/exam`) | questions, test cases, `max_score` | Add, Update, Delete | edited while answers are graded and overridden | part of Grading: a score belongs to points the question had |
| RunCode, recordings and storage, dashboards and analytics, routing, configuration, migrations | none, or one column | | | not modelled (section 8) |

Interactions: the API and the worker meet in the submissions table and in Redis.
A sweep is an asynq task of the worker that closes rows the API writes at the
same time; both dispatch grading, through Redis and, if Enqueue returns an error,
in a goroutine of their own: instead of the task if Redis does not have it, besides
it if only the reply was lost.  A grading task runs in the
worker while lecturers override scores through the API.  Requests that make
accounts ask for mails, which the API enqueues and the worker sends.

`PROJECT.json` lists the hazards of the code, each at its line, with the
properties that watch it.

## 2. Modules

    Lifecycle    what an attempt looks like from outside
    Delivery     what the task queue promises of a task
      ^ Lifecycle and Delivery refined by Submission, Delivery by Mail
    Submission   <- MCSubmission,  SubmissionProofs
    Grading      <- MCGrading,     GradingProofs
    ExamSession  <- MCExamSession, ExamSessionProofs
    Enrolment    <- MCEnrolment,   EnrolmentProofs
    Admins       <- MCAdmins,      AdminsProofs
    Accounts     <- MCAccounts,    AccountsProofs
    RateLimit    <- MCRateLimit,   RateLimitProofs
    Mail         <- MCMail,        MailProofs

An MC module gives the constants their values and the symmetry; a Proofs module
holds theorems.  The components were ordered by what would hurt most: losing or
doubling a grading first, then wrong scores, then lost answers, then accounts.
The seam between Submission, ExamSession and Grading is narrow and explicit:
ExamSession's `Close` and `Mark` stand for "somebody closes the row" and "a
grading run reads the answers", whose authors Submission models; Grading takes a
closed row and any number of runs, which is what Submission shows to be possible;
Enrolment lets an exam be active at any time, ExamSession lets a student be
enrolled at any time.
They are not composed by INSTANCE: the product of their interleavings is far
beyond TLC, and what each needs of the other is the two facts just named, which
are `OpenUnclaimed` and the refinement of Lifecycle.

**Submission.**  `status`, `violations`, `auto` are columns; `expired` stands for
"`started_at + duration_minutes < now()`", computed on every read, so that it
can be undone when the lecturer gives more minutes (`Extend`).  `pc`, `cur`,
`seen`, `todo` are the locals of handlers: SubmitRead / SubmitWrite,
ViolationRead / ViolationWrite, SweepFind / SweepUpdate and Dispatch are the
statements of `Submit`, `LogViolation`, `SweepExpired` and `dispatchGrading`.
`task` is what asynq knows of a grading, `inline` what became of the goroutine that
grades it; `stray` counts runs that asynq gave up after two minutes but that, as the
handler ignores its context, go on and write.  `Dispatch` has three outcomes
(`Handover`): the queue took the task; it did not, and the goroutine grades; it did,
but Enqueue returned an error all the same, and both grade.  The comment at
service.go:49 says "either via the queue ... or as a best-effort inline goroutine";
the third outcome is why nothing here promises that.  `ApiCrash` and `WorkerCrash`
forget the locals of one process; tasks it held are retried or archived, gradings it
had not dispatched are `unsent`, its inline gradings `lost`.  A crash counts a retry
of the tasks under way; asynq's orderly shutdown, which puts them back uncounted, is
not modelled: the bound on a task's runs is one on runs not put back like that.

**Grading.**  One submission, from the start of the exam on.  A run reads the
answers (`GradeStart`), then for each its test cases (`GradeTests`) and its
question (`GradeQuestion`), awards points and writes the score (`GradeAnswer`;
`SkipAnswer` where the code says `continue`), adding up in memory, and writes the
sum at the end (`GradeFinish`).  Judge0 may give any verdict, or none.  An override
checks against the points of the moment, writes the score, reads the SUM, writes
the total.  Meanwhile the lecturer adds, changes and deletes questions and test
cases, whatever the status of the exam; a foreign key keeps a question that has
answers.  `Questions` are those of all exams and `Asked` those of this one:
`SaveAnswer` takes an answer to any of them, GradeSubmission grades it and counts it,
and `max_score`, which StartExam summed up, knows only of `Asked`.  Failing statements are taken
the way the code takes them: the error of the score UPDATE and those of the SUMs
are dropped.

**ExamSession.**  The exam's row, the lecturer's two-statement edits and moves,
enrolment, StartExam in four statements, SaveAnswer in four, a clock.  Rows are
named by the request that inserted them, texts by the save that sent them.
Errors that the code takes for "no such row" (the look for an attempt, the
exam's duration in `isTimeExpired`) are `Fault`s.

**Enrolment.**  `row` says of each course, exam and student whether it is still to
come, here, or deleted; `enrolled` and `attempted` are the two relations over
them.  The schema's foreign keys have ON DELETE NO ACTION (the migration of
2026-04-17 dropped the cascades of the first one), so a DELETE with rows that
refer to its own fails: that is the guard of `DeleteCourse`, `DeleteExam` and
`DeleteStudent`.  A request to enrol goes through its list with `LookUp`, `Find`
and `Create`; the last two are the SELECT and the INSERT of FirstOrCreate, and an
INSERT that breaks the unique or a foreign key is passed over like every other
error.  Nothing makes a matriculation number unique: of several students the one
first by primary key is found.

**Delivery.**  The abstract queue: a task offered is taken or refused; one that is
taken is run, retried at most MaxRetry times, then done or archived, and never run
again after that.  Beside it the caller may run the task itself, once, from the offer
on (`own`), whatever the queue did with it.  Submission and Mail map their `task` to it
(`Queue`), Submission its `inline` to `own`, Mail, whose callers have no such fallback,
"none"; late runs that asynq has given up for are stuttering.
`RunsOut` says that whatever becomes of a task uses up some of what it can still go
through (`Left`).

**Admins.**  Each request counts in one statement and writes in a later one.

**Accounts.**  Rows, links and passwords are named by the request that made them.
`Look`, `InsertTenant`, `Insert` are the statements of `tenant.Create` and of the
five ways to make an account; an invitation or import by a school's own people names
any active school and acts in the account's (`Admits`); the others are read-then-write pairs of
AcceptInvite, ResetPassword, ForgotPassword and ChangePassword.  `aged` marks
links past the lifetime their mail announces.  bcrypt, JWT signatures and token
strings are names that match or do not.

**RateLimit.**  The bucket is that of `golang.org/x/time/rate`, in whole units of
time, as far as Reserve, Delay and Cancel of one token use it.

**Mail.**  A task's runs are numbered by retry; each talks to provider 1, then 2.
A provider may take the mail and answer, take it and err, refuse, or hang.

What is abstracted: names, texts, verdict details, HTTP parsing and formatting;
sizes of numbers except where a rule compares them (points, violations, time).
Bounds are always explicit: `MaxOutages`, `MaxFaults`, `MaxNow` limit crashes (in
Submission also failed sweeps and enqueues), failing statements and the clock;
`MaxAnswers` the answers of a submission; `MaxRetry` and `ViolationLimit` are the code's
own limits (3 and 3), smaller in some configurations.

## 3. What the runs check

Passing runs, with the properties they check:

| Run | Instance | Shows |
|---|---|---|
| `submission_race` | 1 row, 2 requests, 2 sweeps, limit 3, 1 retry, 1 crash, failed sweep or failed enqueue (569,510 states) | `HandlerDispatchesOnce`, `SubmittedHasGrader`, `OpenUnclaimed`, `SweptByOne`, `OpenBelowLimit`, the inductive `IInv`; and the refinements `ImplementsLifecycle` and `ImplementsDelivery` |
| `submission_live` | 1 row, 1 request, 1 sweep, limit 2, 1 retry, 3 crashes, failed sweeps or failed enqueues, fair (66,778 states) | `ExpiredCloses`: an expired exam is closed, unless its time is extended; `GradingSettles`: a submitted exam ends up graded for good, after the last duplicate and late run, unless a grading was given up |
| `grading_race` | up to 2 of 3 answers: to a question of 1 point, to one of 0 points and to one of another exam; a third question of the exam that may come; points changed to 2 or -1; 2 runs, 1 override, 1 edit, 1 fault (1,184,118 states) | `ScoreInRange`; `RegradeIsCurrent`: grading alone leaves scores as the current test cases and points make them; `TotalIsSumAlone`; `FullMarksAtMost`: the four ways to more than full marks are all there are; `IInv` |
| `exam_session` | 2 starts of a student, 2 saves of a question, 1 lecturer request, 1 fault, time 0..1 | `AttemptsOverlap`, `AnswersOverlap`, `SavedKept`, `SavedIsGraded`, `IInv` |
| `enrolment_race` | 2 requests to enrol in one course, lists `<<m, n>>` and `<<n>>`, students of 2 schools, an exam of each school, 1 fault | `Promised`: a request that ends unhurt has enrolled a student for every number that had one; `AttemptInSchool`; `IInv` |
| `admins_turns` | 4 admins, 2 requests, cap 2 | `AdminRemainsInTurn`, `CappedInTurn`, `IInv` |
| `accounts_onboard` | 2 schools founded for one address, an import of it | `OrphanOverlaps` |
| `accounts_entry` | an invited admin, 1 reset, 2 uses of links, 1 password change | `LinkUsedOnce`, `NoTemporaryEntry`, `IInv` |
| `rate_burst` | 3 requests of one address, 1 of another, burst 1, time 0..3, a token every 2 | `OneBucket`; `AdmittedBounded`: no more than burst and rate allow; `NoNeedlessRefusal`: requests in turn are refused only if the rate demands it; `RetryOnceDue`: who was refused in time is let through once its token would have been there |
| `mail` | 2 mails, 2 providers, 1 retry, 1 crash, fair | `DuplicatesInDoubt`, `CompletedIsSent`, `GivenUpTried`, `IInv`, the refinement `ImplementsDelivery`, and `MailSettles`, which is Delivery's promise that what was taken is done or archived in the end |

Many of these say "only by overlapping requests".  That is deliberate: the code
does not keep the plain rule, as the runs below show, and the weaker one is what
it does promise.  It still rules out every sequential mistake and says exactly
which interleaving is to blame.

**Why the bounds are enough.**  A defect of these components takes two handlers
that overlap, at most with a third that makes the state they disagree on.  So
the instances have two of each kind of actor that can race, one fault or crash
placed anywhere, and one retry so that a first run and its repetition coexist.
The only place where two rows meet in Submission is the list a sweep works
through (`todo`): the theorems hold for any number of rows, and
`SubmissionSweep.cfg`, run by hand, passes with two rows under two overlapping
sweeps that may fail or die in the middle of their lists.  `exam_session` needs
both saves for one question to make duplicate rows; that a save never touches
another attempt's answer is exercised by its two attempts.  `submission_live`
has one request only, so that three outages fit: an enqueue whose reply is lost, a
crash that takes the goroutine and one that costs the task its last retry; the instance
with two requests and one outage passes as well (403,530 states, tried once).  The
violation limit is the real 3 in `submission_race`, so that two stale counts can lie below it.
Points of 1 with 2 tests make the division round; `GradingJudge` and
`GradingOverride` have other tests.  `enrolment_race` has two requests and no two
students of one number in a school; `EnrolmentNumber.cfg`, run by hand, passes with
one request and two such students, so that the one found may be deleted before
the INSERT although the other would have done.  `rate_burst` has three requests of one
address, so that one can be promised a token behind a refused one that gives its own
back; the inductive invariant of RateLimit, dear to evaluate, is checked on the same
instance by `RateLimitInv.cfg`, run by hand (it passes, 1.67 million states).

**Fairness.**  `submission_live` assumes: a request that has begun is finished,
or dies in a crash; a sweep is started again and again (the scheduler, main.go
55-67) and its statements are executed; asynq delivers queued tasks; a run under
way ends, in success, error or timeout.  Nothing is assumed of students (they need
never submit) and nothing of outages.  asynq's retry, timeout and recovery
justify the last two; goroutine scheduling the first.  `mail` assumes only that
the request's goroutine goes on, that queued tasks are delivered and that the
timeout's clock runs: a provider may never answer.

Deadlock is checked where the model can always go on; in Accounts, Enrolment,
RateLimit and Mail every request happens once, so those really stop.

## 4. Where the code does not do what its texts say

Two runs expect a violation; their findings are in `PROJECT.json`:

| Run | Text | Counterexample |
|---|---|---|
| `submission_double` | service.go:211 "grading is not dispatched twice" | Submit reads the row, the sweep closes and dispatches it, Submit's UPDATE (line 167, no status guard) succeeds all the same and dispatches it again |
| `grading_override` | README:203 "`total_score` ... is recalculated automatically after each override" | a grading run scored the answer before the override and writes its own sum after it |

The other disagreements met while modelling are stated as properties at the end
of each module.  The following configurations, run by hand
(`tlc -config X.cfg MC...`), each give a counterexample:

| Configuration | Property | Text and what happens |
|---|---|---|
| `SubmissionViolations` | `ViolationIncrements` | service.go:533 "LogViolation increments the violation count": two reports that read the same count increment it once |
| `SubmissionCrash` | `SubmittedGetsGraded` | README:195 "status changes from `submitted` -> `graded`": a crash between the UPDATE and the dispatch leaves the row submitted; no sweep selects it again |
| `GradingJudge` | `GradedMeansJudged` | README:192 "All test cases are run against the submitted code": a test that Judge0 refuses or does not finish counts as failed and the row becomes graded |
| `ExamSessionTwice` | `OneAttempt` | sweep_test.go:170 "StartExam allows only one per student per exam": two starts both look, then both insert |
| `ExamSessionEdits` | `EditsOnlyDrafts` | README:138 "Update exam (draft only)": the edit checked, then another request moved the exam on |
| `ExamSessionLate` | `NoWritePastDeadline` | service.go:188 "SaveAnswer refuses writes past it": the deadline passes between check and write |
| `AdminsLast` | `AdminRemains` | user/service.go:267 "Blocks deactivating the last active school_admin": two requests each deactivate one of two admins; both counted first |
| `AdminsCap` | `Capped` | user/service.go:37 "capped at 2 active admins per tenant": two invitations both counted one |
| `AccountsOrphan` | `SchoolHasAdmin` | tenant/service.go:38 "creates its first school_admin user": the second INSERT fails, the first stays |
| `AccountsVerify` | `CanBeVerified` | auth/handler.go:104 "check your email to verify your account": no such mail, and nothing verifies the account |
| `AccountsExpiry` | `InviteExpires` | invite.html:18 "This link expires in 7 days": invitations have no expiry |
| `AccountsNewLink` | `NewLinkWorks` | reset_password.html:18 "This link expires in 1 hour": a reset that read the row with an earlier link clears the new one |
| `AccountsChange` | `ReplacesVerified` | user/service.go:423 "verifies the current password": a reset in between is overwritten |
| `RateLimitRetry` | `RetryAfterWorks` | ratelimit.go:45 "The client can retry after Retry-After": the delay is rounded down as often as up |

## 5. What is proved

The Proofs modules are checked by TLAPS; the theorems hold for every value of the
constants that satisfies the module's one named assumption (disjoint sets of
names, positive limits), in particular for any number of rows, requests, sweeps
and retries.

Each follows the same plan: `Init => IInv`, `IInv /\ [Next]_vars => IInv'` with one
lemma or step per action, and the properties read off `IInv`.

* **Submission** (`Invariance`, `DispatchesOnce`,
  `NothingForgotten`, `NoEarlyGrading`, `SweptOnce`, `LimitCloses`,
  `Refinement`, `GradingIsDelivered`, `GradingRunsOut`).  None of the invariants is inductive alone.  That a handler
  dispatches once needs that a client about to write has not claimed the row
  it read (`UnclaimedByReader`); that an open row is not graded needs that every
  stray run belongs to a dispatched task (`StrayDispatched`), and that the row a
  claim belongs to never reopens.  `SweptOnce` rests on the sweep's guarded
  UPDATE: whoever changes the row from in_progress is alone in doing so.  The
  lemmas are about claims: which actions keep them (`ClaimKept`), which makes one
  (`ClaimNew`), and the same for gradings owed.
  `Refinement` shows every step of Submission to be a step of Lifecycle or a
  stutter; it uses `OpenUnclaimed` for grading steps and `UnclaimedByReader` for
  late writes.  `GradingIsDelivered` does the same for Delivery, task by task: only
  crashes move several at once, and the hand-over and a crash are the only steps that
  move a task and its goroutine together.  `GradingRunsOut` is the part of `GradingSettles` that
  needs no fairness: a task changes at most 2 * `MaxRetry` + 5 times, so nothing
  sends it round for ever.
* **Grading** (`GradingInvariant`, `ScoresStayInRange`, `RegradingIsIdempotent`,
  `FullMarks`, `TotalIsRight`, `NoMoreThanFullMarks`).  `ScoreInRange` is about points
  a question had at some time, so
  the invariant says the same of what a run has read and an override has checked
  but not yet written (`HeldInRange`).  `RegradeIsCurrent` is about the end of a
  run that had the exam to itself; inductive is `FreshRun`: what it has read is
  current, and every answer it has left behind has an attainable score.  That
  needs a run's answers to exist (`AnswersExist`).  `FullMarks` is about the
  integer division: full points exactly when all tests passed.

  The two about totals need more.  For `TotalIsRight`, a run that is alone has added
  up the scores of exactly the answers it has left behind, and an override has read
  the sum of what is there (`SumsAlone`); a run that met a failing statement or
  another writer is no longer alone.  For `NoMoreThanFullMarks` the total itself is of
  no use, since it may mix scores of several runs; what holds through every race is
  that whatever is summed up, in a run's memory, by an override's SUM or in the row, is
  at most what the answers it counts were worth when the student began (`WasWorth`,
  `SumsWithin`), while `max_score` is the sum of those worths or zero
  (`MaxScoreFixed`).  Both sums meet only if every answer counted is to a question
  `max_score` counts, hence the premise `OnlyAsked`.

  Both rest on lemmas about sums over finite sets (`SumEmpty`, `SumTakes`,
  `SumIsMonotone`, `SumGrows`, `SumOfInjected`, ...).  The library's induction cannot be
  used, so each is proved by a smallest counterexample: of the subsets for which
  it fails one contains no other (`Smallest`), and taking the member the sum begins
  with off it (`Pick`) contradicts that.  `FoldsAgree` and `FoldExists` show so that the sum is a
  function defined by its own recursion.
* **ExamSession** (`Invariance`, `NoSecondAttempt`,
  `NoSecondRow`, `NothingLost`, `NothingUngraded`).  The invariant remembers what a
  look showed: a request that found no row comes after none (`LookedBefore`,
  `InsertsFirst`), and rows hold texts of saves for their own question that were
  carried out (`RowsMatch`).
* **Enrolment** (`EnrolmentInvariant`, `AttemptsStayInSchool`,
  `EnrollKeepsItsPromise`).  Rows only age, so what a request read, and the
  snapshot it began with, stays true of the past (`RowsAge`, `FoundHolds`); that is
  why a key that breaks under an INSERT means either that the enrolment is there
  or that the student found has been deleted (`PassedIsKept`).  `KeptSoFar` carries
  it along the list.  `AttemptInSchool` does not look at how an exam was made: it
  follows from enrolments staying in a school (`EnrolledInSchool`) and from a start
  having seen one (`StartsEnrolled`).
* **Admins** (`Invariance`, `AdminRemainsTheorem`, `CappedTheorem`).  What was
  counted still holds at the write when no two requests overlap (`CountsHold`).
* **Accounts** (`Invariance`, `OwnersOnly`, `OneUseEach`, `LatestLink`,
  `SchoolsHaveAdmins`).  The core is `LinksSpent`: the link a finished request used
  is gone from its account, hence cannot be read by a later one.  `OwnersOnly`
  needs `is_verified` to imply a password of one's own.
* **RateLimit** (`Invariance`, `OneBucketEach`, `RateKept`, `RefusedOnlyIfDue`,
  `AskingCostsNothing`).  Whoever is let through had been promised a token by now, so
  `RateKept` is read off `PromisesBounded`: what those who reserved since t are promised
  by now, *or by any promise still to come*, is within the rate.  Cancel makes that
  hard, since a bucket gets back what a request no longer needs while others hold
  promises behind it.  The invariant therefore says that promises to come lie a
  token's time apart, later reservations behind earlier ones (`Queued`); that what
  is held since t beyond a full bucket the bucket owes (`HeldIsOwed`); and the key
  lemma, `CancelGivesBack`, that a restored token, or part of one, is one that nobody
  behind has been promised.  `RefusedOnlyIfDue` needs the converse, true only while
  the requests of an address take turns (`Orderly`): a bucket owes nothing but what
  is held (`OwedIsHeld`), so there is a time since which the bucket was used to the full.
  `AskingCostsNothing` is about one request whose address sends no other: as long as it
  holds its promise its bucket owes just that, and once it has given it back a
  token's time less (`Refunded`), so that the next one, when it comes, finds it there
  (`Retried`).  All hold for any burst, rate and clock, for requests that are paused
  anywhere between their statements.
* **Mail** (`Invariance`, `NoSecondCopy`, `DoneIsSent`, `NothingGivenUp`,
  `MailIsDelivered`, `MailRunsOut`).  Runs are
  in order (at most one is listened to), attempts within a run are in order
  (one ends with the first success), and what asynq has put behind it came to
  nothing.

## 6. Only model-checked

Liveness: `ExpiredCloses`, `GradingSettles`, `MailSettles`.  Fairness and ENABLED are
beyond the prover.  What can be proved of the last two without fairness is:
`GradingRunsOut` and `MailRunsOut`.  Every other property of a passing run is a
theorem.

Proving and reading changed two properties.  `FullMarksAtMost` had claimed too much: it is false
if a question is worth less than nothing when the student begins, which `AddQuestion`
refuses (handler.go:255) but `UpdateQuestion` lets through (handler.go:278).  With
questions of 2 and -1 points `max_score` is 1, and a student whose second answer
earns nothing gets 200 percent.  The property now has the premise `NoneNegative`,
and TLC's instance, whose points all began at 1, had never met the case.  Nor does it
hold of a submission with an answer to another exam's question (`OnlyAsked`), which
SaveAnswer takes (service.go:111-134): with that premise dropped, `grading_race` has a
total of 2 for a `max_score` of 1.
And the rate limiter's promise to a refused request, which `NoNeedlessRefusal` makes
only in terms of what was admitted, is now stated for the request itself
(`RetryOnceDue`): the promise the code does keep, where the one of its comment
(`RetryAfterWorks`, section 4) fails by rounding.

## 7. Plan

Done, in this order: Lifecycle and Submission with their refinement; Grading;
ExamSession; Admins; Accounts; RateLimit; Mail; theorems about each; then Grading
again, with the edits of questions and test cases, duplicate answers and
`max_score`; Delivery and its two refinements; the foreign keys in Accounts;
Enrolment; the proofs about sums in Grading and about rates in RateLimit.

Next:

1. An abstract specification of a **score sheet** that Grading implements as long
   as gradings and overrides take turns, and the proof that it does.
2. Proofs across modules: that an exam's attempts are of students once enrolled,
   from Enrolment and ExamSession.
3. **Admins** with `is_verified`: the last active admin may be one who never
   accepted the invitation.
4. **Login by matriculation number**, which looks at no school, in Accounts.

## 8. Not modelled

* `RunCode`, dashboards and analytics, lists: they write nothing.  (The average of
  an exam's analytics leaves out rows with `max_score` 0, that of the dashboards
  counts them as 0%; no text says which is meant.)
* Recordings and storage: a signed upload token; one UPDATE of `recording_url`.
* The title and code of a course, `starts_at` and `ends_at` of an exam, names in a
  profile: stored and shown, never looked at by a rule.
* Login by matriculation number: the account found depends on the order of
  primary keys among students of all schools.
* Judge0, the mail providers, asynq's internals and `x/time/rate` are external:
  modelled by what the code sees of them.
* HTTP parsing, CORS, role tables, response formatting, configuration, migrations:
  wiring.  The unique and foreign keys of the schema are in the guards.
* JWT expiry: a token works as long as the account and school are active, which
  is the case that matters for `NoTemporaryEntry`.
* Restarting the rate limiter with its process, and its map that only grows.
