----------------------------- MODULE ExamSession -----------------------------
(***************************************************************************)
(* Sitting one exam: the lecturer's status and duration edits, enrolment,  *)
(* StartExam, SaveAnswer, and the grading's reading of the answers         *)
(* (internal/exam, internal/course, internal/submission/service.go).       *)
(*                                                                         *)
(* Each request is a list of separate statements, none of which holds what *)
(* the one before it has checked: no unique index backs "one attempt per   *)
(* student" or "one answer per question".  A request is modelled from its  *)
(* first read on (one refused there has no effect), and `before` remembers *)
(* which requests were over by then.                                       *)
(***************************************************************************)
EXTENDS Integers

CONSTANTS
    Students,
    Starts,      \* requests POST /exams/:id/start; one names the row it inserts
    Owner,       \* Owner[r]: the student who sends r
    Saves,       \* requests PUT /submissions/:id/answer; likewise
    Question,    \* Question[s]: the question s answers
    Edits,       \* lecturer request goroutines: PUT /exams/:id and its status
    Durations,   \* minutes an exam may be given
    MaxNow,      \* bound on the clock
    MaxFaults,   \* bound on failed reads that the code takes for a "no"
    NoSave,
    NoStart

Requests == Starts \cup Saves

ASSUME ExamSessionAssumption ==
    /\ Owner \in [Starts -> Students]
    /\ Durations \subseteq Int
    /\ Saves = DOMAIN Question
    /\ MaxNow \in Nat /\ MaxFaults \in Nat
    /\ NoSave \notin Saves /\ NoStart \notin Starts
    /\ Starts \cap Saves = {}

VARIABLES
    examStatus,  \* exams.status
    minutes,     \* exams.duration_minutes
    enrolled,    \* the students with a course_enrollments row
    now,
    attempt,     \* submissions: status by the start that inserted the row
    startedAt,   \* submissions.started_at
    pc,          \* where each request is,
    target,      \*   the attempt a save is for,
    found,       \*   the answer row it read
    code,        \* submission_answers.code: code[s] is the save whose text the
                 \* row inserted by s holds, NoSave if there is no such row
    edit,        \* where each lecturer request is,
    chosen,      \*   the status it will write
    marked,      \* the saves whose text the last grading of an attempt read
    faults,
    before,      \* history: the requests over when this one began,
    blind,       \*   the starts whose look for an attempt failed,
    known        \*   the saves acknowledged when the attempt was closed

exam     == <<examStatus, minutes, enrolled, now>>
attempts == <<attempt, startedAt, marked, known>>
request  == <<pc, target, found, before, blind>>
vars     == <<exam, attempts, request, code, edit, chosen, faults>>

\* Any string can be written to exams.status; all but four are alike.
ExamStatus == {"draft", "scheduled", "active", "closed", "other"}

Init ==
    /\ examStatus = "draft"
    /\ minutes \in Durations
    /\ enrolled \in SUBSET Students
    /\ now = 0
    /\ attempt   = [r \in Starts |-> "none"]
    /\ startedAt = [r \in Starts |-> 0]
    /\ pc        = [r \in Requests |-> "idle"]
    /\ target    = [s \in Saves |-> NoStart]
    /\ found     = [s \in Saves |-> NoSave]
    /\ code      = [s \in Saves |-> NoSave]
    /\ edit      = [e \in Edits |-> "idle"]
    /\ chosen    = [e \in Edits |-> "draft"]
    /\ marked    = [r \in Starts |-> {}]
    /\ faults    = 0
    /\ before    = [r \in Requests |-> {}]
    /\ blind     = {}
    /\ known     = [r \in Starts |-> {}]

Exists(r) == attempt[r] # "none"
Row(s)    == code[s] # NoSave

\* The request has been answered.
Over(r) == pc[r] \in {"created", "saved", "refused"}

\* The request begins: its first read went well.
Begins(r, at) ==
    /\ pc[r] = "idle"
    /\ pc'     = [pc     EXCEPT ![r] = at]
    /\ before' = [before EXCEPT ![r] = {x \in Requests : Over(x)}]

GoesOn(r, from, to) == pc[r] = from /\ pc' = [pc EXCEPT ![r] = to]

\* A read fails, and the code does not tell that from "no such row".
Fault == faults < MaxFaults /\ faults' = faults + 1

\* A check or a statement fails, or the process dies.
Refuse(r) ==
    /\ ~Over(r) /\ pc[r] # "idle"
    /\ pc' = [pc EXCEPT ![r] = "refused"]
    /\ UNCHANGED <<exam, attempts, target, found, before, blind,
                   code, edit, chosen, faults>>

-----------------------------------------------------------------------------
(* The lecturer.                                                           *)

validTransitions ==
    [draft |-> "scheduled", scheduled |-> "active", active |-> "closed", closed |-> "draft"]

EditRead(e) ==
    /\ edit[e] = "idle" /\ examStatus = "draft"
    /\ edit' = [edit EXCEPT ![e] = "edit"]
    /\ UNCHANGED <<exam, attempts, request, code, chosen, faults>>

\* PUT /exams/:id: the fields it names, status among them, any value.
EditWrite(e) ==
    /\ edit[e] = "edit"
    /\ edit' = [edit EXCEPT ![e] = "idle"]
    /\ minutes' \in Durations \cup {minutes}
    /\ examStatus' \in ExamStatus
    /\ UNCHANGED <<enrolled, now, attempts, request, code, chosen, faults>>

MoveRead(e) ==
    /\ edit[e] = "idle" /\ examStatus \in DOMAIN validTransitions
    /\ edit' = [edit EXCEPT ![e] = "move"]
    /\ chosen' = [chosen EXCEPT ![e] = validTransitions[examStatus]]
    /\ UNCHANGED <<exam, attempts, request, code, faults>>

MoveWrite(e) ==
    /\ edit[e] = "move"
    /\ edit' = [edit EXCEPT ![e] = "idle"]
    /\ chosen' = [chosen EXCEPT ![e] = "draft"]
    /\ examStatus' = chosen[e]
    /\ UNCHANGED <<minutes, enrolled, now, attempts, request, code, faults>>

Enroll(st) ==
    /\ enrolled' = enrolled \cup {st}
    /\ UNCHANGED <<examStatus, minutes, now, attempts, request, code, edit, chosen, faults>>

Unenroll(st) ==
    /\ enrolled' = enrolled \ {st}
    /\ UNCHANGED <<examStatus, minutes, now, attempts, request, code, edit, chosen, faults>>

Tick ==
    /\ now < MaxNow /\ now' = now + 1
    /\ UNCHANGED <<examStatus, minutes, enrolled, attempts, request, code, edit, chosen, faults>>

-----------------------------------------------------------------------------
(* StartExam.                                                              *)

\* started_at is the time before the first query, not that of the INSERT.
StartExam(r) ==
    /\ examStatus = "active"
    /\ Begins(r, "enrolment")
    /\ startedAt' = [startedAt EXCEPT ![r] = now]
    /\ UNCHANGED <<exam, attempt, marked, known, target, found, blind,
                   code, edit, chosen, faults>>

StartEnrolled(r) ==
    /\ Owner[r] \in enrolled
    /\ GoesOn(r, "enrolment", "existing")
    /\ UNCHANGED <<exam, attempts, target, found, before, blind,
                   code, edit, chosen, faults>>

\* Mutant: only an attempt still open counts.
NotStartedOpen(r) ==
    \A x \in Starts : attempt[x] = "in_progress" => Owner[x] # Owner[r]

\* The student has no attempt yet.
NotStarted(r) == \A x \in Starts : Exists(x) => Owner[x] # Owner[r]

\* Only finding a row stops it; an error of the query does not.
StartExisting(r) ==
    /\ GoesOn(r, "existing", "insert")
    /\ \/ NotStarted(r) /\ UNCHANGED <<blind, faults>>
       \/ Fault /\ blind' = blind \cup {r}
    /\ UNCHANGED <<exam, attempts, target, found, before, code, edit, chosen>>

StartInsert(r) ==
    /\ GoesOn(r, "insert", "created")
    /\ attempt' = [attempt EXCEPT ![r] = "in_progress"]
    /\ UNCHANGED <<exam, startedAt, marked, known, target, found, before, blind,
                   code, edit, chosen, faults>>

-----------------------------------------------------------------------------
(* SaveAnswer.                                                             *)

\* isTimeExpired, from the exam's duration of the moment.
Expired(r) == now > startedAt[r] + minutes

SaveAnswer(s, r) ==
    /\ attempt[r] = "in_progress"
    /\ Begins(s, "deadline")
    /\ target' = [target EXCEPT ![s] = r]
    /\ UNCHANGED <<exam, attempts, found, blind, code, edit, chosen, faults>>

\* "can't verify - don't block".
SaveInTime(s) ==
    /\ GoesOn(s, "deadline", "find")
    /\ \/ ~Expired(target[s]) /\ UNCHANGED faults
       \/ Fault
    /\ UNCHANGED <<exam, attempts, target, found, before, blind, code, edit, chosen>>

SameAnswer(s, x) == target[x] = target[s] /\ Question[x] = Question[s]

\* Mutant: the row is looked for by question only.
AnswerRowsOfQuestion(s) == {x \in Saves : Row(x) /\ Question[x] = Question[s]}

\* The rows First may return.
AnswerRows(s) == {x \in Saves : Row(x) /\ SameAnswer(s, x)}

SaveFind(s) ==
    /\ GoesOn(s, "find", "write")
    /\ \/ AnswerRows(s) = {} /\ UNCHANGED found
       \/ \E x \in AnswerRows(s) : found' = [found EXCEPT ![s] = x]
    /\ UNCHANGED <<exam, attempts, target, before, blind, code, edit, chosen, faults>>

\* Mutant: a second row is inserted.
WrittenRowNew(s) == s

\* INSERT, or UPDATE of the row that was found.
WrittenRow(s) == IF found[s] = NoSave THEN s ELSE found[s]

SaveWrite(s) ==
    /\ GoesOn(s, "write", "saved")
    /\ code' = [code EXCEPT ![WrittenRow(s)] = s]
    /\ UNCHANGED <<exam, attempts, target, found, before, blind,
                   edit, chosen, faults>>

-----------------------------------------------------------------------------
(* The attempt is closed and graded (Submission says by whom).             *)

Close(r) ==
    /\ attempt[r] = "in_progress"
    /\ attempt' = [attempt EXCEPT ![r] = "closed"]
    /\ known'   = [known   EXCEPT ![r] = {s \in Saves : pc[s] = "saved" /\ target[s] = r}]
    /\ UNCHANGED <<exam, startedAt, marked, request, code, edit, chosen, faults>>

\* What GradeSubmission's Find of the submission's answers reads.
Written(r) == {code[s] : s \in {x \in Saves : Row(x) /\ target[x] = r}}

Mark(r) ==
    /\ attempt[r] \in {"closed", "graded"}
    /\ attempt' = [attempt EXCEPT ![r] = "graded"]
    /\ marked'  = [marked  EXCEPT ![r] = Written(r)]
    /\ UNCHANGED <<exam, startedAt, known, request, code, edit, chosen, faults>>

-----------------------------------------------------------------------------
Lecturer(e) == EditRead(e) \/ EditWrite(e) \/ MoveRead(e) \/ MoveWrite(e)
Start(r)    == \/ StartExam(r) \/ StartEnrolled(r) \/ StartExisting(r) \/ StartInsert(r)
               \/ Refuse(r)
Save(s)     == \/ \E r \in Starts : SaveAnswer(s, r)
               \/ SaveInTime(s) \/ SaveFind(s) \/ SaveWrite(s)
               \/ Refuse(s)

Next ==
    \/ Tick
    \/ \E e \in Edits : Lecturer(e)
    \/ \E st \in Students : Enroll(st) \/ Unenroll(st)
    \/ \E r \in Starts : Start(r) \/ Close(r) \/ Mark(r)
    \/ \E s \in Saves : Save(s)

Spec == Init /\ [][Next]_vars

-----------------------------------------------------------------------------
TypeOK ==
    /\ examStatus \in ExamStatus
    /\ minutes \in Int
    /\ enrolled \in SUBSET Students
    /\ now \in 0..MaxNow
    /\ attempt   \in [Starts -> {"none", "in_progress", "closed", "graded"}]
    /\ startedAt \in [Starts -> 0..MaxNow]
    /\ pc \in [Requests -> {"idle", "enrolment", "existing", "insert", "created",
                            "deadline", "find", "write", "saved", "refused"}]
    /\ target \in [Saves -> Starts \cup {NoStart}]
    /\ found  \in [Saves -> Saves \cup {NoSave}]
    /\ code   \in [Saves -> Saves \cup {NoSave}]
    /\ edit   \in [Edits -> {"idle", "edit", "move"}]
    /\ chosen \in [Edits -> ExamStatus]
    /\ marked \in [Starts -> SUBSET Saves]
    /\ faults \in 0..MaxFaults
    /\ before \in [Requests -> SUBSET Requests]
    /\ blind  \in SUBSET Starts
    /\ known  \in [Starts -> SUBSET Saves]
    /\ \A r \in Starts : Exists(r) <=> pc[r] = "created"
    /\ \A s \in Saves : found[s] # NoSave => pc[s] \in {"write", "saved", "refused"}

\* A student gets a second attempt only from two starts under way at the same
\* time, or from one whose look for the first attempt failed: starting again
\* after the answer to the first start never makes one.  (StartExam.)
AttemptsOverlap ==
    \A r, x \in Starts :
        Exists(r) /\ Exists(x) /\ Owner[r] = Owner[x] /\ x \in before[r] => r \in blind

\* Two answer rows for one question of an attempt take two saves under way at
\* the same time.  (SaveAnswer.)
AnswersOverlap ==
    \A s, x \in Saves : Row(s) /\ Row(x) /\ SameAnswer(s, x) => x \notin before[s]

\* A save that was acknowledged is in the database until a save replaces it
\* that was not over before this one began: an autosave never falls back to an
\* older text, except among saves under way at the same time.  (SaveAnswer.)
SavedKept ==
    \A s \in Saves : pc[s] = "saved" =>
        \E x \in Saves : Row(x) /\ SameAnswer(s, x) /\ code[x] \notin before[s]

\* What a student saved before the exam was closed is what gets graded, in that
\* sense, every time it is graded.  (SaveAnswer, GradeSubmission.)
SavedIsGraded ==
    \A r \in Starts : attempt[r] = "graded" =>
        \A s \in known[r] : \E c \in marked[r] :
            Question[c] = Question[s] /\ c \notin before[s]

\* What the code knows of the requests that were over before r began.
BeforeOver == \A r \in Requests : \A x \in before[r] : Over(x) /\ x # r

\* A start that looked, and found nothing, is after no attempt of its student.
LookedBefore ==
    \A r \in Starts : pc[r] \in {"insert", "created"} /\ r \notin blind =>
        \A x \in Starts \cap before[r] : Exists(x) => Owner[x] # Owner[r]

\* The same of a save that is to insert a row, or has.
InsertsFirst ==
    \A s \in Saves : (pc[s] = "write" /\ found[s] = NoSave) \/ Row(s) =>
        \A x \in AnswerRows(s) : x \notin before[s]

\* A save that found a row found one for its own question, and each row holds
\* the text of a save for its own question that was carried out.
RowsMatch ==
    /\ \A s \in Saves : pc[s] = "write" /\ found[s] # NoSave => found[s] \in AnswerRows(s)
    /\ \A s \in Saves : Row(s) =>
          pc[s] = "saved" /\ pc[code[s]] = "saved" /\ SameAnswer(s, code[s])

\* What was acknowledged when an attempt was closed.
KnownSaved ==
    \A r \in Starts : \A s \in known[r] : pc[s] = "saved" /\ target[s] = r

\* The inductive invariant.  AttemptsOverlap follows from LookedBefore,
\* AnswersOverlap from InsertsFirst.
IInv ==
    /\ TypeOK
    /\ BeforeOver
    /\ LookedBefore
    /\ InsertsFirst
    /\ RowsMatch
    /\ KnownSaved
    /\ SavedKept
    /\ SavedIsGraded

-----------------------------------------------------------------------------
(* What the repository's texts say, and the code does not keep.            *)

\* sweep_test.go:170 "StartExam allows only one per student per exam".
OneAttempt == \A r, x \in Starts : Exists(r) /\ Exists(x) /\ Owner[r] = Owner[x] => r = x

\* README:138 "Update exam (draft only)".
EditsOnlyDrafts == [][minutes' # minutes => examStatus = "draft"]_vars

\* service.go:188 "SaveAnswer refuses writes past [the deadline]".
NoWritePastDeadline ==
    [][\A s \in Saves : SaveWrite(s) => ~Expired(target[s])]_vars
=============================================================================
