------------------------------ MODULE Enrolment ------------------------------
(***************************************************************************)
(* Courses, exams and students as rows that come and go, and the two       *)
(* relations over them: who is enrolled in which course and who has an     *)
(* attempt at which exam (internal/course, internal/exam, and the          *)
(* statements of StartExam and of the user service that they meet).        *)
(*                                                                         *)
(* A lecturer enrols students by a list of matriculation numbers, which    *)
(* need not be unique: the request works through its list, two or three    *)
(* statements a number, and goes on to the next number whatever happens to *)
(* one of them.  Meanwhile rows are inserted and deleted under it, guarded *)
(* by nothing but the keys of the database.                                *)
(***************************************************************************)
EXTENDS Integers, Sequences

CONSTANTS
    Schools, Lecturers, Numbers,
    Courses, Exams, Students,   \* rows, by the identities they will have
    School,      \* School[u]: users.tenant_id of a lecturer or student
    Matric,      \* Matric[s]: users.matric_number of a student
    Owner,       \* Owner[c]: courses.lecturer_id, of the lecturer's own school
    CourseOf,    \* CourseOf[e]: exams.course_id, as the request gave it
    ExamSchool,  \* ExamSchool[e]: exams.tenant_id, of the lecturer who made it
    Enrols,      \* requests POST /courses/:id/enroll
    Sender,      \* Sender[r]: the lecturer who sends r
    List,        \* List[r]: the numbers in r
    MaxFaults,   \* bound on failing statements of an enrol request
    NoRow

Rows == Courses \cup Exams \cup Students

ASSUME EnrolmentAssumption ==
    /\ School \in [Lecturers \cup Students -> Schools]
    /\ Matric \in [Students -> Numbers]
    /\ Owner \in [Courses -> Lecturers]
    /\ CourseOf \in [Exams -> Courses]
    /\ ExamSchool \in [Exams -> Schools]
    /\ Sender \in [Enrols -> Lecturers]
    /\ List \in [Enrols -> Seq(Numbers)]
    /\ Students \subseteq Int
    /\ MaxFaults \in Nat
    /\ Courses \cap Exams = {} /\ Courses \cap Students = {} /\ Exams \cap Students = {}
    /\ NoRow \notin Rows

VARIABLES
    row,        \* whether each row is still to come, here, or deleted
    enrolled,   \* course_enrollments
    attempted,  \* submissions, as pairs of exam and student
    pc,         \* where each enrol request is,
    asks,       \*   the course it is for,
    next,       \*   the place in its list,
    who,        \*   the student it has found for the number there
    step,       \* where the start of an exam by each student is,
    sits,       \*   and of which exam
    faults,
    dropped,    \* history: pairs that were unenrolled,
    snap,       \*   the students when each enrol request began,
    hurt        \*   the enrol requests with a failing statement

enrol == <<pc, asks, next, who, snap, hurt, faults>>
start == <<step, sits>>
vars  == <<row, enrolled, attempted, enrol, start, dropped>>

Here(x) == row[x] = "here"
Gone(x) == row[x] = "gone"

Now == [s \in Students |-> row[s]]

Init ==
    /\ row = [x \in Rows |-> "new"]
    /\ enrolled = {} /\ attempted = {} /\ dropped = {}
    /\ pc = [r \in Enrols |-> "idle"]
    /\ asks = [r \in Enrols |-> NoRow]
    /\ next = [r \in Enrols |-> 1]
    /\ who = [r \in Enrols |-> NoRow]
    /\ step = [s \in Students |-> "idle"]
    /\ sits = [s \in Students |-> NoRow]
    /\ faults = 0
    /\ snap = [r \in Enrols |-> Now]
    /\ hurt = {}

Insert(x) == row[x] = "new" /\ row' = [row EXCEPT ![x] = "here"]

\* The foreign keys of the schema refuse a DELETE while a row refers to this one.
Delete(x) == Here(x) /\ row' = [row EXCEPT ![x] = "gone"]

-----------------------------------------------------------------------------
(* The rows.  A lecturer with a course cannot be deleted, so none is.       *)

CreateCourse(c) ==
    /\ Insert(c)
    /\ UNCHANGED <<enrolled, attempted, enrol, start, dropped>>

DeleteCourse(c) ==
    /\ \A s \in Students : <<c, s>> \notin enrolled
    /\ \A e \in Exams : CourseOf[e] = c => ~Here(e)
    /\ Delete(c)
    /\ UNCHANGED <<enrolled, attempted, enrol, start, dropped>>

\* The course need only exist: that it is of the lecturer's school is not looked at.
CreateExam(e) ==
    /\ Here(CourseOf[e])
    /\ Insert(e)
    /\ UNCHANGED <<enrolled, attempted, enrol, start, dropped>>

\* Of an exam whose questions, if any, have been deleted.
DeleteExam(e) ==
    /\ \A s \in Students : <<e, s>> \notin attempted
    /\ Delete(e)
    /\ UNCHANGED <<enrolled, attempted, enrol, start, dropped>>

\* By invitation, import or registration (Accounts says how).
CreateStudent(s) ==
    /\ Insert(s)
    /\ UNCHANGED <<enrolled, attempted, enrol, start, dropped>>

DeleteStudent(s) ==
    /\ \A c \in Courses : <<c, s>> \notin enrolled
    /\ \A e \in Exams : <<e, s>> \notin attempted
    /\ Delete(s)
    /\ UNCHANGED <<enrolled, attempted, enrol, start, dropped>>

-----------------------------------------------------------------------------
(* Enrolling by matriculation number.                                       *)

Enroll(r, c) ==
    /\ pc[r] = "idle"
    /\ Here(c) /\ Owner[c] = Sender[r]
    /\ pc'   = [pc   EXCEPT ![r] = "lookup"]
    /\ asks' = [asks EXCEPT ![r] = c]
    /\ snap' = [snap EXCEPT ![r] = Now]
    /\ UNCHANGED <<row, enrolled, attempted, next, who, hurt, faults, start, dropped>>

More(r)   == next[r] <= Len(List[r])
Number(r) == List[r][next[r]]
Pair(r)   == <<asks[r], who[r]>>

\* `continue`, or the end of the loop's body.
NextNumber(r) ==
    /\ pc'   = [pc   EXCEPT ![r] = "lookup"]
    /\ next' = [next EXCEPT ![r] = @ + 1]
    /\ who'  = [who  EXCEPT ![r] = NoRow]

\* The students that have the number, in the school of the request.
\* A blank is a number that nobody has.
Holders(r, n) == {s \in Students : Matric[s] = n /\ School[s] = School[Sender[r]]}

\* Mutant: of any school.
FoundAnySchool(r) == {s \in Students : Here(s) /\ Matric[s] = Number(r)}

Found(r) == {s \in Holders(r, Number(r)) : Here(s)}

\* Mutant: an unknown number ends the request.
UnknownStops(r) ==
    /\ Found(r) = {}
    /\ pc'   = [pc   EXCEPT ![r] = "lookup"]
    /\ next' = [next EXCEPT ![r] = Len(List[r]) + 1]
    /\ who'  = [who  EXCEPT ![r] = NoRow]

\* An unknown number is skipped.
Unknown(r) == Found(r) = {} /\ NextNumber(r)

\* First orders by the primary key.
Known(r) ==
    /\ \E s \in Found(r) : /\ \A x \in Found(r) : s <= x
                           /\ who' = [who EXCEPT ![r] = s]
    /\ pc' = [pc EXCEPT ![r] = "find"]
    /\ UNCHANGED next

LookUp(r) ==
    /\ pc[r] = "lookup" /\ More(r)
    /\ Unknown(r) \/ Known(r)
    /\ UNCHANGED <<row, enrolled, attempted, asks, snap, hurt, faults, start, dropped>>

\* FirstOrCreate, the SELECT.
Find(r) ==
    /\ pc[r] = "find"
    /\ \/ Pair(r) \in enrolled /\ NextNumber(r)
       \/ /\ Pair(r) \notin enrolled
          /\ pc' = [pc EXCEPT ![r] = "insert"]
          /\ UNCHANGED <<next, who>>
    /\ UNCHANGED <<row, enrolled, attempted, asks, snap, hurt, faults, start, dropped>>

\* The INSERT would break no key.
Admissible(r) == Pair(r) \notin enrolled /\ Here(asks[r]) /\ Here(who[r])

\* FirstOrCreate, the INSERT.
Create(r) ==
    /\ pc[r] = "insert"
    /\ \/ Admissible(r) /\ enrolled' = enrolled \cup {Pair(r)}
       \/ ~Admissible(r) /\ UNCHANGED enrolled
    /\ NextNumber(r)
    /\ UNCHANGED <<row, attempted, asks, snap, hurt, faults, start, dropped>>

\* A statement of the loop fails: the number is skipped all the same.
Fault(r) ==
    /\ pc[r] \in {"lookup", "find", "insert"} /\ More(r)
    /\ faults < MaxFaults /\ faults' = faults + 1
    /\ hurt' = hurt \cup {r}
    /\ NextNumber(r)
    /\ UNCHANGED <<row, enrolled, attempted, asks, snap, start, dropped>>

Finish(r) ==
    /\ pc[r] = "lookup" /\ ~More(r)
    /\ pc' = [pc EXCEPT ![r] = "done"]
    /\ UNCHANGED <<row, enrolled, attempted, asks, next, who, snap, hurt, faults, start, dropped>>

\* The process dies: what has been inserted stays.
Die(r) ==
    /\ pc[r] \in {"lookup", "find", "insert"}
    /\ pc'   = [pc   EXCEPT ![r] = "dead"]
    /\ asks' = [asks EXCEPT ![r] = NoRow]
    /\ next' = [next EXCEPT ![r] = 1]
    /\ who'  = [who  EXCEPT ![r] = NoRow]
    /\ snap' = [snap EXCEPT ![r] = [s \in Students |-> "new"]]
    /\ hurt' = hurt \ {r}
    /\ UNCHANGED <<row, enrolled, attempted, faults, start, dropped>>

\* By the lecturer of the course, and again if enrolled again.
Unenroll(c, s) ==
    /\ <<c, s>> \in enrolled
    /\ enrolled' = enrolled \ {<<c, s>>}
    /\ dropped'  = dropped \cup {<<c, s>>}
    /\ UNCHANGED <<row, attempted, enrol, start>>

-----------------------------------------------------------------------------
(* Starting an exam.  Its status, and the look for an earlier attempt, are  *)
(* in ExamSession: here it may be active at any time.                       *)

StartExam(s, e) ==
    /\ step[s] = "idle"
    /\ Here(e) /\ ExamSchool[e] = School[s]
    /\ step' = [step EXCEPT ![s] = "exam"]
    /\ sits' = [sits EXCEPT ![s] = e]
    /\ UNCHANGED <<row, enrolled, attempted, enrol, dropped>>

\* Mutant: the enrolment is not looked for.
NotLookedFor(s) == TRUE

IsEnrolled(s) == <<CourseOf[sits[s]], s>> \in enrolled

StartEnrolled(s) ==
    /\ step[s] = "exam" /\ IsEnrolled(s)
    /\ step' = [step EXCEPT ![s] = "enrolled"]
    /\ UNCHANGED <<row, enrolled, attempted, enrol, sits, dropped>>

StartOver(s) ==
    /\ step' = [step EXCEPT ![s] = "idle"]
    /\ sits' = [sits EXCEPT ![s] = NoRow]

StartInsert(s) ==
    /\ step[s] = "enrolled" /\ Here(s) /\ Here(sits[s])
    /\ attempted' = attempted \cup {<<sits[s], s>>}
    /\ StartOver(s)
    /\ UNCHANGED <<row, enrolled, enrol, dropped>>

\* A check or a statement fails.
StartRefused(s) ==
    /\ step[s] # "idle"
    /\ StartOver(s)
    /\ UNCHANGED <<row, enrolled, attempted, enrol, dropped>>

-----------------------------------------------------------------------------
Course(c)  == CreateCourse(c) \/ DeleteCourse(c)
Exam(e)    == CreateExam(e) \/ DeleteExam(e)
Student(s) == CreateStudent(s) \/ DeleteStudent(s)

Enrolling(r) == \/ \E c \in Courses : Enroll(r, c)
                \/ LookUp(r) \/ Find(r) \/ Create(r) \/ Finish(r)
                \/ Fault(r) \/ Die(r)

Starting(s) == \/ \E e \in Exams : StartExam(s, e)
               \/ StartEnrolled(s) \/ StartInsert(s) \/ StartRefused(s)

Next ==
    \/ \E c \in Courses : Course(c)
    \/ \E e \in Exams : Exam(e)
    \/ \E s \in Students : Student(s) \/ Starting(s)
    \/ \E c \in Courses, s \in Students : Unenroll(c, s)
    \/ \E r \in Enrols : Enrolling(r)

Spec == Init /\ [][Next]_vars

-----------------------------------------------------------------------------
\* The request is under way, or over.
Begun(r) == pc[r] \notin {"idle", "dead"}

RowStates == {"new", "here", "gone"}

TypeOK ==
    /\ row \in [Rows -> RowStates]
    /\ enrolled \subseteq Courses \X Students
    /\ attempted \subseteq Exams \X Students
    /\ pc \in [Enrols -> {"idle", "lookup", "find", "insert", "done", "dead"}]
    /\ asks \in [Enrols -> Courses \cup {NoRow}]
    /\ next \in [Enrols -> Nat \ {0}]
    /\ who \in [Enrols -> Students \cup {NoRow}]
    /\ step \in [Students -> {"idle", "exam", "enrolled"}]
    /\ sits \in [Students -> Exams \cup {NoRow}]
    /\ faults \in 0..MaxFaults
    /\ dropped \subseteq Courses \X Students
    /\ snap \in [Enrols -> [Students -> RowStates]]
    /\ hurt \in SUBSET Enrols
    /\ \A r \in Enrols : /\ Begun(r) => asks[r] \in Courses
                         /\ pc[r] \in {"find", "insert"} => who[r] \in Students /\ More(r)
                         /\ pc[r] = "done" => ~More(r)
                         /\ pc[r] = "idle" => next[r] = 1
    /\ \A s \in Students : step[s] # "idle" => sits[s] \in Exams

\* Enrolled, now or at some time.
EverEnrolled == enrolled \cup dropped

\* An attempt is at an exam of the student's own school, in a course of that
\* school: CreateExam takes the course of any school and StartExam looks at the
\* school of the exam alone, so this rests on whom Enroll enrols.
AttemptInSchool ==
    \A e \in Exams, s \in Students : <<e, s>> \in attempted =>
        /\ ExamSchool[e] = School[s]
        /\ School[Owner[CourseOf[e]]] = School[s]

\* The n-th number of the list has been kept: if a student had it all the time
\* since the request began, some student who has it is enrolled, or has been
\* unenrolled, or was deleted meanwhile.
Kept(r, n) ==
    \A s \in Holders(r, n) :
        Here(asks[r]) /\ snap[r][s] = "here" /\ Here(s) =>
            \E x \in Holders(r, n) :
                \/ <<asks[r], x>> \in EverEnrolled
                \/ snap[r][x] # "gone" /\ Gone(x)

\* A request to enrol that has ended without a failing statement has enrolled a
\* student for every number on its list that a student had all along: whatever
\* comes and goes meanwhile, no number is skipped because of another.  (Enroll.)
Promised ==
    \A r \in Enrols \ hurt : pc[r] = "done" =>
        \A i \in 1..Len(List[r]) : Kept(r, List[r][i])

\* A row that has come does not come again, and one that is gone stays so.
RowsAge ==
    \A r \in Enrols : Begun(r) =>
        /\ row[asks[r]] # "new"
        /\ \A s \in Students : /\ snap[r][s] = "here" => row[s] # "new"
                               /\ snap[r][s] = "gone" => Gone(s)

\* Whoever a request has found has the number, and was there after it began.
FoundHolds ==
    \A r \in Enrols : pc[r] \in {"find", "insert"} =>
        /\ who[r] \in Holders(r, Number(r))
        /\ row[who[r]] # "new" /\ snap[r][who[r]] # "gone"

OwnCourse == \A r \in Enrols : Begun(r) => Owner[asks[r]] = Sender[r]

EnrolledInSchool ==
    \A c \in Courses, s \in Students : <<c, s>> \in EverEnrolled => School[Owner[c]] = School[s]

StartsEnrolled ==
    \A s \in Students :
        /\ step[s] # "idle" => ExamSchool[sits[s]] = School[s]
        /\ step[s] = "enrolled" => <<CourseOf[sits[s]], s>> \in EverEnrolled

KeptSoFar ==
    \A r \in Enrols \ hurt : Begun(r) =>
        \A i \in 1..Len(List[r]) : i < next[r] => Kept(r, List[r][i])

\* The inductive invariant.  Promised follows from KeptSoFar.
IInv ==
    /\ TypeOK
    /\ RowsAge
    /\ FoundHolds
    /\ OwnCourse
    /\ EnrolledInSchool
    /\ StartsEnrolled
    /\ AttemptInSchool
    /\ KeptSoFar
=============================================================================
