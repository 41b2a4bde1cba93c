--------------------------- MODULE EnrolmentProofs ---------------------------
(* Proofs about Enrolment, for any number of rows, lists and requests.         *)
EXTENDS Enrolment, TLAPS

USE EnrolmentAssumption

-----------------------------------------------------------------------------
(* How one step changes the rows and the enrolments.                           *)

LEMMA RowStep ==
    ASSUME TypeOK, [Next]_vars
    PROVE  /\ \A x \in Rows : /\ row[x] # "new" => row'[x] # "new"
                              /\ Gone(x) => Gone(x)'
           /\ EverEnrolled \subseteq EverEnrolled'
<1> USE DEF Gone, EverEnrolled, Rows
<1>1. ASSUME NEW x \in Rows, Insert(x)
      PROVE  /\ \A y \in Rows : /\ row[y] # "new" => row'[y] # "new"
                                /\ Gone(y) => Gone(y)'
  BY <1>1 DEF Insert, TypeOK
<1>2. ASSUME NEW x \in Rows, Delete(x)
      PROVE  /\ \A y \in Rows : /\ row[y] # "new" => row'[y] # "new"
                                /\ Gone(y) => Gone(y)'
  BY <1>2 DEF Delete, Here, TypeOK
<1>3. CASE \E c \in Courses : Course(c)
  BY <1>1, <1>2, <1>3 DEF Course, CreateCourse, DeleteCourse
<1>4. CASE \E e \in Exams : Exam(e)
  BY <1>1, <1>2, <1>4 DEF Exam, CreateExam, DeleteExam
<1>5. CASE \E s \in Students : Student(s)
  BY <1>1, <1>2, <1>5 DEF Student, CreateStudent, DeleteStudent
<1>6. CASE \E s \in Students : Starting(s)
  BY <1>6 DEF Starting, StartExam, StartEnrolled, StartInsert, StartRefused
<1>7. CASE \E c \in Courses, s \in Students : Unenroll(c, s)
  BY <1>7 DEF Unenroll
<1>8. CASE \E r \in Enrols : Enrolling(r)
  BY <1>8 DEF Enrolling, Enroll, LookUp, Find, Create, Finish, Fault, Die
<1>9. CASE UNCHANGED vars
  BY <1>9 DEF vars
<1> QED BY <1>3, <1>4, <1>5, <1>6, <1>7, <1>8, <1>9 DEF Next

(* A step leaves the enrol requests alone, or is one of theirs.                *)
LEMMA EnrolStep ==
    ASSUME [Next]_vars
    PROVE  UNCHANGED enrol \/ \E r \in Enrols : Enrolling(r)
<1> USE DEF enrol
<1>1. CASE \E c \in Courses : Course(c)
  BY <1>1 DEF Course, CreateCourse, DeleteCourse
<1>2. CASE \E e \in Exams : Exam(e)
  BY <1>2 DEF Exam, CreateExam, DeleteExam
<1>3. CASE \E s \in Students : Student(s)
  BY <1>3 DEF Student, CreateStudent, DeleteStudent
<1>4. CASE \E s \in Students : Starting(s)
  BY <1>4 DEF Starting, StartExam, StartEnrolled, StartInsert, StartRefused
<1>5. CASE \E c \in Courses, s \in Students : Unenroll(c, s)
  BY <1>5 DEF Unenroll
<1>6. CASE UNCHANGED vars
  BY <1>6 DEF vars
<1> QED BY <1>1, <1>2, <1>3, <1>4, <1>5, <1>6 DEF Next

(* A step leaves the starts and the attempts alone, or is one of the starts.   *)
LEMMA StartStep ==
    ASSUME [Next]_vars
    PROVE  UNCHANGED <<start, attempted>> \/ \E s \in Students : Starting(s)
<1> USE DEF start
<1>1. CASE \E c \in Courses : Course(c)
  BY <1>1 DEF Course, CreateCourse, DeleteCourse
<1>2. CASE \E e \in Exams : Exam(e)
  BY <1>2 DEF Exam, CreateExam, DeleteExam
<1>3. CASE \E s \in Students : Student(s)
  BY <1>3 DEF Student, CreateStudent, DeleteStudent
<1>4. CASE \E r \in Enrols : Enrolling(r)
  BY <1>4 DEF Enrolling, Enroll, LookUp, Find, Create, Finish, Fault, Die
<1>5. CASE \E c \in Courses, s \in Students : Unenroll(c, s)
  BY <1>5 DEF Unenroll
<1>6. CASE UNCHANGED vars
  BY <1>6 DEF vars
<1> QED BY <1>1, <1>2, <1>3, <1>4, <1>5, <1>6 DEF Next

(* No step but an INSERT enrols.                                               *)
LEMMA OnlyCreateEnrols ==
    ASSUME [Next]_vars
    PROVE  \/ EverEnrolled' = EverEnrolled
           \/ \E r \in Enrols : /\ pc[r] = "insert" /\ Admissible(r)
                                /\ EverEnrolled' = EverEnrolled \cup {Pair(r)}
<1> USE DEF EverEnrolled
<1>1. CASE \E c \in Courses : Course(c)
  BY <1>1 DEF Course, CreateCourse, DeleteCourse
<1>2. CASE \E e \in Exams : Exam(e)
  BY <1>2 DEF Exam, CreateExam, DeleteExam
<1>3. CASE \E s \in Students : Student(s)
  BY <1>3 DEF Student, CreateStudent, DeleteStudent
<1>4. CASE \E s \in Students : Starting(s)
  BY <1>4 DEF Starting, StartExam, StartEnrolled, StartInsert, StartRefused
<1>5. CASE \E c \in Courses, s \in Students : Unenroll(c, s)
  <2>1. PICK c \in Courses, s \in Students : Unenroll(c, s)
    BY <1>5
  <2>2. \A p : p \in EverEnrolled' <=> p \in EverEnrolled
    BY <2>1 DEF Unenroll
  <2> QED BY <2>2, Zenon
<1>6. ASSUME NEW r \in Enrols, Enrolling(r)
      PROVE  \/ EverEnrolled' = EverEnrolled
             \/ /\ pc[r] = "insert" /\ Admissible(r)
                /\ EverEnrolled' = EverEnrolled \cup {Pair(r)}
  <2>1. CASE Create(r)
    BY <2>1 DEF Create
  <2>2. CASE ~Create(r)
    BY <1>6, <2>2 DEF Enrolling, Enroll, LookUp, Find, Finish, Fault, Die
  <2> QED BY <2>1, <2>2
<1>7. CASE UNCHANGED vars
  BY <1>7 DEF vars
<1> QED BY <1>1, <1>2, <1>3, <1>4, <1>5, <1>6, <1>7 DEF Next

-----------------------------------------------------------------------------
(* The parts of the inductive invariant, one by one.                           *)

LEMMA TypeStep == TypeOK /\ [Next]_vars => TypeOK'
<1> SUFFICES ASSUME TypeOK, [Next]_vars
             PROVE  TypeOK'
  OBVIOUS
<1> USE DEF TypeOK, RowStates
<1>a. ASSUME NEW x \in Rows, Insert(x) \/ Delete(x),
             UNCHANGED <<enrolled, attempted, enrol, start, dropped>>
      PROVE  TypeOK'
  <2>1. row' \in [Rows -> RowStates]
    BY <1>a DEF Insert, Delete
  <2> QED BY <1>a, <2>1 DEF enrol, start, More, Begun
<1>1. CASE \E c \in Courses : Course(c)
  BY <1>1, <1>a DEF Course, CreateCourse, DeleteCourse, Rows
<1>2. CASE \E e \in Exams : Exam(e)
  BY <1>2, <1>a DEF Exam, CreateExam, DeleteExam, Rows
<1>3. CASE \E s \in Students : Student(s)
  BY <1>3, <1>a DEF Student, CreateStudent, DeleteStudent, Rows
<1>4. ASSUME NEW s \in Students, Starting(s)
      PROVE  TypeOK'
  <2> USE DEF enrol, More, Begun
  <2>1. CASE \E e \in Exams : StartExam(s, e)
    BY <2>1 DEF StartExam
  <2>2. CASE StartEnrolled(s)
    BY <2>2 DEF StartEnrolled
  <2>3. CASE StartInsert(s)
    BY <2>3 DEF StartInsert, StartOver
  <2>4. CASE StartRefused(s)
    BY <2>4 DEF StartRefused, StartOver
  <2> QED BY <1>4, <2>1, <2>2, <2>3, <2>4 DEF Starting
<1>5. CASE \E c \in Courses, s \in Students : Unenroll(c, s)
  BY <1>5 DEF Unenroll, enrol, start, More, Begun
<1>6. ASSUME NEW r \in Enrols, Enrolling(r)
      PROVE  TypeOK'
  <2> USE DEF start, More, Begun, NextNumber
  <2>1. CASE \E c \in Courses : Enroll(r, c)
    BY <2>1 DEF Enroll, Now, Rows
  <2>2. CASE LookUp(r)
    <3>1. CASE Unknown(r)
      BY <2>2, <3>1 DEF LookUp, Unknown
    <3>2. CASE Known(r)
      <4>1. PICK s \in Students : who' = [who EXCEPT ![r] = s]
        BY <3>2 DEF Known, Found, Holders
      <4> QED BY <2>2, <3>2, <4>1 DEF LookUp, Known
    <3> QED BY <2>2, <3>1, <3>2 DEF LookUp
  <2>3. CASE Find(r)
    <3>1. CASE NextNumber(r)
      BY <2>3, <3>1 DEF Find
    <3>2. CASE ~NextNumber(r)
      <4>1. /\ pc[r] = "find" /\ pc' = [pc EXCEPT ![r] = "insert"]
            /\ UNCHANGED <<next, who, row, enrolled, attempted, asks, snap, hurt, faults,
                           step, sits, dropped>>
        BY <2>3, <3>2 DEF Find
      <4> HIDE DEF NextNumber
      <4> QED BY <4>1
    <3> QED BY <3>1, <3>2
  <2>4. CASE Create(r)
    BY <2>4 DEF Create, Pair
  <2>5. CASE Finish(r)
    BY <2>5 DEF Finish
  <2>6. CASE Fault(r)
    BY <2>6 DEF Fault
  <2>7. CASE Die(r)
    BY <2>7 DEF Die
  <2> QED BY <1>6, <2>1, <2>2, <2>3, <2>4, <2>5, <2>6, <2>7 DEF Enrolling
<1>7. CASE UNCHANGED vars
  BY <1>7 DEF vars, enrol, start, More, Begun
<1> QED BY <1>1, <1>2, <1>3, <1>4, <1>5, <1>6, <1>7 DEF Next

LEMMA RowsAgeStep == TypeOK /\ RowsAge /\ [Next]_vars => RowsAge'
<1> SUFFICES ASSUME TypeOK, RowsAge, [Next]_vars
             PROVE  RowsAge'
  OBVIOUS
<1> USE DEF RowsAge, Begun
<1>1. \A c \in Courses : row[c] # "new" => row'[c] # "new"
  BY RowStep DEF Rows
<1>2. \A s \in Students : /\ row[s] # "new" => row'[s] # "new"
                          /\ Gone(s) => Gone(s)'
  BY RowStep DEF Rows
<1>3. CASE UNCHANGED enrol
  BY <1>1, <1>2, <1>3 DEF enrol, TypeOK
<1>4. ASSUME NEW r \in Enrols, Enrolling(r)
      PROVE  RowsAge'
  <2>1. CASE \E c \in Courses : Enroll(r, c)
    BY <1>1, <1>2, <2>1 DEF Enroll, Now, Here, Gone, TypeOK, RowStates, Rows
  <2>2. CASE UNCHANGED <<asks, snap>> /\ \A x \in Enrols : Begun(x)' => Begun(x)
    BY <1>1, <1>2, <2>2 DEF TypeOK
  <2>3. CASE Die(r)
    BY <1>1, <1>2, <2>3 DEF Die, TypeOK
  <2>4. ASSUME LookUp(r) \/ Find(r) \/ Create(r) \/ Finish(r) \/ Fault(r)
        PROVE  UNCHANGED <<asks, snap>> /\ \A x \in Enrols : Begun(x)' => Begun(x)
    BY <2>4 DEF LookUp, Unknown, Known, Find, Create, Finish, Fault, NextNumber, TypeOK
  <2> QED BY <1>4, <2>1, <2>2, <2>3, <2>4 DEF Enrolling
<1> QED BY <1>3, <1>4, EnrolStep

LEMMA FoundHoldsStep == TypeOK /\ RowsAge /\ FoundHolds /\ [Next]_vars => FoundHolds'
<1> SUFFICES ASSUME TypeOK, RowsAge, FoundHolds, [Next]_vars
             PROVE  FoundHolds'
  OBVIOUS
<1> USE DEF FoundHolds, Number, Holders
<1>1. \A s \in Students : row[s] # "new" => row'[s] # "new"
  BY RowStep DEF Rows
<1>2. CASE UNCHANGED enrol
  BY <1>1, <1>2 DEF enrol, TypeOK
<1>3. ASSUME NEW r \in Enrols, Enrolling(r)
      PROVE  FoundHolds'
  <2>1. CASE \E c \in Courses : Enroll(r, c)
    BY <1>1, <2>1 DEF Enroll, TypeOK
  <2>2. CASE Known(r) /\ LookUp(r)
    <3>1. PICK s \in Found(r) : who' = [who EXCEPT ![r] = s]
      BY <2>2 DEF Known
    <3>2. /\ s \in Students /\ s \in Holders(r, Number(r))
          /\ row[s] = "here" /\ snap[r][s] # "gone"
      BY <2>2, <3>1 DEF Found, LookUp, RowsAge, Begun, Here, Gone
    <3>3. /\ pc' = [pc EXCEPT ![r] = "find"]
          /\ UNCHANGED <<next, snap>>
      BY <2>2 DEF Known, LookUp
    <3> QED BY <1>1, <3>1, <3>2, <3>3 DEF TypeOK
  <2>3. CASE Find(r) /\ pc'[r] = "insert"
    BY <1>1, <2>3 DEF Find, NextNumber, TypeOK
  <2>4. CASE pc'[r] \notin {"find", "insert"}
    BY <1>1, <1>3, <2>4 DEF Enrolling, Enroll, LookUp, Unknown, Known, Find, Create, Finish,
                            Fault, Die, NextNumber, TypeOK
  <2>5. ASSUME \/ LookUp(r) /\ ~Known(r)
               \/ Find(r) /\ pc'[r] # "insert"
               \/ Create(r) \/ Finish(r) \/ Fault(r) \/ Die(r)
        PROVE  pc'[r] \notin {"find", "insert"}
    <3>1. CASE NextNumber(r) \/ Finish(r) \/ Die(r)
      BY <3>1 DEF NextNumber, Finish, Die, TypeOK
    <3>2. CASE Find(r) /\ pc'[r] # "insert"
      BY <3>2 DEF Find, NextNumber, TypeOK
    <3> QED BY <2>5, <3>1, <3>2 DEF LookUp, Unknown, Create, Fault
  <2> QED BY <1>3, <2>1, <2>2, <2>3, <2>4, <2>5 DEF Enrolling
<1> QED BY <1>2, <1>3, EnrolStep

LEMMA OwnCourseStep == TypeOK /\ OwnCourse /\ [Next]_vars => OwnCourse'
<1> SUFFICES ASSUME TypeOK, OwnCourse, [Next]_vars
             PROVE  OwnCourse'
  OBVIOUS
<1> USE DEF OwnCourse, Begun, TypeOK
<1>1. CASE UNCHANGED enrol
  BY <1>1 DEF enrol
<1>2. ASSUME NEW r \in Enrols, Enrolling(r)
      PROVE  OwnCourse'
  <2>1. CASE \E c \in Courses : Enroll(r, c)
    BY <2>1 DEF Enroll
  <2>2. CASE Die(r)
    BY <2>2 DEF Die
  <2>3. ASSUME LookUp(r) \/ Find(r) \/ Create(r) \/ Finish(r) \/ Fault(r)
        PROVE  UNCHANGED asks /\ \A x \in Enrols : Begun(x)' => Begun(x)
    BY <2>3 DEF LookUp, Unknown, Known, Find, Create, Finish, Fault, NextNumber
  <2>4. CASE UNCHANGED asks /\ \A x \in Enrols : Begun(x)' => Begun(x)
    BY <2>4
  <2> QED BY <1>2, <2>1, <2>2, <2>3, <2>4 DEF Enrolling
<1> QED BY <1>1, <1>2, EnrolStep

LEMMA EnrolledInSchoolStep ==
    TypeOK /\ FoundHolds /\ OwnCourse /\ EnrolledInSchool /\ [Next]_vars => EnrolledInSchool'
<1> SUFFICES ASSUME TypeOK, FoundHolds, OwnCourse, EnrolledInSchool, [Next]_vars
             PROVE  EnrolledInSchool'
  OBVIOUS
<1> USE DEF EnrolledInSchool
<1>1. ASSUME NEW r \in Enrols, pc[r] = "insert"
      PROVE  School[Owner[asks[r]]] = School[who[r]]
  BY <1>1 DEF FoundHolds, OwnCourse, Holders, Begun
<1> QED BY <1>1, OnlyCreateEnrols DEF Pair

LEMMA StartsEnrolledStep == TypeOK /\ StartsEnrolled /\ [Next]_vars => StartsEnrolled'
<1> SUFFICES ASSUME TypeOK, StartsEnrolled, [Next]_vars
             PROVE  StartsEnrolled'
  OBVIOUS
<1> USE DEF StartsEnrolled
<1>1. EverEnrolled \subseteq EverEnrolled'
  BY RowStep
<1>2. CASE UNCHANGED <<start, attempted>>
  BY <1>1, <1>2 DEF start
<1>3. ASSUME NEW s \in Students, Starting(s)
      PROVE  StartsEnrolled'
  <2> USE DEF TypeOK
  <2>1. CASE \E e \in Exams : StartExam(s, e)
    BY <1>1, <2>1 DEF StartExam
  <2>2. CASE StartEnrolled(s)
    BY <1>1, <2>2 DEF StartEnrolled, IsEnrolled, EverEnrolled
  <2>3. CASE StartInsert(s)
    BY <1>1, <2>3 DEF StartInsert, StartOver
  <2>4. CASE StartRefused(s)
    BY <1>1, <2>4 DEF StartRefused, StartOver
  <2> QED BY <1>3, <2>1, <2>2, <2>3, <2>4 DEF Starting
<1> QED BY <1>2, <1>3, StartStep

LEMMA AttemptInSchoolStep ==
    TypeOK /\ EnrolledInSchool /\ StartsEnrolled /\ AttemptInSchool /\ [Next]_vars => AttemptInSchool'
<1> SUFFICES ASSUME TypeOK, EnrolledInSchool, StartsEnrolled, AttemptInSchool, [Next]_vars
             PROVE  AttemptInSchool'
  OBVIOUS
<1> USE DEF AttemptInSchool
<1>1. CASE UNCHANGED <<start, attempted>>
  BY <1>1
<1>2. ASSUME NEW s \in Students, Starting(s)
      PROVE  AttemptInSchool'
  <2>1. CASE UNCHANGED attempted
    BY <2>1
  <2>2. CASE StartInsert(s)
    <3>1. /\ attempted' = attempted \cup {<<sits[s], s>>}
          /\ sits[s] \in Exams
      BY <2>2 DEF StartInsert, TypeOK
    <3>2. /\ ExamSchool[sits[s]] = School[s]
          /\ School[Owner[CourseOf[sits[s]]]] = School[s]
      BY <2>2, <3>1 DEF StartInsert, StartsEnrolled, EnrolledInSchool
    <3> QED BY <3>1, <3>2
  <2> QED BY <1>2, <2>1, <2>2 DEF Starting, StartExam, StartEnrolled, StartRefused
<1> QED BY <1>1, <1>2, StartStep

(* A number that was kept stays kept while its request goes on.                *)
LEMMA KeptStays ==
    ASSUME TypeOK, RowsAge, [Next]_vars, NEW r \in Enrols, NEW n, Begun(r), Kept(r, n),
           asks'[r] = asks[r], snap'[r] = snap[r]
    PROVE  Kept(r, n)'
<1>1. asks[r] \in Rows /\ row[asks[r]] # "new"
  BY DEF TypeOK, Begun, Rows, RowsAge
<1>2. Here(asks[r])' => Here(asks[r])
  BY <1>1, RowStep DEF Here, Gone, TypeOK, RowStates
<1>3. \A s \in Students : snap[r][s] = "here" /\ Here(s)' => Here(s)
  BY RowStep DEF Here, Gone, TypeOK, RowStates, RowsAge, Begun, Rows
<1>4. /\ \A x \in Students : Gone(x) => Gone(x)'
      /\ EverEnrolled \subseteq EverEnrolled'
  BY RowStep DEF Rows
<1>5. Holders(r, n)' = Holders(r, n) /\ Holders(r, n) \subseteq Students
  BY DEF Holders
<1> QED BY <1>2, <1>3, <1>4, <1>5 DEF Kept, Here

(* A number that a request passes without a failing statement is kept.         *)
LEMMA PassedIsKept ==
    ASSUME TypeOK, RowsAge, FoundHolds, NEW r \in Enrols, NEW n, n = Number(r), Begun(r),
           (LookUp(r) /\ Unknown(r)) \/ (Find(r) /\ pc'[r] # "insert") \/ Create(r)
    PROVE  Kept(r, n)'
<1>1. UNCHANGED <<row, asks, snap>>
  BY DEF LookUp, Find, Create
<1>2. SUFFICES ASSUME NEW s \in Holders(r, n),
                      Here(asks[r]), snap[r][s] = "here", Here(s)
               PROVE  \E x \in Holders(r, n) : \/ <<asks[r], x>> \in EverEnrolled'
                                               \/ snap[r][x] # "gone" /\ Gone(x)
  BY <1>1 DEF Kept, Here, Gone, Holders
<1>3. CASE LookUp(r) /\ Unknown(r)
  BY <1>2, <1>3 DEF Unknown, Found
<1>4. CASE Find(r) /\ pc'[r] # "insert"
  <2>1. pc[r] = "find" /\ Pair(r) \in enrolled /\ UNCHANGED <<enrolled, dropped>>
    BY <1>4 DEF Find, TypeOK
  <2> QED BY <2>1 DEF FoundHolds, Pair, EverEnrolled
<1>5. CASE Create(r)
  <2>1. /\ pc[r] = "insert" /\ who[r] \in Holders(r, n) /\ who[r] \in Rows
        /\ row[who[r]] # "new" /\ snap[r][who[r]] # "gone"
    BY <1>5 DEF Create, FoundHolds, Holders, Rows
  <2>2. CASE Pair(r) \in enrolled'
    BY <2>1, <2>2 DEF Pair, EverEnrolled
  <2>3. CASE Pair(r) \notin enrolled'
    <3>1. ~Admissible(r) /\ Pair(r) \notin enrolled
      BY <1>5, <2>3 DEF Create
    <3>2. Gone(who[r])
      BY <1>2, <2>1, <3>1 DEF Admissible, Here, Gone, TypeOK, RowStates
    <3> QED BY <2>1, <3>2
  <2> QED BY <2>2, <2>3
<1> QED BY <1>3, <1>4, <1>5

LEMMA KeptSoFarStep ==
    TypeOK /\ RowsAge /\ FoundHolds /\ KeptSoFar /\ [Next]_vars => KeptSoFar'
<1> SUFFICES ASSUME TypeOK, RowsAge, FoundHolds, KeptSoFar, [Next]_vars,
                    NEW r \in Enrols \ hurt', Begun(r)',
                    NEW i \in 1..Len(List[r]), i < next'[r]
             PROVE  Kept(r, List[r][i])'
  BY DEF KeptSoFar
<1>1. ASSUME Begun(r), r \notin hurt, asks'[r] = asks[r], snap'[r] = snap[r], i < next[r]
      PROVE  Kept(r, List[r][i])'
  <2> DEFINE n == List[r][i]
  <2>1. Kept(r, n)
    BY <1>1 DEF KeptSoFar
  <2> HIDE DEF n
  <2>2. Kept(r, n)'
    BY <1>1, <2>1, KeptStays
  <2> QED BY <2>2 DEF n
<1>2. CASE UNCHANGED enrol
  BY <1>1, <1>2 DEF enrol, Begun
<1>3. ASSUME NEW x \in Enrols, Enrolling(x), x # r
      PROVE  Kept(r, List[r][i])'
  <2> USE <1>3 DEF NextNumber, TypeOK, Begun
  <2>1. CASE \E c \in Courses : Enroll(x, c)
    BY <1>1, <2>1 DEF Enroll
  <2>2. CASE LookUp(x) \/ Find(x)
    BY <1>1, <2>2 DEF LookUp, Unknown, Known, Find
  <2>3. CASE Create(x) \/ Finish(x)
    BY <1>1, <2>3 DEF Create, Finish
  <2>4. CASE Fault(x) \/ Die(x)
    BY <1>1, <2>4 DEF Fault, Die
  <2> QED BY <2>1, <2>2, <2>3, <2>4 DEF Enrolling
<1>4. CASE Enrolling(r)
  <2>1. CASE \E c \in Courses : Enroll(r, c)
    BY <2>1 DEF Enroll, TypeOK
  <2>2. CASE Die(r)
    BY <2>2 DEF Die, Begun, TypeOK
  <2>3. CASE Fault(r)
    BY <2>3 DEF Fault
  <2>4. CASE Finish(r)
    BY <1>1, <2>4 DEF Finish, Begun
  <2>5. CASE (LookUp(r) /\ Known(r)) \/ (Find(r) /\ pc'[r] = "insert")
    <3>1. next'[r] = next[r] /\ UNCHANGED <<asks, snap, hurt>> /\ Begun(r)
      BY <2>5 DEF LookUp, Known, Find, NextNumber, Begun, TypeOK
    <3> QED BY <1>1, <3>1
  <2>6. CASE (LookUp(r) /\ Unknown(r)) \/ (Find(r) /\ pc'[r] # "insert") \/ Create(r)
    <3>1. /\ next'[r] = next[r] + 1 /\ next[r] \in Nat
          /\ UNCHANGED <<asks, snap, hurt>> /\ Begun(r)
      BY <2>6 DEF LookUp, Unknown, Find, Create, NextNumber, Begun, TypeOK
    <3>2. CASE i < next[r]
      BY <1>1, <3>1, <3>2
    <3>3. CASE i = next[r]
      <4> DEFINE n == List[r][i]
      <4>1. n = Number(r)
        BY <3>3 DEF Number
      <4> HIDE DEF n
      <4>2. Kept(r, n)'
        BY <2>6, <3>1, <4>1, PassedIsKept
      <4> QED BY <4>2 DEF n
    <3> QED BY <3>1, <3>2, <3>3
  <2> QED BY <1>4, <2>1, <2>2, <2>3, <2>4, <2>5, <2>6 DEF Enrolling, LookUp
<1> QED BY <1>2, <1>3, <1>4, EnrolStep

-----------------------------------------------------------------------------
LEMMA InitInvariant == Init => IInv
<1> SUFFICES ASSUME Init
             PROVE  IInv
  OBVIOUS
<1> USE DEF Init
<1>1. TypeOK
  BY DEF TypeOK, RowStates, Begun, Now, Rows
<1>2. RowsAge /\ FoundHolds /\ OwnCourse /\ KeptSoFar
  BY DEF RowsAge, FoundHolds, OwnCourse, KeptSoFar, Begun
<1>3. EnrolledInSchool /\ StartsEnrolled /\ AttemptInSchool
  BY DEF EnrolledInSchool, EverEnrolled, StartsEnrolled, AttemptInSchool
<1> QED BY <1>1, <1>2, <1>3 DEF IInv

LEMMA StepInvariant == IInv /\ [Next]_vars => IInv'
  BY TypeStep, RowsAgeStep, FoundHoldsStep, OwnCourseStep, EnrolledInSchoolStep,
     StartsEnrolledStep, AttemptInSchoolStep, KeptSoFarStep DEF IInv

(* The inductive invariant: the rows that a request or a start has read can    *)
(* only have aged since, enrolments stay within a school, and the numbers a    *)
(* request has passed are kept.                                                *)
THEOREM EnrolmentInvariant == Spec => []IInv
  BY InitInvariant, StepInvariant, PTL DEF Spec

(* Whatever school the course of an exam is of, an attempt is at an exam of    *)
(* the student's school in a course of that school.                            *)
THEOREM AttemptsStayInSchool == Spec => []AttemptInSchool
<1>1. IInv => AttemptInSchool
  BY DEF IInv
<1> QED BY <1>1, EnrolmentInvariant, PTL

(* A request to enrol that ends unhurt has kept every number on its list,      *)
(* however many requests, unenrolments and deletions run beside it.            *)
THEOREM EnrollKeepsItsPromise == Spec => []Promised
<1>1. IInv => Promised
  <2> SUFFICES ASSUME IInv, NEW r \in Enrols \ hurt, pc[r] = "done",
                      NEW i \in 1..Len(List[r])
               PROVE  Kept(r, List[r][i])
    BY DEF Promised
  <2>1. Begun(r) /\ i < next[r]
    BY DEF IInv, TypeOK, Begun, More
  <2> QED BY <2>1 DEF IInv, KeptSoFar
<1> QED BY <1>1, EnrolmentInvariant, PTL
=============================================================================
