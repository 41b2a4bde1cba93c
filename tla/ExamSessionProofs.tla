-------------------------- MODULE ExamSessionProofs --------------------------
(***************************************************************************)
(* IInv is inductive: one lemma per action that touches an attempt or an   *)
(* answer or begins a request, one step per conjunct. The argument rests   *)
(* on BeforeOver: who is over acts no more, so whatever a start or a save  *)
(* did not see when it looked, and whoever replaces an acknowledged text,  *)
(* was not over when the request in question began.                        *)
(***************************************************************************)
EXTENDS ExamSession, TLAPS

\* A start that has begun knows which requests are over; it has no row yet.
LEMMA StartExamKeeps ==
    ASSUME IInv, NEW r \in Starts, StartExam(r)
    PROVE  IInv'
<1> USE ExamSessionAssumption DEF StartExam, Begins, exam, attempts, request
<1>1. TypeOK'
    BY DEF IInv, TypeOK, ExamStatus, Exists, Over, Row, Written, AnswerRows,
           Requests
<1>2. BeforeOver'
    BY DEF IInv, TypeOK, BeforeOver, Over, Requests
<1>3. LookedBefore'
    BY DEF IInv, TypeOK, LookedBefore, BeforeOver, Over, Exists, NotStarted,
           Requests
<1>4. InsertsFirst'
    BY DEF IInv, TypeOK, InsertsFirst, BeforeOver, RowsMatch, AnswerRows,
           SameAnswer, Row, Over, Requests
<1>5. RowsMatch'
    BY DEF IInv, TypeOK, RowsMatch, AnswerRows, SameAnswer, Row, Over, Requests
<1>6. KnownSaved'
    BY DEF IInv, TypeOK, KnownSaved, Over, Requests
<1>7. SavedKept'
    BY DEF IInv, TypeOK, SavedKept, BeforeOver, RowsMatch, InsertsFirst,
           AnswerRows, SameAnswer, Row, Over, Requests
<1>8. SavedIsGraded'
    BY DEF IInv, TypeOK, SavedIsGraded, BeforeOver, SavedKept, KnownSaved,
           RowsMatch, SameAnswer, Row, Written, Over, Requests
<1> QED BY <1>1, <1>2, <1>3, <1>4, <1>5, <1>6, <1>7, <1>8 DEF IInv

\* The INSERT.  A start that looked earlier has this one not in its `before`, for
\* what is over does not insert.
LEMMA StartInsertKeeps ==
    ASSUME IInv, NEW r \in Starts, StartInsert(r)
    PROVE  IInv'
<1> USE ExamSessionAssumption DEF StartInsert, GoesOn, exam, attempts, request
<1>1. TypeOK'
    BY DEF IInv, TypeOK, ExamStatus, Exists, Over, Row, Written, AnswerRows,
           Requests
<1>2. BeforeOver'
    BY DEF IInv, TypeOK, BeforeOver, Over, Requests
<1>3. LookedBefore'
    BY DEF IInv, TypeOK, LookedBefore, BeforeOver, Over, Exists, NotStarted,
           Requests
<1>4. InsertsFirst'
    BY DEF IInv, TypeOK, InsertsFirst, BeforeOver, RowsMatch, AnswerRows,
           SameAnswer, Row, Over, Requests
<1>5. RowsMatch'
    BY DEF IInv, TypeOK, RowsMatch, AnswerRows, SameAnswer, Row, Over, Requests
<1>6. KnownSaved'
    BY DEF IInv, TypeOK, KnownSaved, Over, Requests
<1>7. SavedKept'
    BY DEF IInv, TypeOK, SavedKept, BeforeOver, RowsMatch, InsertsFirst,
           AnswerRows, SameAnswer, Row, Over, Requests
<1>8. SavedIsGraded'
    BY DEF IInv, TypeOK, SavedIsGraded, BeforeOver, SavedKept, KnownSaved,
           RowsMatch, SameAnswer, Row, Written, Over, Requests
<1> QED BY <1>1, <1>2, <1>3, <1>4, <1>5, <1>6, <1>7, <1>8 DEF IInv

\* A save that begins picks its attempt; no row is its own yet, so the rows keep
\* their keys.
LEMMA SaveAnswerKeeps ==
    ASSUME IInv, NEW s \in Saves, NEW r \in Starts, SaveAnswer(s, r)
    PROVE  IInv'
<1> USE ExamSessionAssumption DEF SaveAnswer, Begins, exam, attempts, request
<1>1. TypeOK'
    BY DEF IInv, TypeOK, ExamStatus, Exists, Over, Row, Written, AnswerRows,
           Requests
<1>2. BeforeOver'
    BY DEF IInv, TypeOK, BeforeOver, Over, Requests
<1>3. LookedBefore'
    BY DEF IInv, TypeOK, LookedBefore, BeforeOver, Over, Exists, NotStarted,
           Requests
<1>4. InsertsFirst'
    BY DEF IInv, TypeOK, InsertsFirst, BeforeOver, RowsMatch, AnswerRows,
           SameAnswer, Row, Over, Requests
<1>5. RowsMatch'
    BY DEF IInv, TypeOK, RowsMatch, AnswerRows, SameAnswer, Row, Over, Requests
<1>6. KnownSaved'
    BY DEF IInv, TypeOK, KnownSaved, Over, Requests
<1>7. SavedKept'
  <2> SUFFICES ASSUME NEW z \in Saves, pc'[z] = "saved"
               PROVE  \E x \in Saves : Row(x)' /\ SameAnswer(z, x)' /\ code'[x] \notin before'[z]
    BY DEF SavedKept
  <2>1. z # s /\ pc[z] = "saved" /\ before'[z] = before[z] /\ pc[s] = "idle"
    BY DEF IInv, TypeOK, Requests
  <2>2. PICK x \in Saves : Row(x) /\ SameAnswer(z, x) /\ code[x] \notin before[z]
    BY <2>1 DEF IInv, SavedKept
  <2>3. x # s
    BY <2>1, <2>2 DEF IInv, RowsMatch
  <2> QED
    BY <2>1, <2>2, <2>3 DEF IInv, TypeOK, Row, SameAnswer
<1>8. SavedIsGraded'
    BY DEF IInv, TypeOK, SavedIsGraded, BeforeOver, SavedKept, KnownSaved,
           RowsMatch, SameAnswer, Row, Written, Over, Requests
<1> QED BY <1>1, <1>2, <1>3, <1>4, <1>5, <1>6, <1>7, <1>8 DEF IInv

\* The row that is found is one for the save's own question; if none is found
\* there is none.
LEMMA SaveFindKeeps ==
    ASSUME IInv, NEW s \in Saves, SaveFind(s)
    PROVE  IInv'
<1> USE ExamSessionAssumption DEF SaveFind, GoesOn, exam, attempts, request
<1>1. TypeOK'
    BY DEF IInv, TypeOK, ExamStatus, Exists, Over, Row, Written, AnswerRows,
           Requests
<1>2. BeforeOver'
    BY DEF IInv, TypeOK, BeforeOver, Over, Requests
<1>3. LookedBefore'
    BY DEF IInv, TypeOK, LookedBefore, BeforeOver, Over, Exists, NotStarted,
           Requests
<1>4. InsertsFirst'
    BY DEF IInv, TypeOK, InsertsFirst, BeforeOver, RowsMatch, AnswerRows,
           SameAnswer, Row, Over, Requests
<1>5. RowsMatch'
  <2>1. ASSUME NEW z \in Saves, pc'[z] = "write", found'[z] # NoSave
        PROVE  found'[z] \in AnswerRows(z)'
    <3>1. CASE z = s
      <4>1. found[s] = NoSave /\ found'[s] \in AnswerRows(s)
        BY <2>1, <3>1 DEF IInv, TypeOK, Requests
      <4> QED
        BY <3>1, <4>1 DEF IInv, TypeOK, RowsMatch, AnswerRows, SameAnswer, Row,
               Requests
    <3>2. CASE z # s
      <4>1. pc[z] = "write" /\ found[z] = found'[z] /\ found[z] \in AnswerRows(z)
        BY <2>1, <3>2 DEF IInv, TypeOK, RowsMatch, Requests
      <4> QED
        BY <4>1 DEF AnswerRows, SameAnswer, Row
    <3> QED
      BY <3>1, <3>2
  <2>2. ASSUME NEW z \in Saves, Row(z)'
        PROVE  pc'[z] = "saved" /\ pc'[code'[z]] = "saved" /\ SameAnswer(z, code[z])'
    BY <2>2 DEF IInv, TypeOK, RowsMatch, SameAnswer, Row, Requests
  <2> QED
    BY <2>1, <2>2 DEF RowsMatch
<1>6. KnownSaved'
    BY DEF IInv, TypeOK, KnownSaved, Over, Requests
<1>7. SavedKept'
    BY DEF IInv, TypeOK, SavedKept, BeforeOver, RowsMatch, InsertsFirst,
           AnswerRows, SameAnswer, Row, Over, Requests
<1>8. SavedIsGraded'
    BY DEF IInv, TypeOK, SavedIsGraded, BeforeOver, SavedKept, KnownSaved,
           RowsMatch, SameAnswer, Row, Written, Over, Requests
<1> QED BY <1>1, <1>2, <1>3, <1>4, <1>5, <1>6, <1>7, <1>8 DEF IInv

\* The write, of a new row or of the one found.  Whatever row it takes, its text
\* is then that of a save under way, which no acknowledged save has in `before`.
LEMMA SaveWriteKeeps ==
    ASSUME IInv, NEW s \in Saves, SaveWrite(s)
    PROVE  IInv'
<1> USE ExamSessionAssumption DEF SaveWrite, GoesOn, WrittenRow, exam, attempts, request
<1>1. TypeOK'
    BY DEF IInv, TypeOK, ExamStatus, Exists, Over, Row, Written, AnswerRows,
           Requests
<1>2. BeforeOver'
    BY DEF IInv, TypeOK, BeforeOver, Over, Requests
<1>3. LookedBefore'
    BY DEF IInv, TypeOK, LookedBefore, BeforeOver, Over, Exists, NotStarted,
           Requests
<1>4. InsertsFirst'
  <2> SUFFICES ASSUME NEW z \in Saves,
                      (pc'[z] = "write" /\ found'[z] = NoSave) \/ Row(z)',
                      NEW x \in Saves, Row(x)', SameAnswer(z, x)'
               PROVE  x \notin before[z]
    BY DEF InsertsFirst, AnswerRows
  <2>1. SameAnswer(z, x) /\ pc[s] = "write" /\ s \notin before[z]
    BY DEF IInv, TypeOK, SameAnswer, BeforeOver, Over, Requests
  <2>2. Row(x) \/ x = s
    BY DEF IInv, TypeOK, RowsMatch, AnswerRows, Row
  <2>3. (pc[z] = "write" /\ found[z] = NoSave) \/ Row(z)
    BY DEF IInv, TypeOK, RowsMatch, AnswerRows, Row, Requests
  <2> QED
    BY <2>1, <2>2, <2>3 DEF IInv, InsertsFirst, AnswerRows
<1>5. RowsMatch'
    BY DEF IInv, TypeOK, RowsMatch, AnswerRows, SameAnswer, Row, Over, Requests
<1>6. KnownSaved'
    BY DEF IInv, TypeOK, KnownSaved, Over, Requests
<1>7. SavedKept'
    BY DEF IInv, TypeOK, SavedKept, BeforeOver, RowsMatch, InsertsFirst,
           AnswerRows, SameAnswer, Row, Over, Requests
<1>8. SavedIsGraded'
    BY DEF IInv, TypeOK, SavedIsGraded, BeforeOver, SavedKept, KnownSaved,
           RowsMatch, SameAnswer, Row, Written, Over, Requests
<1> QED BY <1>1, <1>2, <1>3, <1>4, <1>5, <1>6, <1>7, <1>8 DEF IInv

\* A request that passes a check, fails to look, or ends without an effect.  A
\* start that goes on to its INSERT has found no attempt, or is `blind`.
LEMMA MovesKeep ==
    ASSUME IInv, NEW r \in Requests, NEW to \in {"existing", "insert", "find", "refused"},
           pc[r] \in {"enrolment", "existing", "deadline"} \/ (to = "refused" /\ pc[r] # "idle"),
           ~Over(r),
           pc' = [pc EXCEPT ![r] = to],
           UNCHANGED <<exam, attempts, target, found, before, code, edit, chosen>>,
           faults' \in 0..MaxFaults,
           blind \subseteq blind', blind' \subseteq Starts,
           to = "insert" => r \in Starts /\ (NotStarted(r) \/ r \in blind')
    PROVE  IInv'
<1> USE ExamSessionAssumption DEF exam, attempts
<1>1. TypeOK'
    BY DEF IInv, TypeOK, ExamStatus, Exists, Over, Row, Written, AnswerRows,
           Requests
<1>2. BeforeOver'
    BY DEF IInv, TypeOK, BeforeOver, Over, Requests
<1>3. LookedBefore'
    BY DEF IInv, TypeOK, LookedBefore, BeforeOver, Over, Exists, NotStarted,
           Requests
<1>4. InsertsFirst'
    BY DEF IInv, TypeOK, InsertsFirst, BeforeOver, RowsMatch, AnswerRows,
           SameAnswer, Row, Over, Requests
<1>5. RowsMatch'
    BY DEF IInv, TypeOK, RowsMatch, AnswerRows, SameAnswer, Row, Over, Requests
<1>6. KnownSaved'
    BY DEF IInv, TypeOK, KnownSaved, Over, Requests
<1>7. SavedKept'
    BY DEF IInv, TypeOK, SavedKept, BeforeOver, RowsMatch, InsertsFirst,
           AnswerRows, SameAnswer, Row, Over, Requests
<1>8. SavedIsGraded'
    BY DEF IInv, TypeOK, SavedIsGraded, BeforeOver, SavedKept, KnownSaved,
           RowsMatch, SameAnswer, Row, Written, Over, Requests
<1> QED BY <1>1, <1>2, <1>3, <1>4, <1>5, <1>6, <1>7, <1>8 DEF IInv

\* Closing notes what has been acknowledged.
LEMMA CloseKeeps ==
    ASSUME IInv, NEW r \in Starts, Close(r)
    PROVE  IInv'
<1> USE ExamSessionAssumption DEF Close, exam, attempts, request
<1>1. TypeOK'
    BY DEF IInv, TypeOK, ExamStatus, Exists, Over, Row, Written, AnswerRows,
           Requests
<1>2. BeforeOver'
    BY DEF IInv, TypeOK, BeforeOver, Over, Requests
<1>3. LookedBefore'
    BY DEF IInv, TypeOK, LookedBefore, BeforeOver, Over, Exists, NotStarted,
           Requests
<1>4. InsertsFirst'
    BY DEF IInv, TypeOK, InsertsFirst, BeforeOver, RowsMatch, AnswerRows,
           SameAnswer, Row, Over, Requests
<1>5. RowsMatch'
    BY DEF IInv, TypeOK, RowsMatch, AnswerRows, SameAnswer, Row, Over, Requests
<1>6. KnownSaved'
    BY DEF IInv, TypeOK, KnownSaved, Over, Requests
<1>7. SavedKept'
    BY DEF IInv, TypeOK, SavedKept, BeforeOver, RowsMatch, InsertsFirst,
           AnswerRows, SameAnswer, Row, Over, Requests
<1>8. SavedIsGraded'
    BY DEF IInv, TypeOK, SavedIsGraded, BeforeOver, SavedKept, KnownSaved,
           RowsMatch, SameAnswer, Row, Written, Over, Requests
<1> QED BY <1>1, <1>2, <1>3, <1>4, <1>5, <1>6, <1>7, <1>8 DEF IInv

\* Grading reads the rows: SavedKept says what it will find.
LEMMA MarkKeeps ==
    ASSUME IInv, NEW r \in Starts, Mark(r)
    PROVE  IInv'
<1> USE ExamSessionAssumption DEF Mark, exam, attempts, request
<1>1. TypeOK'
    BY DEF IInv, TypeOK, ExamStatus, Exists, Over, Row, Written, AnswerRows,
           Requests
<1>2. BeforeOver'
    BY DEF IInv, TypeOK, BeforeOver, Over, Requests
<1>3. LookedBefore'
    BY DEF IInv, TypeOK, LookedBefore, BeforeOver, Over, Exists, NotStarted,
           Requests
<1>4. InsertsFirst'
    BY DEF IInv, TypeOK, InsertsFirst, BeforeOver, RowsMatch, AnswerRows,
           SameAnswer, Row, Over, Requests
<1>5. RowsMatch'
    BY DEF IInv, TypeOK, RowsMatch, AnswerRows, SameAnswer, Row, Over, Requests
<1>6. KnownSaved'
    BY DEF IInv, TypeOK, KnownSaved, Over, Requests
<1>7. SavedKept'
    BY DEF IInv, TypeOK, SavedKept, BeforeOver, RowsMatch, InsertsFirst,
           AnswerRows, SameAnswer, Row, Over, Requests
<1>8. SavedIsGraded'
    BY DEF IInv, TypeOK, SavedIsGraded, BeforeOver, SavedKept, KnownSaved,
           RowsMatch, SameAnswer, Row, Written, Over, Requests
<1> QED BY <1>1, <1>2, <1>3, <1>4, <1>5, <1>6, <1>7, <1>8 DEF IInv

\* The lecturer, the clock and enrolment change what new requests may do, and
\* nothing that IInv relates.
LEMMA OthersKeep ==
    ASSUME IInv, UNCHANGED <<attempts, request, code, faults>>,
           examStatus' \in ExamStatus, minutes' \in Int, enrolled' \in SUBSET Students,
           now' \in 0..MaxNow, edit' \in [Edits -> {"idle", "edit", "move"}],
           chosen' \in [Edits -> ExamStatus]
    PROVE  IInv'
<1> USE DEF attempts, request
<1>1. TypeOK'
    BY DEF IInv, TypeOK, Exists
<1>2. BeforeOver' /\ LookedBefore' /\ KnownSaved' /\ SavedIsGraded'
    BY DEF IInv, BeforeOver, LookedBefore, KnownSaved, SavedIsGraded, Over, Exists
<1>3. InsertsFirst' /\ RowsMatch' /\ SavedKept'
    BY DEF IInv, InsertsFirst, RowsMatch, SavedKept, AnswerRows, SameAnswer, Row
<1> QED BY <1>1, <1>2, <1>3 DEF IInv

\* Before the first request.
LEMMA InitIInv == Init => IInv
<1> SUFFICES ASSUME Init PROVE IInv
    OBVIOUS
<1> USE ExamSessionAssumption DEF Init
<1>1. TypeOK
    BY DEF TypeOK, ExamStatus, Exists, Requests
<1>2. BeforeOver /\ LookedBefore /\ KnownSaved /\ SavedIsGraded
    BY DEF BeforeOver, LookedBefore, KnownSaved, SavedIsGraded, Requests
<1>3. InsertsFirst /\ RowsMatch /\ SavedKept
    BY DEF InsertsFirst, RowsMatch, SavedKept, Row, Requests
<1> QED BY <1>1, <1>2, <1>3 DEF IInv

\* And no step breaks it.
LEMMA StepIInv == IInv /\ [Next]_vars => IInv'
<1> SUFFICES ASSUME IInv, [Next]_vars PROVE IInv'
    OBVIOUS
<1>1. CASE Tick \/ (\E e \in Edits : Lecturer(e)) \/ (\E st \in Students : Enroll(st) \/ Unenroll(st))
  <2> USE ExamSessionAssumption DEF IInv, TypeOK, ExamStatus, exam
  <2>1. CASE Tick
    BY <2>1, OthersKeep DEF Tick
  <2>2. ASSUME NEW e \in Edits, Lecturer(e) PROVE IInv'
    <3>1. CASE EditRead(e)
      BY <3>1, OthersKeep DEF EditRead
    <3>2. CASE EditWrite(e)
      BY <3>2, OthersKeep DEF EditWrite
    <3>3. CASE MoveRead(e)
      BY <3>3, OthersKeep DEF MoveRead, validTransitions
    <3>4. CASE MoveWrite(e)
      BY <3>4, OthersKeep DEF MoveWrite
    <3> QED BY <2>2, <3>1, <3>2, <3>3, <3>4 DEF Lecturer
  <2>3. ASSUME NEW st \in Students, Enroll(st) \/ Unenroll(st) PROVE IInv'
    BY <2>3, OthersKeep DEF Enroll, Unenroll
  <2> QED BY <1>1, <2>1, <2>2, <2>3
<1>2. ASSUME NEW r \in Requests, Refuse(r) PROVE IInv'
  BY <1>2, MovesKeep DEF Refuse, IInv, TypeOK
<1>3. ASSUME NEW r \in Starts, Start(r) \/ Close(r) \/ Mark(r) PROVE IInv'
  <2>1. r \in Requests
    BY DEF Requests
  <2>2. CASE StartEnrolled(r)
    BY <2>1, <2>2, MovesKeep DEF StartEnrolled, GoesOn, Over, IInv, TypeOK
  <2>3. CASE StartExisting(r)
    <3>1. faults' \in 0..MaxFaults /\ blind \subseteq blind' /\ blind' \subseteq Starts
      BY <2>3, ExamSessionAssumption DEF StartExisting, Fault, IInv, TypeOK
    <3>2. NotStarted(r) \/ r \in blind'
      BY <2>3 DEF StartExisting
    <3> QED
      BY <2>1, <2>3, <3>1, <3>2, MovesKeep DEF StartExisting, GoesOn, Over
  <2> QED
    BY <1>2, <1>3, <2>1, <2>2, <2>3, StartExamKeeps, StartInsertKeeps, CloseKeeps, MarkKeeps DEF Start
<1>4. ASSUME NEW s \in Saves, Save(s) PROVE IInv'
  <2>1. s \in Requests
    BY DEF Requests
  <2>2. CASE SaveInTime(s)
    <3>1. faults' \in 0..MaxFaults
      BY <2>2, ExamSessionAssumption DEF SaveInTime, Fault, IInv, TypeOK
    <3> QED
      BY <2>1, <2>2, <3>1, MovesKeep DEF SaveInTime, GoesOn, Over, IInv, TypeOK
  <2> QED
    BY <1>2, <1>4, <2>1, <2>2, SaveAnswerKeeps, SaveFindKeeps, SaveWriteKeeps DEF Save
<1>5. CASE UNCHANGED vars
  BY <1>5, OthersKeep DEF vars, exam, IInv, TypeOK
<1> QED
  BY <1>1, <1>3, <1>4, <1>5 DEF Next

\* IInv holds in every reachable state, for any number of requests.
THEOREM Invariance == Spec => []IInv
<1> QED BY InitIInv, StepIInv, PTL DEF Spec

\* Types; an attempt exists exactly when its start was carried out.  (StartExam.)
THEOREM TypeCorrect == Spec => []TypeOK
<1>1. IInv => TypeOK
  BY DEF IInv
<1> QED BY <1>1, Invariance, PTL

\* A student's second attempt takes two starts at the same time or a failed
\* look.  (StartExam.)
THEOREM NoSecondAttempt == Spec => []AttemptsOverlap
<1>1. IInv => AttemptsOverlap
  BY DEF IInv, TypeOK, LookedBefore, AttemptsOverlap, Requests
<1> QED BY <1>1, Invariance, PTL

\* A question's second answer row takes two saves at the same time. (SaveAnswer.)
THEOREM NoSecondRow == Spec => []AnswersOverlap
<1>1. IInv => AnswersOverlap
  BY DEF IInv, InsertsFirst, AnswersOverlap, AnswerRows
<1> QED BY <1>1, Invariance, PTL

\* What was acknowledged is kept until a save not yet over then replaces it.
\* (SaveAnswer.)
THEOREM NothingLost == Spec => []SavedKept
<1>1. IInv => SavedKept
  BY DEF IInv
<1> QED BY <1>1, Invariance, PTL

\* ... and is what every grading of the closed attempt reads.  (SaveAnswer,
\* GradeSubmission.)
THEOREM NothingUngraded == Spec => []SavedIsGraded
<1>1. IInv => SavedIsGraded
  BY DEF IInv
<1> QED BY <1>1, Invariance, PTL
=============================================================================
