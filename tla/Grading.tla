------------------------------- MODULE Grading -------------------------------
(***************************************************************************)
(* The scores of one submission, from StartExam on: GradeSubmission, which *)
(* may run several times and at the same time (retries, timeouts,          *)
(* duplicate dispatches: see Submission), OverrideAnswerScore, with which  *)
(* a lecturer corrects a score, and the edits of questions and test cases, *)
(* which nothing keeps from happening at the same time                     *)
(* (internal/submission/service.go, internal/exam/service.go).             *)
(*                                                                         *)
(* A grading run adds up in memory what it awards and writes the sum at    *)
(* the end; an override writes one score, reads the SUM back and writes    *)
(* that.  No two of these statements are in one transaction.  A save that  *)
(* passed its checks before the exam was closed may insert its answer      *)
(* after it (see ExamSession), hence at any time; and it may be an answer  *)
(* to another exam's question: nothing compares the two exams, so the      *)
(* answer is graded and counted, although max_score does not know of it.   *)
(***************************************************************************)
EXTENDS Integers, FiniteSets, Functions

CONSTANTS
    Questions,      \* rows of the questions table, existing or to come
    Asked,          \* those of this exam; the others are other exams'
    InitialPoints,  \* when the student starts: what the questions there are
    InitialTests,   \*   are worth, and how many test cases they have
    Answers,        \* rows of submission_answers, likewise
    Question,       \* Question[a]: what a answers; two racing first saves
                    \*   insert two answers to one question
    Worths,         \* the points a lecturer may give a question,
    Typed,          \*   and the scores one may give an answer
    Graders,        \* executions of GradeSubmission
    Lecturers,      \* concurrent override requests
    MaxAnswers,     \* bound: answers the submission gets, of those
    MaxTests,       \* bound: test cases of a question
    MaxEdits,       \* bound: edits of the exam considered
    MaxFaults,      \* bound: failing statements considered
    NoAnswer

ASSUME GradingAssumption ==
    /\ IsFiniteSet(Questions) /\ IsFiniteSet(Answers)
    /\ Asked \subseteq Questions /\ DOMAIN InitialPoints \subseteq Questions
    /\ InitialPoints \in [DOMAIN InitialPoints -> Int]
    /\ InitialTests \in [DOMAIN InitialPoints -> Nat]
    /\ Question \in [Answers -> Questions]
    /\ Worths \subseteq Int /\ Typed \subseteq Int
    /\ MaxAnswers \in Nat /\ MaxTests \in Nat /\ MaxEdits \in Nat /\ MaxFaults \in Nat
    /\ NoAnswer \notin Answers

VARIABLES
    questions,   \* the questions there are,
    points,      \*   their points (0 while there is no such question)
    tests,       \*   and how many test_cases they have
    answers,     \* the answers the submission has,
    score,       \*   submission_answers.score
    unjudged,    \*   tests in submission_answers.test_results with no verdict
    graded,      \* submissions.status = 'graded'
    total,       \* submissions.total_score
    maxScore,    \* submissions.max_score
    phase,       \* where each grading run is,
    left,        \*   the answers it has not come to,
    at,          \*   the answer it is at,
    read,        \*   the test cases and points it has read for it,
    sum,         \*   what it has awarded so far
    step,        \* where each override is,
    target,      \*   its answer,
    value,       \*   the score, later the total, it holds
    edits, faults,
    ever,        \* history: every number of points a question was worth,
    alone,       \*   the last activity to begin overlaps no other and no
                 \*   statement of it failed,
    fresh,       \*   it is a grading run, and the exam is as it was then;
    raised       \*   the exam was given a question, or one of its own more points

exam   == <<questions, points, tests, ever, raised>>
rows   == <<score, unjudged>>
result == <<graded, total, maxScore>>
run    == <<phase, left, at, read, sum>>
edit   == <<step, target, value>>
marks  == <<edits, faults, alone, fresh>>
vars   == <<exam, answers, rows, result, run, edit, marks>>

\* SELECT COALESCE(SUM(points), 0); its error is dropped, the zero value stays.
CalcMaxScore == SumFunctionOnSet(points, Asked)

Init ==
    /\ questions = DOMAIN InitialPoints
    /\ points = [q \in Questions |-> IF q \in questions THEN InitialPoints[q] ELSE 0]
    /\ tests  = [q \in Questions |-> IF q \in questions THEN InitialTests[q] ELSE 0]
    /\ answers  = {}
    /\ score    = [a \in Answers |-> 0]
    /\ unjudged = [a \in Answers |-> 0]
    /\ graded   = FALSE
    /\ total    = 0
    /\ \/ maxScore = CalcMaxScore /\ faults = 0
       \/ maxScore = 0 /\ faults = 1 /\ MaxFaults > 0
    /\ phase    = [g \in Graders |-> "idle"]
    /\ left     = [g \in Graders |-> {}]
    /\ at       = [g \in Graders |-> NoAnswer]
    /\ read     = [g \in Graders |-> [tests |-> 0, points |-> 0]]
    /\ sum      = [g \in Graders |-> 0]
    /\ step     = [l \in Lecturers |-> "idle"]
    /\ target   = [l \in Lecturers |-> NoAnswer]
    /\ value    = [l \in Lecturers |-> 0]
    /\ edits = 0
    /\ ever   = [q \in Questions |-> {points[q]}]
    /\ alone  = TRUE
    /\ fresh  = TRUE
    /\ raised = FALSE

Running(g) == phase[g] # "idle" /\ phase[g] # "ended"

\* Nothing is between its first and its last statement.
Quiet == /\ \A g \in Graders : ~Running(g)
         /\ \A l \in Lecturers : step[l] = "idle"

\* A statement fails; how the code takes it is up to the action.
Fault ==
    /\ faults < MaxFaults /\ faults' = faults + 1
    /\ alone' = FALSE /\ fresh' = FALSE /\ UNCHANGED edits

-----------------------------------------------------------------------------
(* The student.                                                            *)

\* SaveAnswer inserts the row.  The question it references exists, in this exam
\* or in another: the code does not ask.
AnswerSaved(a) ==
    /\ a \notin answers /\ Cardinality(answers) < MaxAnswers
    /\ Question[a] \in questions
    /\ answers' = answers \cup {a}
    /\ UNCHANGED <<exam, rows, result, run, edit, marks>>

-----------------------------------------------------------------------------
(* The lecturers edit their exams, whatever the status.  One statement     *)
(* each: what UpdateQuestion and UpdateTestCase read first does not matter *)
(* to what they write.                                                     *)

Edit ==
    /\ edits < MaxEdits /\ edits' = edits + 1
    /\ fresh' = FALSE
    /\ UNCHANGED <<faults, alone, answers, rows, result, run, edit>>

Worth(q, w) ==
    /\ points' = [points EXCEPT ![q] = w]
    /\ ever'   = [ever   EXCEPT ![q] = @ \cup {w}]

AddQuestion(q, w) ==
    /\ q \notin questions /\ w >= 1
    /\ questions' = questions \cup {q}
    /\ Worth(q, w)
    /\ raised' = (raised \/ q \in Asked)
    /\ Edit /\ UNCHANGED tests

\* The points are not bounded, neither above nor below.
UpdateQuestion(q, w) ==
    /\ q \in questions
    /\ Worth(q, w)
    /\ raised' = (raised \/ (q \in Asked /\ w > points[q]))
    /\ Edit /\ UNCHANGED <<questions, tests>>

\* Its test cases and the answers to it reference a question.
DeleteQuestion(q) ==
    /\ q \in questions /\ tests[q] = 0
    /\ \A a \in answers : Question[a] # q
    /\ questions' = questions \ {q}
    /\ points' = [points EXCEPT ![q] = 0]
    /\ Edit /\ UNCHANGED <<tests, ever, raised>>

\* One or more in one INSERT.
AddTestCases(q) ==
    /\ q \in questions
    /\ \E n \in (tests[q] + 1)..MaxTests : tests' = [tests EXCEPT ![q] = n]
    /\ Edit /\ UNCHANGED <<questions, points, ever, raised>>

\* Which answers pass it may change.
UpdateTestCase(q) ==
    /\ tests[q] > 0
    /\ Edit /\ UNCHANGED exam

DeleteTestCase(q) ==
    /\ tests[q] > 0
    /\ tests' = [tests EXCEPT ![q] = @ - 1]
    /\ Edit /\ UNCHANGED <<questions, points, ever, raised>>

-----------------------------------------------------------------------------
(* GradeSubmission.                                                        *)

\* Division of Go: towards zero, by a positive number.
Quotient(x, n) == IF x >= 0 THEN x \div n ELSE -((-x) \div n)

\* Mutant: rounded up where the code rounds down.
PointsRoundedUp(passed, n, worth) ==
    IF n > 0 THEN Quotient(passed * worth, n) + 1 ELSE 0

\* Partial scoring, in integer arithmetic, of an answer that passed so many of
\* the question's n test cases.
PointsEarned(passed, n, worth) ==
    IF n > 0 THEN Quotient(passed * worth, n) ELSE 0

\* The submission, the exam and the answers are loaded; the status is not
\* looked at.  (If a read fails the run ends with nothing done.)
GradeStart(g) ==
    /\ phase[g] = "idle"
    /\ phase' = [phase EXCEPT ![g] = "next"]
    /\ left'  = [left  EXCEPT ![g] = answers]
    /\ alone' = Quiet /\ fresh' = Quiet
    /\ UNCHANGED <<exam, answers, rows, result, at, read, sum, edit, edits, faults>>

\* The answers in whatever order the database returned them.
GradeTests(g, a) ==
    /\ phase[g] = "next" /\ a \in left[g]
    /\ phase' = [phase EXCEPT ![g] = "question"]
    /\ left'  = [left  EXCEPT ![g] = @ \ {a}]
    /\ at'    = [at    EXCEPT ![g] = a]
    /\ read'  = [read  EXCEPT ![g].tests = tests[Question[a]]]
    /\ UNCHANGED <<exam, answers, rows, result, sum, edit, marks>>

GradeQuestion(g) ==
    /\ phase[g] = "question"
    /\ phase' = [phase EXCEPT ![g] = "answer"]
    /\ read'  = [read  EXCEPT ![g].points = points[Question[at[g]]]]
    /\ UNCHANGED <<exam, answers, rows, result, left, at, sum, edit, marks>>

\* What runAgainstTestCases can report of n test cases.  A test Judge0 refuses,
\* or does not finish in ten polls, is counted with those that failed.
Verdicts(n) == {v \in [passed : 0..n, unjudged : 0..n] : v.passed + v.unjudged <= n}

\* On to the next answer.
Leave(g) ==
    /\ phase' = [phase EXCEPT ![g] = "next"]
    /\ at'    = [at    EXCEPT ![g] = NoAnswer]
    /\ read'  = [read  EXCEPT ![g] = [tests |-> 0, points |-> 0]]

\* Mutant: an answer without test cases is passed over.
ScoredUnlessNoTests(g, earned, v) ==
    /\ score'    = [score    EXCEPT ![at[g]] = IF read[g].tests = 0 THEN @ ELSE earned]
    /\ unjudged' = [unjudged EXCEPT ![at[g]] = v.unjudged]

Scored(g, earned, v) ==
    /\ score'    = [score    EXCEPT ![at[g]] = earned]
    /\ unjudged' = [unjudged EXCEPT ![at[g]] = v.unjudged]

\* The points count whether or not the UPDATE of the answer works: its error is
\* ignored.
GradeAnswer(g) ==
    /\ phase[g] = "answer"
    /\ \E v \in Verdicts(read[g].tests) :
          LET earned == PointsEarned(v.passed, read[g].tests, read[g].points)
          IN  /\ sum' = [sum EXCEPT ![g] = @ + earned]
              /\ \/ Scored(g, earned, v) /\ UNCHANGED marks
                 \/ Fault /\ UNCHANGED rows
    /\ Leave(g)
    /\ UNCHANGED <<exam, answers, result, left, edit>>

\* The test cases or the question cannot be read: `continue`.
SkipAnswer(g) ==
    /\ \/ \E a \in left[g] : phase[g] = "next" /\ left' = [left EXCEPT ![g] = @ \ {a}]
       \/ phase[g] = "question" /\ UNCHANGED left
    /\ Leave(g)
    /\ Fault
    /\ UNCHANGED <<exam, answers, rows, result, sum, edit>>

\* The run is over; nothing it held matters any more.
End(g) ==
    /\ phase' = [phase EXCEPT ![g] = "ended"]
    /\ left'  = [left  EXCEPT ![g] = {}]
    /\ at'    = [at    EXCEPT ![g] = NoAnswer]
    /\ read'  = [read  EXCEPT ![g] = [tests |-> 0, points |-> 0]]
    /\ sum'   = [sum   EXCEPT ![g] = 0]

GradeFinish(g) ==
    /\ phase[g] = "next" /\ left[g] = {}
    /\ graded' = TRUE
    /\ total'  = sum[g]
    /\ End(g)
    /\ UNCHANGED <<exam, answers, rows, maxScore, edit, marks>>

\* The last UPDATE fails, or the worker dies: what was awarded stays awarded.
GradeBreaks(g) ==
    /\ Running(g)
    /\ End(g)
    /\ Fault
    /\ UNCHANGED <<exam, answers, rows, result, edit>>

-----------------------------------------------------------------------------
(* OverrideAnswerScore.                                                    *)

\* Mutant: only the request's own bound, min=0.
AllowedAnyScore(a, newScore) == newScore >= 0

\* What the request binding (min=0) and the check against the question allow.
Allowed(a, newScore) == newScore >= 0 /\ newScore <= points[Question[a]]

\* The reads of the answer and of the submission, and the checks on both.
OverrideCheck(l, a, newScore) ==
    /\ step[l] = "idle" /\ a \in answers
    /\ Allowed(a, newScore)
    /\ step'   = [step   EXCEPT ![l] = "score"]
    /\ target' = [target EXCEPT ![l] = a]
    /\ value'  = [value  EXCEPT ![l] = newScore]
    /\ alone' = Quiet /\ fresh' = FALSE
    /\ UNCHANGED <<exam, answers, rows, result, run, edits, faults>>

\* The request is answered.
Answered(l) ==
    /\ step'   = [step   EXCEPT ![l] = "idle"]
    /\ target' = [target EXCEPT ![l] = NoAnswer]
    /\ value'  = [value  EXCEPT ![l] = 0]

OverrideScore(l) ==
    /\ step[l] = "score"
    /\ \/ /\ score' = [score EXCEPT ![target[l]] = value[l]]
          /\ step'  = [step  EXCEPT ![l] = "sum"]
          /\ UNCHANGED <<target, value, marks>>
       \/ Fault /\ Answered(l) /\ UNCHANGED score
    /\ UNCHANGED <<exam, answers, unjudged, result, run>>

\* (An answer that does not exist has score 0.)
SumOfScores == SumFunction(score)

\* SELECT COALESCE(SUM(score), 0): if it fails the zero value stands.
OverrideSum(l) ==
    /\ step[l] = "sum"
    /\ step' = [step EXCEPT ![l] = "total"]
    /\ \/ value' = [value EXCEPT ![l] = SumOfScores] /\ UNCHANGED marks
       \/ value' = [value EXCEPT ![l] = 0] /\ Fault
    /\ UNCHANGED <<exam, answers, rows, result, run, target>>

\* Mutant: the sum is returned but not saved.
OverrideTotalForgotten(l) ==
    /\ step[l] = "total"
    /\ Answered(l)
    /\ UNCHANGED <<exam, answers, rows, result, run, marks>>

OverrideTotal(l) ==
    /\ step[l] = "total"
    /\ Answered(l)
    /\ \/ total' = value[l] /\ UNCHANGED marks
       \/ Fault /\ UNCHANGED total
    /\ UNCHANGED <<exam, answers, rows, graded, maxScore, run>>

-----------------------------------------------------------------------------
Grade(g) ==
    \/ GradeStart(g) \/ GradeQuestion(g) \/ GradeAnswer(g) \/ SkipAnswer(g)
    \/ GradeFinish(g) \/ GradeBreaks(g)
    \/ \E a \in Answers : GradeTests(g, a)

Override(l) ==
    \/ \E a \in Answers, newScore \in Typed : OverrideCheck(l, a, newScore)
    \/ OverrideScore(l) \/ OverrideSum(l) \/ OverrideTotal(l)

EditQuestion(q) ==
    \/ \E w \in Worths : AddQuestion(q, w) \/ UpdateQuestion(q, w)
    \/ DeleteQuestion(q)
    \/ AddTestCases(q) \/ UpdateTestCase(q) \/ DeleteTestCase(q)

Next ==
    \/ \E a \in Answers : AnswerSaved(a)
    \/ \E q \in Questions : EditQuestion(q)
    \/ \E g \in Graders : Grade(g)
    \/ \E l \in Lecturers : Override(l)

Spec == Init /\ [][Next]_vars

-----------------------------------------------------------------------------
(* Properties.                                                             *)

Between(x, y) == IF x <= y THEN x..y ELSE y..x

\* What an answer to q may be worth: nothing, all of the points of q, now or
\* before, or something in between.
Worthy(q) == UNION {Between(0, w) : w \in ever[q]}

TypeOK ==
    /\ questions \subseteq Questions
    /\ points \in [Questions -> Int]
    /\ tests  \in [Questions -> Nat]
    /\ answers \subseteq Answers
    /\ score    \in [Answers -> Int]
    /\ unjudged \in [Answers -> Nat]
    /\ graded \in BOOLEAN /\ total \in Int /\ maxScore \in Int
    /\ phase \in [Graders -> {"idle", "next", "question", "answer", "ended"}]
    /\ left  \in [Graders -> SUBSET Answers]
    /\ at    \in [Graders -> Answers \cup {NoAnswer}]
    /\ \A g \in Graders : at[g] \in Answers <=> phase[g] \in {"question", "answer"}
    /\ read  \in [Graders -> [tests : Nat, points : Int]] /\ sum \in [Graders -> Int]
    /\ step   \in [Lecturers -> {"idle", "score", "sum", "total"}]
    /\ target \in [Lecturers -> Answers \cup {NoAnswer}]
    /\ \A l \in Lecturers : target[l] \in Answers <=> step[l] # "idle"
    /\ value \in [Lecturers -> Int]
    /\ edits \in 0..MaxEdits /\ faults \in 0..MaxFaults
    /\ ever \in [Questions -> SUBSET Int]
    /\ alone \in BOOLEAN /\ fresh \in BOOLEAN /\ raised \in BOOLEAN

\* No answer is ever worth more than its question was at some time, or less than
\* nothing, whatever mix of gradings, overrides and edits writes it; what is less
\* than nothing is the worth of a question a lecturer gave negative points.
\* (GradeSubmission, OverrideAnswerScore, UpdateQuestion.)
ScoreInRange == \A a \in Answers : score[a] \in Worthy(Question[a])

\* What an answer may get, now, by passing some of the test cases Judge0 judged.
Attainable(a) ==
    LET q == Question[a]
    IN  {PointsEarned(p, tests[q], points[q]) : p \in 0..(tests[q] - unjudged[a])}

\* A grading run with nothing else going on leaves every score as the test cases
\* and points of the moment make it, whatever overrides, edits and broken runs
\* came before; a test without verdict never counts as passed.  ("Idempotent:
\* re-running recomputes scores against current test cases", service.go:586.)
RegradeIsCurrent ==
    fresh /\ Quiet => \A a \in answers : score[a] \in Attainable(a)

\* Any grading run or override that overlaps no other and has no failing
\* statement leaves the total at the sum of the scores, however wrong it was.
\* (GradeSubmission, OverrideAnswerScore.)
TotalIsSumAlone == alone /\ Quiet => total = SumOfScores

\* total_score / max_score * 100 of a row the analytics look at.
Percent == (total * 100) \div maxScore

\* When the student begins no question of the exam is worth less than nothing,
\* which would lower what the others are measured by.
NoneNegative == \A q \in Asked \cap DOMAIN InitialPoints : InitialPoints[q] >= 0

\* Every answer is to a question of the exam.
OnlyAsked == \A a \in answers : Question[a] \in Asked

\* There are four ways to more than full marks, and no fifth: a question was
\* worth less than nothing when the student began, the exam was given questions
\* or points after that, two racing saves made two answers to one question, or
\* an answer was saved to a question of another exam.  Without them no mix of
\* gradings, overrides and edits gets there; a max_score of 0, left by a failed
\* SUM, is no percentage at all.
\* (SaveAnswer, calcMaxScore, GradeSubmission, OverrideAnswerScore, GetAnalytics.)
FullMarksAtMost ==
    /\ maxScore > 0 /\ NoneNegative /\ ~raised /\ OnlyAsked
    /\ \A a, b \in answers : Question[a] = Question[b] => a = b
    => Percent <= 100

\* What is read and what was checked is still to be written.
HeldInRange ==
    /\ \A q \in questions : points[q] \in ever[q]
    /\ \A g \in Graders : phase[g] = "answer" => read[g].points \in ever[Question[at[g]]]
    /\ \A l \in Lecturers : step[l] = "score" => value[l] \in Worthy(Question[target[l]])

\* Gradings and overrides are of answers that exist, a run comes to each once, an
\* answer and a run begin at nothing, and no question goes that has an answer, of
\* whatever exam.
AnswersExist ==
    /\ \A g \in Graders : left[g] \cup ({at[g]} \ {NoAnswer}) \subseteq answers
    /\ \A g \in Graders : at[g] \notin left[g]
    /\ \A g \in Graders : ~Running(g) => left[g] = {} /\ sum[g] = 0
    /\ \A l \in Lecturers : step[l] # "idle" => target[l] \in answers
    /\ \A a \in Answers \ answers : score[a] = 0 /\ unjudged[a] = 0
    /\ \A a \in answers : Question[a] \in questions

\* A fresh run is alone, what it has read is so, and what it has scored stands.
FreshRun ==
    fresh =>
        /\ \A l \in Lecturers : step[l] = "idle"
        /\ \A g, h \in Graders : Running(g) /\ Running(h) => g = h
        /\ \A g \in Graders : Running(g) =>
              /\ phase[g] # "next" => read[g].tests = tests[Question[at[g]]]
              /\ phase[g] = "answer" => read[g].points = points[Question[at[g]]]
        /\ \A a \in answers :
              (\A g \in Graders : a \notin left[g] /\ a # at[g]) => score[a] \in Attainable(a)

\* The answers a run does not have before it.
Past(g) == Answers \ (left[g] \cup {at[g]})

\* One activity that overlaps no other is the only one, and what it holds to
\* write is the sum of the scores it has passed.
SumsAlone ==
    alone =>
        /\ \A g, h \in Graders : Running(g) /\ Running(h) => g = h
        /\ \A l, k \in Lecturers : step[l] # "idle" /\ step[k] # "idle" => l = k
        /\ \A g \in Graders, l \in Lecturers : Running(g) => step[l] = "idle"
        /\ \A g \in Graders : Running(g) => sum[g] = SumFunctionOnSet(score, Past(g))
        /\ \A l \in Lecturers : step[l] = "total" => value[l] = SumOfScores
        /\ Quiet => total = SumOfScores

\* What the questions of the exam, and so the answers to them, were worth when
\* the student began.
WasWorth   == [q \in Questions |-> IF q \in Asked \cap DOMAIN InitialPoints
                                   THEN InitialPoints[q] ELSE 0]
WasWorthOf == [a \in Answers |-> WasWorth[Question[a]]]

\* While nothing is raised and nothing answered that was not asked, no sum is
\* more than its answers were worth then.
SumsWithin ==
    NoneNegative /\ ~raised /\ OnlyAsked =>
        /\ \A q \in Asked : \A w \in ever[q] : w <= WasWorth[q]
        /\ \A g \in Graders : Running(g) =>
              sum[g] <= SumFunctionOnSet(WasWorthOf, answers \cap Past(g))
        /\ \A l \in Lecturers : step[l] = "total" => value[l] <= SumFunctionOnSet(WasWorthOf, answers)
        /\ total <= SumFunctionOnSet(WasWorthOf, answers)

MaxScoreFixed == maxScore \in {0, SumFunctionOnSet(WasWorth, Asked)}

\* The inductive invariant: RegradeIsCurrent follows from FreshRun,
\* TotalIsSumAlone from SumsAlone, FullMarksAtMost from SumsWithin.
ScoresInv ==
    /\ TypeOK
    /\ ScoreInRange
    /\ HeldInRange
    /\ AnswersExist
    /\ FreshRun

TotalsInv == SumsAlone /\ SumsWithin /\ MaxScoreFixed

IInv == ScoresInv /\ TotalsInv

-----------------------------------------------------------------------------
(* What the repository's texts say, and the code does not keep.            *)

\* README:203 "total_score on the submission is recalculated automatically
\* after each override".
TotalIsSum == Quiet => total = SumOfScores

\* README:192 "All test cases are run against the submitted code", before the
\* total is saved and the status says graded.
GradedMeansJudged == graded /\ Quiet => \A a \in answers : unjudged[a] = 0
=============================================================================
