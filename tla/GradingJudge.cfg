SPECIFICATION Spec
CONSTANTS
    a1 = a1
    a2 = a2
    a3 = a3
    q1 = q1
    q2 = q2
    q3 = q3
    other = other
    NoAnswer = NoAnswer
    Questions <- MCQuestions
    Asked <- MCAsked
    InitialPoints <- MCPoints
    InitialTests <- OneTest
    Answers <- MCAnswers
    Question <- MCQuestion
    Worths <- MCWorths
    Typed <- MCTyped
    Graders = {g1}
    Lecturers = {}
    g1 = g1
    MaxAnswers = 2
    MaxTests = 2
    MaxEdits = 0
    MaxFaults = 0
SYMMETRY Symmetry
INVARIANTS
    GradedMeansJudged
CHECK_DEADLOCK FALSE
