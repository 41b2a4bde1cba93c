SPECIFICATION Spec
CONSTANTS
    a1 = a1
    a2 = a2
    a3 = a3
    q1 = q1
    q2 = q2
    q3 = q3
    other = other
    NoAnswer = NoAnswer
    Questions <- MCQuestions
    Asked <- MCAsked
    InitialPoints <- MCPoints
    InitialTests <- NoTest
    Answers <- MCAnswers
    Question <- MCQuestion
    Worths <- MCWorths
    Typed <- MCTyped
    Graders = {g1, g2}
    Lecturers = {l1}
    g1 = g1
    g2 = g2
    l1 = l1
    MaxAnswers = 2
    MaxTests = 2
    MaxEdits = 1
    MaxFaults = 1
SYMMETRY Symmetry
INVARIANTS
    ScoreInRange
    RegradeIsCurrent
    TotalIsSumAlone
    FullMarksAtMost
    IInv
