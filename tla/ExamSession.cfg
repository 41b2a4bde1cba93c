SPECIFICATION Spec
CONSTANTS
    ada = ada
    r1 = r1
    r2 = r2
    s1 = s1
    s2 = s2
    q1 = q1
    e1 = e1
    NoSave = NoSave
    NoStart = NoStart
    Students = {ada}
    Starts = {r1, r2}
    Owner <- TwoStarts
    Saves = {s1, s2}
    Question <- TwoSaves
    Edits = {e1}
    Durations = {0}
    MaxNow = 1
    MaxFaults = 1
INVARIANTS
    AnswersOverlap
    SavedKept
    SavedIsGraded
    AttemptsOverlap
    IInv
SYMMETRY Alike
