SPECIFICATION Spec
CONSTANTS
    unilag = unilag
    covenant = covenant
    ada = ada
    bola = bola
    m1 = m1
    m2 = m2
    m3 = m3
    Temp = Temp
    Nothing = Nothing
    Schools = {unilag}
    Makes = {m1, m2}
    Kind <- TwoKind
    Email <- TwoEmail
    School <- TwoSchool
    Forgots = {}
    Uses = {}
    Changes = {}
INVARIANTS
    CanBeVerified
CHECK_DEADLOCK FALSE
