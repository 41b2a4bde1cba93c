SPECIFICATION Spec
CONSTANTS
    unilag = unilag
    covenant = covenant
    ada = ada
    bola = bola
    m1 = m1
    m2 = m2
    m3 = m3
    f1 = f1
    f2 = f2
    u1 = u1
    Temp = Temp
    Nothing = Nothing
    Schools = {unilag}
    Makes = {m1}
    Kind <- OneKind
    Email <- OneEmail
    School <- OneSchool
    Forgots = {f1, f2}
    Uses = {u1}
    Changes = {}
INVARIANTS
    NewLinkWorks
CHECK_DEADLOCK FALSE
