SPECIFICATION Spec
CONSTANTS
    unilag = unilag
    covenant = covenant
    ada = ada
    bola = bola
    m1 = m1
    m2 = m2
    m3 = m3
    f1 = f1
    u1 = u1
    u2 = u2
    c1 = c1
    Temp = Temp
    Nothing = Nothing
    Schools = {unilag}
    Makes = {m1}
    Kind <- OneKind
    Email <- OneEmail
    School <- OneSchool
    Forgots = {f1}
    Uses = {u1, u2}
    Changes = {c1}
PROPERTIES
    ReplacesVerified
CHECK_DEADLOCK FALSE
