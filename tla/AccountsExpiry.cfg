SPECIFICATION Spec
CONSTANTS
    unilag = unilag
    covenant = covenant
    ada = ada
    bola = bola
    m1 = m1
    m2 = m2
    m3 = m3
    u1 = u1
    Temp = Temp
    Nothing = Nothing
    Schools = {unilag}
    Makes = {m1}
    Kind <- OneKind
    Email <- OneEmail
    School <- OneSchool
    Forgots = {}
    Uses = {u1}
    Changes = {}
PROPERTIES
    InviteExpires
CHECK_DEADLOCK FALSE
