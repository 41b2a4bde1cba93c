SPECIFICATION Spec
CONSTANTS
    unilag = unilag
    covenant = covenant
    ada = ada
    bola = bola
    m1 = m1
    m2 = m2
    m3 = m3
    Temp = Temp
    Nothing = Nothing
    Schools = {unilag, covenant}
    Makes = {m1, m2, m3}
    Kind <- OnboardingKind
    Email <- OnboardingEmail
    School <- OnboardingSchool
    Forgots = {}
    Uses = {}
    Changes = {}
INVARIANTS
    OrphanOverlaps
CHECK_DEADLOCK FALSE
