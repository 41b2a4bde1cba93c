SPECIFICATION FairSpec
CONSTANTS
    Subs = {s1}
    Clients = {c1}
    Sweepers = {w1}
    s1 = s1
    c1 = c1
    w1 = w1
    NoSub = NoSub
    ViolationLimit = 3
    MaxRetry = 1
    MaxOutages = 1
PROPERTIES
    SubmittedGetsGraded
