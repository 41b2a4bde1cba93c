SPECIFICATION FairSpec
CONSTANTS
    Subs = {s1}
    Clients = {c1}
    Sweepers = {w1}
    s1 = s1
    c1 = c1
    w1 = w1
    NoSub = NoSub
    ViolationLimit = 2
    MaxRetry = 1
    MaxOutages = 3
PROPERTIES
    ExpiredCloses
    GradingSettles
