SPECIFICATION Spec
CONSTANTS
    Subs = {s1}
    Clients = {c1}
    Sweepers = {w1}
    s1 = s1
    c1 = c1
    w1 = w1
    NoSub = NoSub
    ViolationLimit = 3
    MaxRetry = 0
    MaxOutages = 0
INVARIANTS
    SweepNeverDoublesClient
