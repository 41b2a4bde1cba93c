SPECIFICATION Spec
CONSTANTS
    Subs = {s1, s2}
    Clients = {}
    Sweepers = {w1, w2}
    s1 = s1
    s2 = s2
    w1 = w1
    w2 = w2
    NoSub = NoSub
    ViolationLimit = 3
    MaxRetry = 1
    MaxOutages = 2
SYMMETRY Symmetry
INVARIANTS
    SubmittedHasGrader
    SweptByOne
