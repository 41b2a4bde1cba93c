SPECIFICATION Spec
CONSTANTS
    Subs = {s1}
    Clients = {c1, c2}
    Sweepers = {w1, w2}
    s1 = s1
    c1 = c1
    c2 = c2
    w1 = w1
    w2 = w2
    NoSub = NoSub
    ViolationLimit = 3
    MaxRetry = 1
    MaxOutages = 1
SYMMETRY Symmetry
PROPERTIES
    ImplementsLifecycle
    ImplementsDelivery
INVARIANTS
    HandlerDispatchesOnce
    SubmittedHasGrader
    OpenUnclaimed
    SweptByOne
    OpenBelowLimit
    IInv
