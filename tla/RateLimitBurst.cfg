SPECIFICATION Spec
CONSTANTS
    home = home
    lab = lab
    r1 = r1
    r2 = r2
    r3 = r3
    r4 = r4
    NoBucket = NoBucket
    Requests = {r1, r2, r3, r4}
    Ip <- TwoPlaces
    Every = 2
    Burst = 1
    Second = 2
    MaxNow = 3
INVARIANTS
    OneBucket
    AdmittedBounded
    NoNeedlessRefusal
    RetryOnceDue
CHECK_DEADLOCK FALSE
SYMMETRY AtHome
