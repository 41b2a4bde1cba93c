SPECIFICATION Spec
CONSTANTS
    home = home
    lab = lab
    r1 = r1
    r2 = r2
    r3 = r3
    r4 = r4
    NoBucket = NoBucket
    Requests = {r1, r2, r3}
    Ip <- OnePlace
    Every = 6
    Burst = 1
    Second = 3
    MaxNow = 7
INVARIANTS
    RetryAfterWorks
CHECK_DEADLOCK FALSE
