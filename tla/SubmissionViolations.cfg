SPECIFICATION Spec
CONSTANTS
    Subs = {s1}
    Clients = {c1, c2}
    Sweepers = {}
    s1 = s1
    c1 = c1
    c2 = c2
    NoSub = NoSub
    ViolationLimit = 3
    MaxRetry = 0
    MaxOutages = 0
PROPERTIES
    ViolationIncrements
