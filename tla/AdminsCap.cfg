SPECIFICATION Spec
CONSTANTS
    Admins = {u1, u2, u3}
    Requests = {x1, x2}
    u1 = u1
    u2 = u2
    u3 = u3
    x1 = x1
    x2 = x2
    MaxAdmins = 2
SYMMETRY Symmetry
INVARIANTS
    Capped
