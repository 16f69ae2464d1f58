CONSTANTS
    a = a
    b = b
    c1 = c1
    c2 = c2
    Tenants = {a, b}
    Choices = {c1, c2}
    MaxRequests = 2
    MaxMoves = 2
SPECIFICATION Spec
SYMMETRY Alike
INVARIANTS Refreshed OneEffect
CHECK_DEADLOCK FALSE
