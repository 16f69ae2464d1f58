SPECIFICATION Spec
CONSTANTS
    Sessions = {d1, d2}
    Sales = {s1, s2}
    Lines = {1, 2}
    Tracked = {1}
    Carts <- TwoCarts
    ReturnRequests <- SmallReturns
    ReturnKeys = {k1, k2}
    RefundKeys = {f1, f2}
    CancelKeys = {k1, k2}
    Reversible = {s1}
    None = None
SYMMETRY Permuted
INVARIANT ServicesKeepNoStock
CHECK_DEADLOCK FALSE
