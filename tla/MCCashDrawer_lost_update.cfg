SPECIFICATION Spec
CONSTANTS
    s1 = s1
    s2 = s2
    Sales = {s1, s2}
    Cash <- TwoCash
    Other <- NoOther
    Closers = {}
    Opening = 5
    Declared = {5, 7}
    Refundable = {1, 2}
    AtOnce = 2
INVARIANTS RunningExpected
CHECK_DEADLOCK FALSE
