SPECIFICATION Spec
CONSTANTS
    s1 = s1
    s2 = s2
    Sales = {s1, s2}
    Cash <- TwoCash
    Other <- TwoOther
    Closers = {c1, c2}
    Opening = 5
    Declared = {5, 7}
    Refundable = {1, 2}
    AtOnce = 1
INVARIANT ClosesOnContents
CHECK_DEADLOCK FALSE
