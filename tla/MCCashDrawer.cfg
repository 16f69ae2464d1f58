SPECIFICATION Spec
CONSTANTS
    s1 = s1
    s2 = s2
    Sales = {s1, s2}
    Cash <- MixedCash
    Other <- MixedOther
    Closers = {c1, c2}
    Opening = 5
    Declared = {5, 7}
    Refundable = {1, 2}
    AtOnce = 3
PROPERTY NeverReopens CashOutNeedsOpenDrawer NoShortageInvented
CHECK_DEADLOCK FALSE
