CONSTANTS
    f = f
    Filters = {f}
    All = All
    Unknown = Unknown
    Sizes = {0, 1, 3, 5}
    PageSize = 2
    MaxChanges = 1
    MaxFaults = 1
SPECIFICATION ListSpec
INVARIANT ErrorHasCause
PROPERTY EndIsReached
CHECK_DEADLOCK FALSE
