SPECIFICATION PolicySpec
CONSTANTS
    Devices = {d1, d2}
    NoDevice = NoDevice
    Offsets <- MCOffsets
    Prices <- MCPrices
    Payments <- MCPayments
    Discounts = {0, 3}
    Window = 1
    PriceAge = 1
    MaxDelay = 1
    Zone = 1
    MaxAnswers = 2
    MaxSleep = 1
    MaxBoots = 2
    Horizon = 3
CONSTRAINT Bounded
SYMMETRY Machines
INVARIANTS RevocationBites PriceHolds ChangeIsCash
CHECK_DEADLOCK FALSE
