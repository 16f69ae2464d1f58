CONSTANTS
    p1 = p1
    Products = {p1}
    MaxQuantity = 2
    MaxPrice = 2
    MaxPayments = 1
    MaxRequests = 2
    MaxSessions = 1
    MaxReads = 1
    Discounts = {0, 2}
SPECIFICATION TillSpec
CHECK_DEADLOCK FALSE
INVARIANTS AsTold OneSaleEach
