SPECIFICATION FairSpec
CONSTANTS
    m1 = m1
    m2 = m2
    m3 = m3
    t1 = t1
    t2 = t2
    t3 = t3
    t4 = t4
    kitA = kitA
    kitB = kitB
    kitC = kitC
    c1 = c1
    c2 = c2
    NoLine = NoLine
    Messages = {m1, m2, m3}
    Handled = {m1, m2}
    Tasks = {t1, t2, t3, t4}
    MessageOf <- MCMessageOf
    Losable = {t2}
    MaxRetries = 2
    DeadAfter = 2
    Lines = {kitA, kitB, kitC}
    KitLines <- MCKitLines
    Components = {c1, c2}
    Needs <- MCNeeds
    Opening <- MCOpening
    MaxStock = 1
INVARIANTS IssuedOnce EffectIsDelivered StockReconciled
PROPERTY TasksSettle
CHECK_DEADLOCK FALSE
