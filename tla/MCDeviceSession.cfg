SPECIFICATION FairSpec
CONSTANTS
    d1 = d1
    d2 = d2
    t1 = t1
    t2 = t2
    Devices = {d1, d2}
    Tenants = {t1, t2}
    Tenant <- MCTenant
    Nobody = Nobody
    MaxPages = 2
    MaxMessages = 2
    MaxRestarts = 1
INVARIANTS TypeOK OwnCredentials OwnRows
PROPERTY MainFollows
