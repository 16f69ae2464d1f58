SPECIFICATION FairMigrationSpec
CONSTANTS
    Processes = {p1, p2}
    Rows <- MCRows
    MaxCrashes = 2
INVARIANTS NothingLost SetAside
PROPERTIES SyncedStays Recovers
