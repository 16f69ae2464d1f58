\* Not part of the runs: what the tests promise of every journal, and the
\* migration does not keep.
SPECIFICATION FairMigrationSpec
CONSTANTS
    Processes = {p1, p2}
    Rows <- MCRows
    MaxCrashes = 2
PROPERTIES AlwaysRecovers
INVARIANTS SnapshotServes
