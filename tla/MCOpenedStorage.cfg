\* Any sequence of commands on one profile, with deadlines, signals and kills.
SPECIFICATION LiveSpec
CONSTANTS
    Keys = {k1, k2}
    None = None
INVARIANTS
    TypeOK
    SnapshotWhole
    ReportedKept
    SuccessMeans
    WaitsForWork
    NeverStuck
PROPERTIES
    WritesItsOwn
    LockReleased
