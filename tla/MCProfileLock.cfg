\* Four commands: a dead owner, a recoverer, a new owner and one that opens
\* the lock while the recoverer has moved the new owner's file aside.
SPECIFICATION Spec
CONSTANTS
    Procs = {p1, p2, p3, p4}
    None = None
SYMMETRY Symmetry
\* Each command runs once, so the behaviour ends.
CHECK_DEADLOCK FALSE
INVARIANTS
    TypeOK
    ExclusiveUnlessDisplaced
    QuarantineNeedsErrors
PROPERTIES
    DisplacedByRecoveryOnly
    LostOnlyToNewOwner
    SetBackByOthersOnly
    AloneRefusedByFaultOnly
