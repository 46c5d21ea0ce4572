\* Three commands: an owner, a recoverer and a newcomer.  Liveness is
\* checked, so there is no symmetry.
SPECIFICATION FairSpec
CONSTANTS
    Procs = {p1, p2, p3}
    None = None
\* Each command runs once, so the behaviour ends.
CHECK_DEADLOCK FALSE
INVARIANT AcquisitionGoesOn
PROPERTIES
    AttemptEnds
    DeadLockRecovered
