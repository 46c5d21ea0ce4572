SPECIFICATION Spec
CONSTANTS
    Procs = {p1, p2, p3, p4}
    None = None
SYMMETRY Symmetry
CHECK_DEADLOCK FALSE
INVARIANT MutualExclusion
