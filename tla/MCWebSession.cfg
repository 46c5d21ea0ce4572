\* Two sign-ins, two rotations of each session's tokens.
SPECIFICATION LiveSpec
CONSTANTS
    Grants = {g1, g2}
    MaxGen = 3
    None = None
INVARIANTS
    TypeOK
    NoTokenForgotten
    OneRevocationPending
    PageGoesOn
    ShownAlone
PROPERTIES
    StoredUntilEnded
    PendingCleared
    ConnectingEnds
