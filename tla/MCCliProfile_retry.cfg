\* Does a logout repeated without faults complete the clean-up?
SPECIFICATION LiveSpec
CONSTANTS
    Grants = {g1, g2}
    Revocable = {g2}
    IgnoresStale = FALSE
    MaxGen = 3
    None = None
PROPERTY RetryCompletes
