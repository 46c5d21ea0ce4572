\* One sign-in, a rotation of its tokens.
SPECIFICATION Spec
CONSTANTS
    Grants = {g1}
    MaxGen = 2
    None = None
INVARIANTS
    DenialKeepsRetry
