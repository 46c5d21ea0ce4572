\* A revocation endpoint that follows RFC 7009 for invalid tokens.
SPECIFICATION Spec
CONSTANTS
    Grants = {g1, g2}
    Revocable = {g2}
    IgnoresStale = TRUE
    MaxGen = 3
    None = None
PROPERTY RevokedBeforeRemoved
