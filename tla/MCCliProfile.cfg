\* Two logins, at an issuer without and one with a revocation endpoint.
SPECIFICATION LiveSpec
CONSTANTS
    Grants = {g1, g2}
    Revocable = {g2}
    IgnoresStale = FALSE
    MaxGen = 3
    None = None
INVARIANTS
    TypeOK
    FilesBelongTogether
    NoSilentOrphan
    ReportTruthful
PROPERTIES
    TokensNeverRegress
    ImplementsCustody
    LogoutClears
