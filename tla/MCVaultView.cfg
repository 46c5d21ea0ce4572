\* Two trees to go to and fro, two mutations and a poll in flight.
SPECIFICATION Spec
CONSTANTS
    Vaults = {v1, v2}
    Ops = {o1, o2}
    Slots = {s1}
    MaxVer = 2
    MaxFiles = 2
    None = None
SYMMETRY Symmetry
INVARIANTS
    TypeOK
    ShowsTheSelected
    OneFolderPerPath
    BusyTruthful
    UploadsGoOn
PROPERTIES
    NeverGoesBack
