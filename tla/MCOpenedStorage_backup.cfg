\* The key of a reported upload is in the backup.
SPECIFICATION Spec
CONSTANTS
    Keys = {k1, k2}
    None = None
INVARIANT BackupBeforeReport
