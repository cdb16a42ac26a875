SPECIFICATION PollingSpec
CONSTANTS
    Paths = {credential, config, dropin}
    Captured = {credential, config}
    Cred = credential
    MaxFaults = 2
CHECK_DEADLOCK FALSE
INVARIANTS
    SavedBeforeChanged
    RolledBackMeansRestored
    ClosedMeansProved
    BackupBeforePackages
PROPERTIES
    StagedReleaseSettles
