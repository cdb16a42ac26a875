SPECIFICATION Spec
CONSTANTS
    Paths = {credential, config, dropin}
    Captured = {credential, config}
    Cred = credential
    MaxFaults = 0
PROPERTY
    GuardSparesPackages
CHECK_DEADLOCK FALSE
