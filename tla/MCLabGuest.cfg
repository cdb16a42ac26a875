SPECIFICATION Spec
CONSTANTS
    Trees = {"gateway-state", "worker-state"}
    StateTree = "gateway-state"
    MaxScripts = 3
    MaxFaults = 2
CHECK_DEADLOCK FALSE
INVARIANTS
    GuestInv
    LiveSecretStaysInMemory
    FailedMeansCleared
