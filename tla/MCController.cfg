SPECIFICATION FairSpec
CONSTANTS
    Releases = {1, 2, 3}
    Leases = {1, 2, 3}
    RollsBackClosed = FALSE
    RunsOlder = FALSE
    MaxFaults = 1
INVARIANTS
    ControllerInv
PROPERTIES
    ImplementsRotation
    ClosedIsReported
