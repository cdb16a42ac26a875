SPECIFICATION FairSpec
CONSTANTS
    Runs = {r1, r2, g}
    Grants = {g}
    NoRun = NoRun
    MaxDay = 2
    MaxFaults = 1
INVARIANTS
    LifecycleInv
    LeaseKeepsFixture
PROPERTIES
    InterruptedNeverPasses
    UnfinishedRunIsCleaned
