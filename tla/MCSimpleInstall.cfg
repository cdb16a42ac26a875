SPECIFICATION FairSpec
CONSTANTS
    Controllers = {1, 2}
    MaxDeploys = 3
    MaxFaults = 1
INVARIANTS
    SimpleInv
    ClosedMeansProved
PROPERTIES
    ClosedStays
    DeploymentSettles
