SPECIFICATION Spec
CONSTANTS
    c1 = c1
    c2 = c2
    r1 = r1
    r2 = r2
    r3 = r3
    Cands = {c1, c2}
    ReleaseId <- MCReleaseId
    Runs = {r1, r2, r3}
    CandOf <- MCCandOf
    None = None
    MaxTime = 3
    MaxHands = 2
    MaxFaults = 1
SYMMETRY MCSymmetry
INVARIANTS
    BoundIsCertified
    DeployedIsBound
PROPERTIES
    BindingIsKept
