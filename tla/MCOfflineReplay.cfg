SPECIFICATION FairSpec
CONSTANTS
    t1 = t1
    t2 = t2
    Txs = {t1, t2}
    Baseline <- MCBaseline
    Base = Base
    Damaged = Damaged
    None = None
    Other = Other
    MaxLosses = 2
INVARIANTS
    ReplayInv
PROPERTIES
    KernelFollowsPackages
    OtherMarkerKept
    UpdateBootEnds
    ImplementsOneShot
