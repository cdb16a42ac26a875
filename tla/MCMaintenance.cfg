SPECIFICATION EventFairSpec
CONSTANTS
    Releases = {"a", "b"}
    None = None
    MaxStarts = 3
    MaxMishaps = 2
INVARIANTS
    EventInv
PROPERTIES
    LatestIsShown
