SPECIFICATION LabSpec
CONSTANTS
    Procs = {p1, p2}
    Names = {"dev", "build", "audit"}
    Builder = "build"
    Probe = "audit"
    Running = {"dev"}
    MaxCommands = 4
    MaxSources = 2
    MaxMishaps = 1
SYMMETRY ProcSymmetry
CHECK_DEADLOCK FALSE
INVARIANTS
    InstancesInv
    PublishedIsAudited
PROPERTIES
    OnlyOwnIsChanged
