SPECIFICATION CertFairSpec
CONSTANT MaxFaults = 3
INVARIANTS
    CertInv
    EvidenceIsEarned
PROPERTIES
    IssuedLeaseIsRevoked
