CONSTANTS
    Ifnames = {"eth1", "wan0"}
    MaxLosses = 1
    MaxFaults = 1
SPECIFICATION MCSpec
INVARIANTS
    NamesAgree
    PointsAtPsm
    NamePersisted
    UspOnWan
PROPERTY UspComesUp
