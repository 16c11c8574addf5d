CONSTANTS
    Images = {"mt7990", "mt7996", "other", "ctrl", "ext"}
    StartLimit = 2
    MaxLosses = 1
    MaxFaults = 2
SPECIFICATION FairSpec
INVARIANTS
    AddressesDiffer
    MapMeansCfg
    AlMacIsBackhaul
    AgentOnBackhaul
PROPERTIES
    AlMacStays
    WifiComesUp
    AgentComesUp
