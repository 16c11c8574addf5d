\* The default files do not depend on each other: one is enough.
CONSTANTS
    DefaultFiles = {f1}
    CmdlineKinds = {"none", "last", "middle"}
    MaxGrow = 1
    MaxFaults = 1
    MaxLosses = 2
SPECIFICATION FairSpec
INVARIANTS
    BootableUnlessTorn
    DiskFullyUsedUnlessTorn
    DefaultsInstalledUnlessCut
    MountedWhenReady
PROPERTIES
    SettingsSurvive
    BootNotHeldUp
CHECK_DEADLOCK FALSE
