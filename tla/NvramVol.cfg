\* nvramvol= in the middle of the command line.
CONSTANTS
    DefaultFiles = {f1}
    CmdlineKinds = {"none", "middle"}
    MaxGrow = 0
    MaxFaults = 0
    MaxLosses = 0
SPECIFICATION Spec
INVARIANT NvramVolHonoured
CHECK_DEADLOCK FALSE
