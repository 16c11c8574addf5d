CONSTANTS
    Macs <- MCMacs
    Numbers <- MCNumbers
    Inputs <- MCInputs
SPECIFICATION Spec
CHECK_DEADLOCK FALSE
INVARIANTS
    AddIsModular
    PrintedWasRead
