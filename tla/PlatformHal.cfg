CONSTANTS
    Files <- MCFiles
    Garbage <- MCGarbage
    MaxFaults = 2
    MaxList = 4
    Texts <- MCTexts
    BufLen = 4
    Amounts <- MCAmounts
    HALF = 65536
    Leftovers <- MCLeftovers
    MaxFds = 2
    Callers = {t1, t2}
    Names = {"eth1", "wan0"}
SPECIFICATION HalSpec
INVARIANTS
    TypeOK
    HeapAccounted
    Option17AsInFile
    OkIsAnswer
    NameIsCurrent
    PublishedNameWins
PROPERTIES
    AllOrNothing
    OnlySerialLeaks
