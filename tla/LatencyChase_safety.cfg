SPECIFICATION FairSpec
CONSTANTS
    K = 4
    CopyUnroll = 2
    WordBytes = 2
    Headroom = 2
    UIntMod = 32
    ULongMod = 1024
    Requests <- MCRequests
    MemSizes <- MCMemSizes
    Iterations = {0, 1, 3, 31, 34}
    Garbage = Garbage
INVARIANTS
    StopsOnlyOnTinyBlocks
    HopsLeaveTheLine
    ResultAgrees
    OpsArePerformed
PROPERTIES
    EachCellLinkedOnce
    Termination
