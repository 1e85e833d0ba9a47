SPECIFICATION FairSpec
CONSTANTS
    ArithOps = 4
    TransOps = 2
    UIntMod = 5
    Whole = 12
    FltMax = 60
    Requests <- MCRequests
    Machines <- MCMachines
    Leftovers = {"mad", "???"}
    MaxFailures = 1
INVARIANTS
    LinesFollowTheRequest
    AlarmHasACause
    CheckedMeansPerformed
    PowersStayLegal
    OnlyContextsRemain
PROPERTIES
    Termination
