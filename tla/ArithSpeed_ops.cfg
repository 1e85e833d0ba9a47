SPECIFICATION Spec
CONSTANTS
    ArithOps = 4
    TransOps = 2
    UIntMod = 64
    Whole = 12
    FltMax = 60
    Requests <- MCRequests
    Machines <- MCMachines
    Leftovers = {"mad", "???"}
    MaxFailures = 1
INVARIANTS
    OpsAsPrinted
