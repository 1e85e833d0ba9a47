SPECIFICATION Spec
CONSTANTS
    MaxElements = 48
    WARMUP_CYCLES = 1
    Repeats = 1
    Sizes = 1
    Groups = 2
    Locals = 4
    Cells = 3
    Devices <- MCSquare
    Vectors = {4}
    Iterations = 1
    MaxFailures = 1
INVARIANTS
    ResultExact
    GarbageOnlyAtFirst
    StraysOnlyWithoutMemory
