SPECIFICATION FairSpec
CONSTANTS
    MaxElements = 32
    Sizes = 2
    Groups = 1
    Locals = 2
    Cells = 2
    Devices <- MCPair
    Vectors = {4}
    WARMUP_CYCLES = 2
    Iterations = 2
    Repeats = 2
    MaxFailures = 2
INVARIANTS
    MeasuredWarm
    MeanOfAllRepeats
PROPERTIES
    ImplementsStopwatch
    Termination
