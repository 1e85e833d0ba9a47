SPECIFICATION Spec
CONSTANTS
    Sizes = 1
    Repeats = 2
    Iterations = 2
    MaxFailures = 1
    MaxFaults = 0
    Clobbers = {FALSE}
INVARIANT MeanOfAllRepeats
