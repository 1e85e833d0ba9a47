SPECIFICATION FairSpec
CONSTANTS
    Sizes = 1
    Repeats = 2
    Iterations = 2
    MaxFailures = 2
    MaxFaults = 1
    Clobbers = {TRUE, FALSE}
INVARIANTS
    ShortOnlyWhereUnchecked
    DataOutlivesCommands
PROPERTIES
    NoRace
    ImplementsStopwatch
    CheckedMeansDelivered
    Termination
