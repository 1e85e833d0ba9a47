SPECIFICATION Spec
CONSTANTS
    BPSIZE = 4
    MaxDevices = 2
    MaxFailures = 2
INVARIANTS
    SelectorIsExact
    LinesAreOfTheirLaunch
    EveryPointIsMeasured
    WildEventOnlyAtFirst
