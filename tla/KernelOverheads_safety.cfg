SPECIFICATION MCSpec
CONSTANTS
    MaxPlatforms = 3
    MaxDevices = 2
    UIntMod = 8
    SureAlloc = 6
    MaxFailures = 2
    Tests <- MCTests
    Launches = 4
    Times = {1, 2}
    MaxId = 3
INVARIANTS
    ListIsExact
    EveryDeviceMeasured
    OneBehindAtMost
    OnlyBuffersAndEventsPileUp
    KernelIsWellFormed
