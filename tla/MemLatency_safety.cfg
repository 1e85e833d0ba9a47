SPECIFICATION Spec
CONSTANTS
    NumDevices = 2
    DeviceIds <- MCDeviceIds
    TypeWords = {"none", "const"}
    LayoutWords = {"none", "cache_step"}
    BlockKinds <- MCBlockKinds
    Repeats = 2
    MaxFailures = 1
INVARIANTS
    LinesFollowTheRequest
    LineIsOfItsRepeats
    OnlyFailuresLeak
