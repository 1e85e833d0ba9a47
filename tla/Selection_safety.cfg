SPECIFICATION Spec
CONSTANTS
    NumDevices = 2
    MAX_SIZES = 2
    DefaultSize = 9
    DeviceLists <- MCDeviceLists
    SizeLists <- MCSizeLists
    MaxFailures = 2
INVARIANTS
    MeasuresTheRequest
    OverrunOnlyByLongLists
    UnpreparedIsLast
