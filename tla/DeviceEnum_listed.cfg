SPECIFICATION Spec
CONSTANTS
    MaxPlatforms = 2
    MaxDevices = 2
    UIntMod = 8
    SureAlloc = 6
    MaxFailures = 0
INVARIANT AllDevicesListed
