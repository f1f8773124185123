CONSTANTS
    Stations = {s1}
    Modulus = 16
    MaxBytes = 4
    MaxRetries = 1
    MaxFailures = 1
SPECIFICATION Spec
INVARIANT TypeOK
 
INVARIANT DeviceNeverOvercounts
