CONSTANTS
    Shapes = {"timestamp", "garbled"}
    MaxOutages = 1
    MaxSigns = 1
    MaxReports = 2
    MaxRepeats = 0
    MaxDups = 1
    MaxCrashes = 1
    MaxDbFaults = 1
    NoTopic = NoTopic
SPECIFICATION Spec
INVARIANT TypeOK
INVARIANT NoDuplicateRows
 
CHECK_DEADLOCK FALSE
