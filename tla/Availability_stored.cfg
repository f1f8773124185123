CONSTANTS
    Shapes = {"uuid", "timestamp", "missing", "garbled"}
    MaxOutages = 2
    MaxSigns = 0
    MaxReports = 0
    MaxRepeats = 1
    MaxDups = 0
    MaxCrashes = 0
    MaxDbFaults = 0
    NoTopic = NoTopic
SPECIFICATION FairSpec
 
 
PROPERTY ImplementsLog
CHECK_DEADLOCK FALSE
