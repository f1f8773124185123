CONSTANTS
    Watchers = {w1}
    Serials = {s1}
    MaxBacklog = 1
    MaxModifies = 1
    NoWatcher = NoWatcher
    NoSerial = NoSerial
    NoReg = NoReg
SPECIFICATION FairSpec
PROPERTY DispatchCompletes
CHECK_DEADLOCK FALSE
