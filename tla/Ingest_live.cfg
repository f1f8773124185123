CONSTANTS
    Watchers = {w1}
    Serials = {s1, s2}
    MaxBacklog = 1
    MaxModifies = 0
    NoWatcher = NoWatcher
    NoSerial = NoSerial
    NoReg = NoReg
SPECIFICATION FairSpec
PROPERTY StopCompletes
PROPERTY NoMutualWait
