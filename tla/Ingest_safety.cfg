CONSTANTS
    Watchers = {w1, w2}
    Serials = {s1, s2}
    MaxBacklog = 1
    MaxModifies = 1
    NoWatcher = NoWatcher
    NoSerial = NoSerial
    NoReg = NoReg
SPECIFICATION Spec
INVARIANT TypeOK
INVARIANT NoDanglingWatcher
INVARIANT RegisteredOnce
SYMMETRY Symmetry
CHECK_DEADLOCK FALSE
