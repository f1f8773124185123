CONSTANTS
    Boards = {b1, b2}
    Venues = {v1}
    Devices = {d1}
    Handlers = {h1, h2}
    Tables = {}
    DBFaults = TRUE
    MaxEdits = 0
    MaxPuts = 1
    MaxOutages = 0
    MaxCrashes = 0
    NoRecord = NoRecord
    NoList = NoList
    NoProc = NoProc
    SubVenueDevices <- SubDevices
SPECIFICATION Spec
INVARIANT TypeOK
INVARIANT VenueUnique
INVARIANT ListsAgree
INVARIANT StoppedStaysStopped
PROPERTY ReconcileIterationSafe
SYMMETRY Symmetry
