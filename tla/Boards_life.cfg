CONSTANTS
    Boards = {b1}
    Venues = {v1}
    Devices = {d1}
    Handlers = {h1}
    Tables = {"timepoints", "events"}
    DBFaults = FALSE
    MaxEdits = 1
    MaxPuts = 1
    MaxOutages = 1
    MaxCrashes = 1
    NoRecord = NoRecord
    NoList = NoList
    NoProc = NoProc
    SubVenueDevices <- SubDevices
SPECIFICATION FairSpec
INVARIANT RetiredLeavesNothing
PROPERTY RemovedOnlyForCause
PROPERTY BoardGetsWatched
PROPERTY VanishedVenueRetired
PROPERTY DevicesConverge
