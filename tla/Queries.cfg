CONSTANTS
    b1 = b1
    b2 = b2
    v1 = v1
    v2 = v2
    NoValue = NoValue
    Boards = {b1, b2}
    Venues = {v1, v2}
    Serials = {1, 2}
    Clients = {1, 2}
    Keys = {1, 2}
    Hour = 2
    Skew = 1
    MaxLookback = 2
    MaxItems = 2
    MaxCounter = 5
    MaxSamples = 2
    MaxClock = 6
    MaxRows = 4
    Scenarios <- MCScenarios
SPECIFICATION Spec
INVARIANT TypeOK
PROPERTY SummaryExact
 
PROPERTY CleanIsExact
PROPERTY AcceptedWindowIsKept
PROPERTY SlotsSound
