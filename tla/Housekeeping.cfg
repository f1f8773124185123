CONSTANTS
    Boards = {b1, b2, b3}
    Batch = 2
    Venues = {v1}
    AgeLimit = 1
    MaxClock = 3
    Digits = 3
    Base = 2
    NoClient = NoClient
    Clients <- MCClients
    VenueLists <- MCVenueLists
    Scenarios <- MCScenarios
SPECIFICATION CacheSpec
INVARIANT TypeOK
PROPERTY FindExact
PROPERTY ExpiredOnly
PROPERTY RoundComplete
PROPERTY ExpiredGone
PROPERTY CacheConverges
