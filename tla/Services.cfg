CONSTANTS
    Endpoints = {1, 2}
    Wanted = {1, 2}
    Limit = 1
    Lag = 0
    MaxChanges = 3
    MaxForeign = 1
    Own = Own
    Stranger = Stranger
    Idle = Idle
SPECIFICATION FairSpec
INVARIANT SteadyListed
PROPERTY RegistryConverges
