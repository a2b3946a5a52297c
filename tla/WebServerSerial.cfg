SPECIFICATION FairSpec
CONSTANTS
    get = get
    miss = miss
    other = other
    Clients = {get, miss, other}
    Method <- MCMethod
    Blocks <- MCBlocks
    ListenBacklog = 10
    NoClient = NoClient
PROPERTIES
    SimultaneousClientsHandled
CHECK_DEADLOCK FALSE
