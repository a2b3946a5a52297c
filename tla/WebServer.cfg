SPECIFICATION FairSpec
CONSTANTS
    get = get
    miss = miss
    other = other
    Clients = {get, miss, other}
    Method <- MCMethod
    Blocks <- MCBlocks
    ListenBacklog = 2
    NoClient = NoClient
INVARIANTS
    TypeOK
    Handoff
    OneInService
    PageComplete
PROPERTIES
    ImplementsService
    PoliteClientsServed
CHECK_DEADLOCK FALSE
