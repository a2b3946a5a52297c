SPECIFICATION FairSpec
CONSTANTS
    tom = tom
    ann = ann
    joe = joe
    quit = quit
    Clients = {tom, ann, joe, quit}
    Quitters = {quit}
    Slots = 2
    Nobody = Nobody
INVARIANTS
    TypeOK
    CountsOpenClients
    ReadNeverBlocks
    ListExactWithoutGap
    QuitIsHeard
PROPERTIES
    EchoedWithoutGap
CHECK_DEADLOCK FALSE
