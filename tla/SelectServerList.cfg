SPECIFICATION Spec
CONSTANTS
    tom = tom
    ann = ann
    joe = joe
    quit = quit
    Clients = {tom, ann, joe, quit}
    Quitters = {quit}
    Slots = 3
    Nobody = Nobody
INVARIANT
    AllClientsExamined
CHECK_DEADLOCK FALSE
