SPECIFICATION Spec
CONSTANTS
    t1 = t1
    t2 = t2
    b1 = b1
    b2 = b2
    b3 = b3
    b4 = b4
    Callers = {t1, t2}
    Calls = 2
    Numbers = {3, 4, 5, 6}
    Many = 2
    Buffers = {b1, b2, b3, b4}
    Loops = 2
    Width = 4
    Height = 2
    Screens = {2, 4, 6}
    Lines = {1, 2, 3}
    Block = 2
INVARIANTS
    TypeOK
    CaptureBalanced
    RuinNeedsCause
    ScannedOutIsKept
    ConsoleBack
    ImageIsRight
PROPERTIES
    CaptureEnds
CHECK_DEADLOCK FALSE
