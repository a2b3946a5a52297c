SPECIFICATION Spec
CONSTANTS
    on1 = on1
    on2 = on2
    off = off
    Procs = {on1, on2, off}
    Command <- MCCommand
    Nobody = Nobody
INVARIANT
    SignalHasAProcess
CHECK_DEADLOCK FALSE
