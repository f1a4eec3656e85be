SPECIFICATION Spec
CONSTANTS
    Cpu = {c1, c2, c3}
    Task = {t1, t2}
    MCBusyCpu = c1
    Home <- MCHome
    BothLogs = FALSE
SYMMETRY MCSymmetry
INVARIANTS
    WaitsForBusyCpu
    DeadlocksNeedSchedule
CHECK_DEADLOCK FALSE
