SPECIFICATION Spec
CONSTANTS
    Task = {t1}
    Other = Other
    Period <- MCPeriod
    MCPeriodLength = 2
    Budgets = {1}
    Scales = {1}
    ForceSleep = 0
    MaxTime = 1
INVARIANTS
    TypeOK
    NoLostTask
    CancelledHasNoTimer
