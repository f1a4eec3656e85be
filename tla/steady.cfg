SPECIFICATION FairSteadySpec
CONSTANTS
    Task = {t1}
    Other = Other
    Period <- MCPeriod
    MCPeriodLength = 5
    Budgets = {2, 3}
    Scales = {1, 2}
    ForceSleep = 1
    MaxTime = 7
INVARIANTS
    ArmedWithinBudget
    ChargeCoversUse
    WatchedUnlessSpared
PROPERTIES
    ThrottledIsWoken
    ImplementsReservation
    KeepsReplenishing
