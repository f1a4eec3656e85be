SPECIFICATION SteadySpec
CONSTANTS
    Task = {t1}
    Other = Other
    Period <- MCPeriod
    MCPeriodLength = 3
    Budgets = {2}
    Scales = {1}
    ForceSleep = 0
    MaxTime = 3
INVARIANT BudgetEnforced
