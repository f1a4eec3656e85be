SPECIFICATION Spec
CONSTANTS
    Process = {p1, p2, p3}
    MAX_CPU = 2
    NsPerUs = 1
    Request <- MCRequest
SYMMETRY MCSymmetry
INVARIANTS
    TypeOK
    CpuListsConsistent
    CpusMeetDeadlines
    RoomNotOverstated
    PackedIsReplenished
    RanksFollowPeriodsPerCpu
    RtTestIsTimeDemand
    AdmissionMeetsDeadlines
    TieOrderIrrelevant
    PackingIsTotal
    FirstFitLeavesNoRoom
    AlphaIsLeastFrequency
    PmclockMeetsDeadlines
