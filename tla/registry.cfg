SPECIFICATION DisciplinedSpec
CONSTANTS
    Process = {p1, p2, p3}
    Anchor = Anchor
    Null = Null
    Poison = Poison
    Cycles = {2, 5, 6}
    Periods = {4, 5, 6, 9}
    MaxFreq = 2
    NsPerUs = 2
SYMMETRY MCSymmetry
INVARIANTS
    TypeOK
    RegistryConsistent
    SortedByPeriod
    AdmittedMeetDeadlines
    RanksFollowPeriods
PROPERTY
    ImplementsReservationSet
