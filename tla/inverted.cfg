SPECIFICATION DisciplinedSpec
CONSTANTS
    Process = {p1, p2}
    Anchor = Anchor
    Null = Null
    Poison = Poison
    Cycles = {2, 5}
    Periods = {4, 10}
    MaxFreq = 2
    NsPerUs = 2
SYMMETRY MCSymmetry
INVARIANT DeadlinesMetInEffect
