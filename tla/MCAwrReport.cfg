SPECIFICATION Spec
CONSTANTS
    w = w
    r1 = r1
    q1 = q1
    q2 = q2
    Readers <- OneReader
    Writer = w
    Queries <- TwoQueries
    MaxSnaps = 3
    MaxWork = 3
    MaxRestarts = 2
SYMMETRY QuerySymmetry
CHECK_DEADLOCK FALSE
INVARIANTS
    TypeOK
    ReportExact
    RefusalJustified
    Awr12LeavesNew
    WindowExact
