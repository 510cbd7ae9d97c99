SPECIFICATION RetentionSpec
CONSTANTS
    stmts = stmts
    inst = inst
    snap = snap
    host = host
    Tables = {stmts, inst}
    Snap = snap
    Host = host
    DefaultRetention = 2
    Retentions = {0, 1, 2, 3}
    MaxDay = 5
    MaxSnaps = 4
CHECK_DEADLOCK FALSE
INVARIANTS
    ExpireTogether
    RetentionInv
PROPERTY KeepsWhatItShould
