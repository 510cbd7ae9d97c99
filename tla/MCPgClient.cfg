SPECIFICATION Spec
CONSTANTS
    Cursors = {"run"}
    Operations = {"update", "failing", "odd"}
    Statements = {"query", "change"}
    KindOf <- Kinds
    Oids = {1}
    Gids = {"g"}
    Forms = {TRUE}
    None = None
    MaxCalls = 5
INVARIANTS
    InStep
    NamesAgree
    CommitHonest
    TpcEnds
PROPERTY
    NoStrayWork
CHECK_DEADLOCK FALSE
