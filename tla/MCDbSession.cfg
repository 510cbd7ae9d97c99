SPECIFICATION FairSpec
CONSTANTS
    Calls = {"update", "query"}
    Script <- TwoStatements
    MaxRows = 2
INVARIANTS
    InStep
    RowsKept
PROPERTIES
    SessionEnds
    ImplementsCall
