SPECIFICATION Spec
CONSTANTS
    e1 = e1
    e2 = e2
    w = w
    r1 = r1
    r2 = r2
    NoInstance = NoInstance
    Runs = {e1}
    Instances = {w, r1, r2}
    ForeignInstances = {r1, r2}
    MaxAttempts = 1
    MaxFailovers = 1
INVARIANT ReadersSampled
