SPECIFICATION Spec
CONSTANTS
    e1 = e1
    e2 = e2
    e3 = e3
    w = w
    r1 = r1
    r2 = r2
    NoInstance = NoInstance
    Runs = {e1, e2}
    Instances = {w, r1}
    ForeignInstances = {w, r1}
    SnapScript <- ShortSnap
    RoScript <- ShortRo
    HostScript <- ShortHost
    MaxAttempts = 2
    MaxRunning = 1
    MaxFailovers = 1
SYMMETRY Events
CONSTRAINT ThreeDeliveries
INVARIANTS TypeOK IdsInOrder SnapComplete OneSource
PROPERTIES ImplementsLog
