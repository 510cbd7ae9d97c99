SPECIFICATION FairSpec
CONSTANTS
    e1 = e1
    e2 = e2
    e3 = e3
    w = w
    r1 = r1
    r2 = r2
    NoInstance = NoInstance
    Runs = {e1, e2}
    Instances = {w, r1}
    ForeignInstances = {w, r1}
    SnapScript <- TinySnap
    RoScript <- ShortRo
    HostScript <- ShortHost
    MaxAttempts = 1
    MaxRunning = 2
    MaxFailovers = 0
INVARIANTS
  NeverOlder
  CollectorInv
PROPERTIES
  EveryEventEnds
