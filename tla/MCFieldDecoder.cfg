SPECIFICATION Spec
CONSTANTS
    Catalog <- AllTypes
    Damages <- AllDamages
    Strays <- StrayIds
    AnyIds <- UntypedIds
    MaxDamaged = 5
    Ambiguous <- Unclear
INVARIANTS
    RoundTrip
    ReadIsComplete
    NothingLost
