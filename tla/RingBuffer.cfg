\* Two threads add five events to a ring of two slots while a third lists it.
CONSTANTS
    Element = {e1, e2, e3, e4, e5}
    Writer = {w1, w2}
    Reader = {r1}
    MaxSize = 2
    WriteProtected = TRUE
    Nothing = Nothing
SPECIFICATION Spec
INVARIANTS
    TypeOK
    HoldsTheLatest
    IterationIsSafe
    NothingStaleIsListed
    UndisturbedListingIsExact
PROPERTY RefinesBoundedLog
