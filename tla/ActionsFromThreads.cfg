\* Clients and a thread of the application compete for a store of one.
CONSTANTS
    Action = {a1, a2}
    Name = {n1}
    NameOf <- SameName
    AppThread = {t1}
    Loop = Loop
    MaxSize = 1
    None = None
SPECIFICATION FairSpec
INVARIANT RemovedIsCancelledAndGone
PROPERTIES
    StoreRefinesBoundedLog
    EveryActionIsAnnouncedToTheEnd
