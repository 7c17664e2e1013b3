\* Clients request, read and remove three actions that share a store of two.
CONSTANTS
    Action = {a1, a2, a3}
    Name = {n1}
    NameOf <- SameName
    AppThread = {}
    Loop = Loop
    MaxSize = 2
    None = None
SYMMETRY Symmetric
SPECIFICATION Spec
INVARIANTS
    TypeOK
    NoticesInOrder
    CompletedNoticeHasTime
    AnnouncedCanBeFound
PROPERTIES
    PostAnswersCreated
    StoreRefinesBoundedLog
