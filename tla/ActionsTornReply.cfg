\* A GET beside the thread that finishes the action.
CONSTANTS
    Action = {a1, a2}
    Name = {n1}
    NameOf <- SameName
    AppThread = {}
    Loop = Loop
    MaxSize = 1
    None = None
SPECIFICATION Spec
PROPERTIES
    CompletedReplyHasTime
