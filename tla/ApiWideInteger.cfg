\* A PUT of an integer that does not fit into an int.
CONSTANTS
    lamp = lamp
    amp = amp
    level = level
    serial = serial
    go = go
    known = known
    unknown = unknown
    e1 = e1
    e2 = e2
    Server <- MCServer
    OtherServers <- MCOtherServers
    Stoi <- MCStoi
    Lower <- MCLower
    Request <- MCRequest
    Property <- MCProperty
    TypeOf <- MCTypeOf
    Allowed <- MCAllowed
    ReadOnly <- MCReadOnly
    Initial <- MCInitial
    PropertyObjects <- MCPropertyObjects
    ActionObjects <- MCActionObjects
    Json <- MCJson
    HalfRange = 4
    Action <- MCAction
    Id = {i1, i2, i3}
    Event = {e1, e2}
    NameOf <- MCNameOf
    Available <- MCAvailable
    MaxSize = 1
    Emitter = {t1}
    Client = {c1}
    Socket = {s1}
    None = None
    MaxRequests = 1
SPECIFICATION Spec
PROPERTY AcceptedAsRequested
