\* Two threads set the same value at the same time.
CONSTANTS
    Val = {v0, v1, v2}
    Valid = {v0, v1}
    Initial = v0
    Observers = 2
    ReadOnly = {2}
    Thread = {t1, t2}
    Loop = Loop
    MaxCalls = 3
SPECIFICATION Spec
PROPERTY NotifiesOnlyChanges
CHECK_DEADLOCK FALSE
