\* A writable and a read-only property share a value that the loop and two
\* threads change in three calls.
CONSTANTS
    Val = {v0, v1, v2}
    Valid = {v0, v1}
    Initial = v0
    Observers = 2
    ReadOnly = {2}
    Thread = {t1, t2}
    Loop = Loop
    MaxCalls = 3
SPECIFICATION Spec
INVARIANTS
    TypeOK
    EveryChangeIsAnnounced
    SettledValueWasAnnounced
    SequentialCallsAgree
\* The calls are bounded; once all have returned, nothing is left to do.
CHECK_DEADLOCK FALSE
