\* One start(), at most one stop() or SIGINT at any time, one fade, one PUT.
CONSTANTS
    Destination = {0, 49, 57}
    Level = {100}
    MaxSets = 1
SPECIFICATION ProgramSpec
INVARIANTS
    ProgramTypeOK
    StoppedServiceIsSilent
PROPERTIES
    RunningServerStops
    StartReturnsAfterStop
    InterruptEndsProgram
    FadeEnds
