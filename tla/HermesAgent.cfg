SPECIFICATION Spec
CONSTANTS
    core = core
    db = db
    Loggers = {core, db}
    Followup = 2
    Window = 1
    Threshold = 2
    MaxRecords = 3
    MaxTime = 2
    MaxCalls = 2
INVARIANTS TracebacksAreReported FramesAreCollected
PROPERTIES IncidentsKeepUp BurstsAreExact CallsReturn
CHECK_DEADLOCK FALSE
