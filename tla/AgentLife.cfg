SPECIFICATION Spec
CONSTANTS
    Tenants = {"A", "B"}
    MaxEvents = 2
    MaxBoots = 2
    MaxMoves = 1
    MaxDelay = 1
INVARIANTS RestartLossless  FlushedSeriesSurvive HookClassifies
PROPERTY CleanExitSavesAll
CHECK_DEADLOCK FALSE
