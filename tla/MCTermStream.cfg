SPECIFICATION FairSpec
CONSTANTS
    Chunk = 2
    Capacity = 3
    Window = 1
    MaxQueued = 4
    Control = 1
    WireCap = 1
    MaxBytes = 6
    MaxOther = 1
    MaxLosses = 1
    LossSparesExited = TRUE
INVARIANTS PaintedOnce NoSilentLoss NothingLeftBehind LimitsKept
PROPERTIES ExitComesLast CatchesUp ShowsOutput
CHECK_DEADLOCK FALSE
