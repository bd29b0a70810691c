SPECIFICATION Spec
CONSTANTS
    Files = {f}
    Panels = {p, q}
    MaxTexts = 3
    MaxMoves = 2
    MaxJobs = 1
    MaxLaunches = 0
PROPERTIES UnsavedKept
CHECK_DEADLOCK FALSE
