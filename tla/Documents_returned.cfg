SPECIFICATION Spec
CONSTANTS
    Files = {f}
    Panels = {p}
    MaxTexts = 4
    MaxMoves = 2
    MaxJobs = 1
    MaxLaunches = 0
INVARIANTS UnsavedComesBack
CHECK_DEADLOCK FALSE
