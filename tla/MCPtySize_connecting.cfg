SPECIFICATION Spec
CONSTANTS
    Cols <- MCCols
    Rows <- MCRows
    MaxConns = 1
    MaxResizes = 1
    MaxResyncs = 0
    Nudges = {n1}
    CalmConnect = FALSE
INVARIANTS ViewSizeReported
CHECK_DEADLOCK FALSE
