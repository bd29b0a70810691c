SPECIFICATION Spec
CONSTANTS
    Cols <- MCCols
    Rows <- MCRows
    MaxConns = 1
    MaxResizes = 1
    MaxResyncs = 1
    Nudges = {n1}
    CalmConnect = TRUE
INVARIANTS PtyHasTheSize
CHECK_DEADLOCK FALSE
