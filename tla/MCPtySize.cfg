SPECIFICATION FairSpec
CONSTANTS
    Cols <- MCCols
    Rows <- MCRows
    MaxConns = 2
    MaxResizes = 1
    MaxResyncs = 2
    Nudges = {n1, n2}
    CalmConnect = TRUE
INVARIANTS TypeOK SizeIsSmallest RowsRestored ViewSizeReported
PROPERTIES GhostsLeave RowsArrive
CHECK_DEADLOCK FALSE
