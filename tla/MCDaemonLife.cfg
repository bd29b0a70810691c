SPECIFICATION MCSpec
CONSTANTS
    Ids = {i1}
    MaxConns = 2
    MaxSess = 2
    OneStop = TRUE
    OverflowChecks = FALSE
    MaxRacing = 4
    MaxStopping = 2
INVARIANTS EveryLiveSessionKnown ViewsAreServed NothingOutlives
CHECK_DEADLOCK FALSE
PROPERTIES EndForgetsOnlyKilled KilledDies IdleExits SocketGoneEnds
