SPECIFICATION MCSpec
CONSTANTS
    Panels = {p1}
    MaxMade = 3
    MaxIds = 5
    MaxMixing = 3
    MaxLosses = 1
    LossSparesLists = TRUE
INVARIANTS RunningIsAttached EndedTerminalsEnd NothingOutlivesQuit
PROPERTIES NewOutlivesOld Settles
CHECK_DEADLOCK FALSE
