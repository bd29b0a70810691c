SPECIFICATION MCSpec
CONSTANTS
    Panels = {p1}
    MaxMade = 2
    MaxIds = 4
    MaxMixing = 3
    MaxLosses = 1
    LossSparesLists = TRUE
INVARIANTS StartsAtOnce
CHECK_DEADLOCK FALSE
