SPECIFICATION MCSpec
CONSTANTS
    Panels = {p1}
    MaxMade = 2
    MaxIds = 4
    MaxMixing = 3
    MaxLosses = 1
    LossSparesLists = FALSE
PROPERTIES PollingGoesOn
CHECK_DEADLOCK FALSE
