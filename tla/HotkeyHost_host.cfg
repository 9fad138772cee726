SPECIFICATION FairSpec
CONSTANTS
    Combos = {f9, f10}
    Profiles = {p1}
    NoProfile = NoProfile
    MaxHostPolls = 1
    MaxNulls = 2
    MaxRequests = 2
    MaxPresses = 1
    MaxGrabs = 1
INVARIANTS NoLostWakeup FiresPressedCombo
PROPERTIES RequestAnswered
CHECK_DEADLOCK FALSE
