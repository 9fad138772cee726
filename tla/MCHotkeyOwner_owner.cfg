SPECIFICATION MCSpec
CONSTANTS
    Combos = {1, 2, 3}
    Unparsable = {2}
    panel = panel
    Profiles = {panel}
    NoProfile = NoProfile
    MaxHostPolls = 0
    MaxNulls = 1
    MaxRequests = 0
    MaxPresses = 0
    MaxGrabs = 1
    Launched = "yes"
    Hosts = {"rust", "python"}
    Bounds <- MCBounds
    Configs <- MCConfigs
    MaxRetries = 1
    MacSets <- MCMacSets
    MaxListeners = 3
    MaxChanges = 4
INVARIANTS HoldsAsRecorded HeldByOwner ListensAsAsked
CHECK_DEADLOCK FALSE
