SPECIFICATION MCSpec
CONSTANTS
    Instances = {a1, a2}
    MaxRetries = 2
    MaxStarts = 2
    MaxLoads = 2
    MaxRequests = 3
    MaxFrames = 3
    MaxUpdaters = 2
INVARIANTS NothingWaitsInVain HandsOver
PROPERTIES QuitEnds
CHECK_DEADLOCK FALSE
