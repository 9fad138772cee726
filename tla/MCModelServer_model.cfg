SPECIFICATION MCSpec
CONSTANTS
    Threads = {t1, t2}
    Features = {"gpu"}
    MaxPolls = 1
    MaxServers = 3
    MaxCalls = 2
INVARIANTS OneRecycle NothingLeftBehind LaunchDecides
PROPERTIES CallsReturn
CHECK_DEADLOCK FALSE
