CONSTANTS
  Threads = {ui, worker}
  MaxCall = 3
  MaxEvent = 1
  MaxRuns = 2
  Streams <- MCStreams
SPECIFICATION MCSpec
INVARIANTS NoLostReply SessionProtocol LaunchIsClean
PROPERTIES ImplementsService EveryCallReturns
CHECK_DEADLOCK FALSE
