SPECIFICATION WindowSpec
CONSTANTS
  MaxThreads = 2
  MaxWorkers = 2
  MaxActs = 2
PROPERTIES ChatNotOverwritten EverySettles
CHECK_DEADLOCK FALSE
