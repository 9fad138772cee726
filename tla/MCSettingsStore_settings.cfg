SPECIFICATION MCSpec
CONSTANTS
  SavedFiles <- MCSaved
  MaxActs = 3
  MaxRestarts = 1
  MaxRefusals = 1
  Limit = 2
  MaxUses = 6
  MaxFaults = 1
  MaxStops = 1
INVARIANTS SettingsHold FileKeepsUp HistoryFaithful
CHECK_DEADLOCK FALSE
