SPECIFICATION MCSpec
CONSTANTS
  Calls = {1, 2}
  Texts <- MCTexts
  Slots = 2
  MaxAgain = 1
  MaxFreezes = 1
INVARIANTS  UnitsKeepTexts AnswersTaken ReviewIsLocal
PROPERTIES EverythingEnds
CHECK_DEADLOCK FALSE
