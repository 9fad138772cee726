SPECIFICATION Spec
CONSTANTS
  Apps = {"editor", "mail"}
  Modes = {"panel", "silent"}
  MaxFire = 2
  MaxCall = 4
  MaxMove = 1
  MaxCopy = 1
  MaxUndo = 1
  MaxUse = 2
INVARIANTS NoStrandedShell PastedTwiceOnlyLate 
PROPERTIES BusyReleased
CHECK_DEADLOCK FALSE
