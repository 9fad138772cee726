SPECIFICATION MCSpec
CONSTANTS
    t1 = t1
    p1 = p1
    p2 = p2
    Texts = {t1, t2}
    NoText = NoText
    editor = editor
    terminal = terminal
    stet = stet
    Windows = {editor, terminal, stet}
    NoWindow = NoWindow
    Terminals <- MCTerminals
    Unreadable = {}
    Ineligible <- MCIneligible
    Kinds = {"capture", "paste"}
    MaxCommands = 1
    MaxUserCopies = 1
    MaxPresses = 1
    MaxLocks = 1
    MaxFocusMoves = 1
    MaxPolls = 1
    ModWaitSteps = 1
    Pastes = {p1, p2}
    MaxCaptures = 2
    MaxMine = 2
INVARIANT PasteOkMeansInjected
CHECK_DEADLOCK FALSE
