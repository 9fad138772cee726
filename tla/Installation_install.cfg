SPECIFICATION Spec
CONSTANTS
    Files = {"VERSION", "Stet.exe"}
    Models = {"model"}
    MaxJobs = 3
INVARIANTS SettingsSurvive NamedModelIsWhole
PROPERTIES UpdateReplacesWholeFiles
CHECK_DEADLOCK FALSE
