SPECIFICATION MCSpec
CONSTANTS
    MaxProcs = 2
    Tasks = {1, 2}
    MaxCrashes = 1
    Cases <- MCCases
    Rows = 2
    Duration = 3
    Windows = {}
    Scenarios <- MCScenarios
INVARIANTS OneEngine StopStands ChannelRestored
PROPERTIES DeathAnswered OutageEnds
CHECK_DEADLOCK FALSE
