SPECIFICATION FairQueueSpec
CONSTANTS
    Rows <- MCRows
    Unready = {"c"}
    Depth = 2
    MaxAttempts = 2
    MaxRetries = 1
    MaxEdits = 1
    MaxTakes = 2
    MaxFaults = 1
    Open = {}
INVARIANT QueueIsWindow
PROPERTIES  TakeStands
CHECK_DEADLOCK FALSE
