SPECIFICATION FairSpec
CONSTANTS
    play = play
    info = info
    bad = bad
    Calls = {play, info, bad}
    Kind <- MCKind
    Mutating = {play}
    Capacity = 1
    MaxWorkers = 4
    MaxConns = 2
    MaxFaults = 1
    Disturbances = {"late", "slow", "panic"}
INVARIANTS ReplyIsOwn ExecutedOnceInOrder
PROPERTY EveryCallAnswered
