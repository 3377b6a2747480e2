CONSTANTS
    p1 = p1
    p2 = p2
    Publisher <- MCTwoPublishers
    Capacity = 2
    Batch = 2
    Faults = {}
    MaxEvents = 3
    MaxCommit = 1
    MaxCrashes = 0
SPECIFICATION MCSpec
INVARIANTS
    NothingSkipped
CHECK_DEADLOCK FALSE
