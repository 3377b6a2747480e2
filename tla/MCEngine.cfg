CONSTANTS
    p1 = p1
    p2 = p2
    Publisher <- MCTwoPublishers
    Capacity = 2
    Batch = 2
    Faults = {"read", "save"}
    MaxEvents = 4
    MaxCommit = 2
    MaxCrashes = 1
SPECIFICATION OnTimeSpec
INVARIANTS
    OnlyOvertakenSkipped
    OnceBetweenCrashes
PROPERTIES
    EveryEventHandled
    RunsEnd
CHECK_DEADLOCK FALSE
