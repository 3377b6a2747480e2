CONSTANTS
    p1 = p1
    p2 = p2
    Publisher <- MCTwoPublishers
    Wanted = {1, 3, 4}
    Transports = {"stream", "page"}
    Capacity = 2
    Queue = 1
    Window = 3
    Page = 2
    Faults = {"latest", "earliest", "replay"}
    MaxEvents = 4
    MaxDrops = 1
SPECIFICATION FairSpec
INVARIANTS
    SessionOwesNothing
    OnceAndInOrder
    MissesNothing
PROPERTIES
    CatchesUp
CHECK_DEADLOCK FALSE
