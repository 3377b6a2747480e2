CONSTANTS
    p1 = p1
    p2 = p2
    Publisher = {p1}
    Wanted = {1, 3}
    Transports = {"stream"}
    Capacity = 2
    Queue = 1
    Window = 2
    Page = 2
    Faults = {}
    MaxEvents = 3
    MaxDrops = 0
SPECIFICATION FairSpec
PROPERTIES
    ResyncLeadsToStream
CHECK_DEADLOCK FALSE
