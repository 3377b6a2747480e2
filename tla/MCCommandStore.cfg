CONSTANTS
    c1 = c1
    c2 = c2
    k1 = k1
    k2 = k2
    e1 = e1
    on = on
    off = off
    Caller <- MCTwoCallers
    IdemKey <- MCTwoKeys
    Entity <- MCEntity
    Value <- MCTwoValues
    Timeout = 0
    ScanLimit = 2
    MaxTime = 1
    MaxVersion = 2
    MaxCommands = 2
    Availability = {"available", "removed"}
SPECIFICATION MCSpec
INVARIANTS
    JournalExplainsCommands
    JournalExplainsState
    ConfirmedByMatchingReport
CHECK_DEADLOCK FALSE
