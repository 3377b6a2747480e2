CONSTANTS
    c1 = c1
    c2 = c2
    k1 = k1
    k2 = k2
    e1 = e1
    on = on
    off = off
    Caller <- MCOneCaller
    IdemKey <- MCOneKey
    Entity <- MCEntity
    Value <- MCOneValue
    Timeout = 1
    ScanLimit = 1
    MaxTime = 3
    MaxVersion = 1
    MaxCommands = 1
    Availability = {"available"}
SPECIFICATION Spec
PROPERTIES
    ReportPrevails
CHECK_DEADLOCK FALSE
