SPECIFICATION Spec
CONSTANTS
    Flow = {"lamp"}
    Homes <- AllFlows
    Signal = {"press"}
    Mode <- OneMode
    MaxQueue <- Three
    Plan <- OnePlan
    Runtime <- Zero
    On <- OnPress
    At <- NotScheduled
    Limit = 100
    MaxTime = 1
    MaxRuns = 1
    MaxSignals = 1
    MaxUpdates <- Zero
    MaxCrashes = 1
INVARIANTS
    CompletedMeansSent
CHECK_DEADLOCK FALSE
