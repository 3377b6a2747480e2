SPECIFICATION Spec
CONSTANTS
    Flow = {"lamp"}
    Homes <- AllFlows
    Signal = {"press"}
    Mode <- OneMode
    MaxQueue <- Three
    Plan <- ConfirmPlan
    Runtime <- Zero
    On <- OnPress
    At <- NotScheduled
    Limit = 100
    MaxTime = 1
    MaxRuns = 1
    MaxSignals = 1
    MaxUpdates <- Zero
    MaxCrashes = 0
INVARIANTS
    UnconfirmedNeverSucceeds
CHECK_DEADLOCK FALSE
