SPECIFICATION Spec
CONSTANTS
    Flow <- MCFlow
    Homes <- MCHomes
    Signal = {"press"}
    Mode <- MCMode
    MaxQueue <- MCMaxQueue
    Plan <- MCPlan
    Runtime <- MCRuntime
    On <- MCOn
    At <- MCAt
    Limit = 2
    MaxTime = 2
    MaxRuns = 3
    MaxSignals = 2
    MaxUpdates <- MCMaxUpdates
    MaxCrashes = 1
INVARIANTS
    PolicyHolds
    QueueIsFIFO
    OneRunPerCause
    RunsLeaveATrace
    WaitsAreKept
    ConfirmationIsABarrier
    RetriesAreBounded
    DeadlineIsKept
    AwaitedIsNotPassed
PROPERTIES
    ImplementsRunContract
CHECK_DEADLOCK FALSE
