CONSTANTS
    confirmer = confirmer
    lister = lister
    light = light
    lock = lock
    toggle = toggle
    r1 = r1
    r2 = r2
    f1 = f1
    s1 = s1
    s2 = s2
    w1 = w1
    w2 = w2
    t1 = t1
    t2 = t2
    t3 = t3
    d1 = d1
    d2 = d2
    e1 = e1
    e2 = e2
    e3 = e3
    adapter = adapter
    hall = hall
    attic = attic
    a1 = a1
    a2 = a2
    h1 = h1
    p1 = p1
    p2 = p2
    j1 = j1
    j2 = j2
    n1 = n1
    McpToken = {confirmer, lister}
    Scopes <- MCScopes
    Policy <- MCPolicy
    Listed <- MCListed
    Quota <- MCQuota
    Call = {light, toggle}
    Tool <- MCTool
    Request = {r1, r2}
    TokenLife = 2
    ApprovalLife = 1
    Hour = 2
    MaxApprovals = 1
    MaxTries = 2
    MaxTime = 2
    FlowId = {f1}
    Source = {s1, s2}
    Writer = {w1, w2}
    MaxWrites = 3
    Thread = {t1, t2, t3}
    Key = {"on"}
    Interval = 2
    Coalesce = 1
    Deadline = 3
    MaxCalls = 3
    MaxHueTime = 4
    Device = {d1, d2}
    Entity = {e1, e2, e3}
    Adapter = {adapter}
    Owner <- MCOwner
    AdapterOf <- MCAdapterOf
    GivenName = {"box"}
    ChosenName = {"mine"}
    HealthReport = {"degraded"}
    MaxAreas = 1
    Bridge = adapter
    Saturation = 8
    MaxLosses = 2
    PageId = {1, 2, 3}
    SortName = {1, 2}
    Limit = 1
    MaxChanges = 5
    Archive = {a1, a2}
    MaxCommits = 2
    MaxRestores = 3
    LastVersion = 4
    Filling = {2, 3}
    MaxOpens = 3
    Char = {"(", ")", "[", "]", "quote", "backslash", ";", " ", "newline", "a", ":", "1", ".", "u0001"}
    MaxKeys = 4
    Root <- MCRoot
    Capabilities <- MCCapabilities
    KnownFlow = {"other"}
    Values <- MCValues
    StateKey <- MCStateKey
    Local <- MCLocal
    MqttAdapter = adapter
    Topic = {hall, attic}
    StateTopic <- MCStateTopic
    Readable = {"on", "off"}
    QueueLimit = 2
    MaxPublications = 3
    MaxBreaks = 1
    Host = {h1}
    PairRequest = {p1, p2}
    MaxAppKeys = 3
    MaxLives = 2
    JobRequest = {j1, j2}
    Node = {n1}
    Outcomes = {"failed"}
    MaxDaemons = 2
    MaxStarts = 2
CONSTRAINT MCFewChoices
SPECIFICATION HomeSpec
INVARIANTS
    HomeTypeOK
    ApprovalSpentOnce
    AuditCountsEffects
    RevisionsNumberDefinitions
    LastStagedWins
    SlotsAreSpaced
    JournalExplainsRegistry
    WaitingMeansUnavailable
    QuietMeansCurrent
    PagesListOnce
    RestoreKeepsData
    MigrationsConverge
    FlowRoundTrip
    AcceptedFlowsRun
    FollowedBridgesComeBack
    SidecarKeepsPromises
CHECK_DEADLOCK FALSE
