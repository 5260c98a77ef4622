SPECIFICATION SideSpec
CONSTANTS
    Tasks = {t1, t2}
    Confidences = {40, 90}
    AcceptLevel = 70
    GateMode = "min"
    MaxRuns = 3
    MaxOperations = 4
    Finalizer = fin
    MaxTraced = 3
    Agents = {a, b}
    DefaultAgent = main
    MaxSent = 3
    MemorySize = 2
    DiskSize = 1
    MaxRefusals = 1
    MaxFaults = 1
    Ids = {1, 2}
    MaxToolCalls = 3
    Emails = {a, b, c}
    Slugs = {w, x}
    Clients = {c1, c2}
    Founders = {a, b}
    FirstSlug = w
    MaxRequests = 3
    MaxErrors = 1
    Fields = {f, g}
    Workflows = {w1}
    Values = {v0, v1}
    DefaultValue = v0
    Editors = {e1, e2}
    MaxEdits = 3
    RunIds = {r1}
    Hops = {0, 1}
    Weak = {1}
    RunGate = "final"
    MaxEvents = 2
    MaxAttempts = 2
    Replicas = {p1, p2}
    Outcomes = {"ok", "lostReply", "fail"}
    MaxLosses = 1
CHECK_DEADLOCK FALSE
INVARIANTS
    RunsAccounted
    OnlyHopRecounted
    SuccessOverLowHop
    TracesNest
    DisorderWasSpilled
    LossExplained
    ProxiedCallsHaveHops
    DuplicateInvites
    StrandedExplained
    RowsAgree
    Converged
    CoversLanded
PROPERTIES
    AdminLostByOverlap
    ForeignFieldKept
    NoStaleOverwrite
