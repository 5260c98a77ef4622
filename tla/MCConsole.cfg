SPECIFICATION MCSpec
CONSTANTS
    Workspaces = {"w1", "w2"}
    Populated = {"w1"}
    Configured = {"w1"}
    Queries = {"q1", "q2"}
    Runs = {"r1", "r2"}
    MaxRequests = 3
    Ids = {"w1", "r1", "r/2", "failed"}
    Encoded <- MCEncoded
    AgentRows <- MCAgentRows
    MaxHistory = 3
    EngineAgents = {a, b, c}
    MaxEdges = 3
    Influences = {50}
    Gains = {0, 30}
    Iterations = 1
    ScoreLimit = 20000
    Keys = {k1, k2, k3}
    FirstKeys = {k1}
    Callers = {p}
    Managers = {m1, m2}
    MaxManaged = 2
    MaxKeyErrors = 1
    NoKey = NoKey
CHECK_DEADLOCK FALSE
INVARIANTS
    RotatedHasSuccessor
    ShownIsCurrent
    SavedAtHome
    AddressRestores
PROPERTIES
    WalkEnds
    RevokedIsRefused
