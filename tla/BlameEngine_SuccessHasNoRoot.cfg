SPECIFICATION EngineSpec
CONSTANTS
    EngineAgents = {a, b, c}
    MaxEdges = 2
    Influences = {50}
    Gains = {0}
    Iterations = 1
    ScoreLimit = 20000
CHECK_DEADLOCK FALSE
INVARIANT SuccessHasNoRoot
