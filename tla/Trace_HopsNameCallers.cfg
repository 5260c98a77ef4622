SPECIFICATION TraceSpec
CONSTANTS
    MaxTraced = 2
    Agents = {a, b}
    DefaultAgent = main
CHECK_DEADLOCK FALSE
INVARIANTS
    HopsNameCallers
