SPECIFICATION Spec
CONSTANTS
  RunIds = {r1}
  Hops = {0, 1}
  Weak = {1}
  RunGate = "final"
  MaxEvents = 1
  MaxAttempts = 2
  Replicas = {w1, w2}
  Outcomes = {"ok"}
  MaxLosses = 0
INVARIANT LoadsAllEdges
CHECK_DEADLOCK FALSE
