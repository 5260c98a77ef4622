SPECIFICATION FairSpec
CONSTANTS
  RunIds = {r1}
  Hops = {1}
  Weak = {1}
  RunGate = "final"
  MaxEvents = 2
  MaxAttempts = 2
  Replicas = {w1, w2}
  Outcomes = {"ok", "fail"}
  MaxLosses = 1
PROPERTIES CompletionsSettle
CHECK_DEADLOCK FALSE
