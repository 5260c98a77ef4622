SPECIFICATION FairSpec
CONSTANTS
  MaxEdges = 3
  Limit = 2
  Timers = {t1, t2}
  Outcomes = {"ok", "lostReply", "fail"}
  MaxRejoins = 1
  MaxExits = 1
INVARIANTS
  RepeatsExplained
PROPERTIES ImplementsOutbox EdgesSettle
CHECK_DEADLOCK FALSE
