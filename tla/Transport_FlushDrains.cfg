SPECIFICATION Spec
CONSTANTS
  MaxSends = 3
  MaxMemory = 2
  MaxDisk = 2
  MaxRestarts = 0
  Ticks = {t1}
  Callers = {c1}
  Outcomes = {"ok", "fail"}
  Rejected = {}
  DiskFails = FALSE
INVARIANT FlushDrains
