SPECIFICATION RecoverySpec
CONSTANTS
  MaxSends = 3
  MaxMemory = 3
  MaxDisk = 2
  MaxRestarts = 1
  Ticks = {t1, t2}
  Callers = {c1}
  Outcomes = {"ok", "fail"}
  Rejected = {1}
  DiskFails = FALSE
PROPERTIES
  FlushReturns
  ArmedTimerDrains
  DiskDrains
