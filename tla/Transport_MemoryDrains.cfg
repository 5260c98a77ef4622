SPECIFICATION RuntimeSpec
CONSTANTS
  MaxSends = 3
  MaxMemory = 2
  MaxDisk = 2
  MaxRestarts = 0
  Ticks = {t1}
  Callers = {c1}
  Outcomes = {"ok"}
  Rejected = {}
  DiskFails = FALSE
PROPERTY MemoryDrains
