SPECIFICATION PySpec
CONSTANTS
    MaxSent = 2
    MemorySize = 2
    DiskSize = 2
    MaxRefusals = 1
    MaxFaults = 0
CHECK_DEADLOCK FALSE
INVARIANTS
    FailedPostsAreQueued
