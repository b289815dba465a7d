SPECIFICATION FairSpec
CONSTANTS
    j1 = j1
    j2 = j2
    r1 = r1
    r2 = r2
    None = None
    Jobs = {j1}
    Requests = {}
    Chains <- OneChain
    NewJobs <- OnlyRepeated
    Patches <- SomePatches
    Horizon = 3
    Lease = 2
    MaxDelay = 2
    BatchLimit = 2
    Faults = {}
    MaxFaults = 0
PROPERTIES
    DueIsQueued
CHECK_DEADLOCK FALSE
