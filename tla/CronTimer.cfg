SPECIFICATION FairSpec
CONSTANTS
    j1 = j1
    j2 = j2
    r1 = r1
    r2 = r2
    None = None
    Jobs = {j1, j2}
    Requests = {r1}
    Chains <- TwoChains
    NewJobs <- SomeJobs
    Patches <- SomePatches
    Horizon = 3
    Lease = 2
    MaxDelay = 2
    BatchLimit = 2
    Faults = {"crash", "db"}
    MaxFaults = 1
INVARIANTS
    TimerKept
    OneHolder
PROPERTIES
    DueIsClaimed
CHECK_DEADLOCK FALSE
