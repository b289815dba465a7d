SPECIFICATION Spec
CONSTANTS
    p1 = p1
    p2 = p2
    d1 = d1
    d2 = d2
    x1 = x1
    k1 = k1
    s1 = s1
    None = None
    Procs = {p1, p2}
    DurableCallers = {d1}
    DirectCallers = {x1}
    Overriding = {}
    Keys = {k1}
    KeyOf <- SameKey
    Sessions = {s1}
    SessionOf <- OneSession
    Closing = {}
    Expiring = {}
    HostOf <- DirectInP2
    MaxAttempts = 2
    BatchLimit = 1
    Faults = {"crash", "db", "lostAck", "slow", "keyLapse"}
    MaxFaults = 1
INVARIANTS
    NoUnexplainedDuplicate
    OneWorkerPerJob
    AttemptsBounded
CHECK_DEADLOCK FALSE
