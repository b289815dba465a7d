SPECIFICATION FairSpec
CONSTANTS
    p1 = p1
    p2 = p2
    d1 = d1
    d2 = d2
    x1 = x1
    k1 = k1
    s1 = s1
    None = None
    Procs = {p1, p2}
    DurableCallers = {d1}
    DirectCallers = {}
    Overriding = {}
    Keys = {k1}
    KeyOf <- SameKey
    Sessions = {s1}
    SessionOf <- OneSession
    Closing = {s1}
    Expiring = {d1}
    HostOf <- DirectInP2
    MaxAttempts = 2
    BatchLimit = 1
    Faults = {}
    MaxFaults = 0
INVARIANTS
    NoLostWake
PROPERTIES
    JobsSettle
    ClosedStaysQuiet
CHECK_DEADLOCK FALSE
