SPECIFICATION EndingSpec
CONSTANTS
    e1 = e1
    e2 = e2
    s1 = s1
    s2 = s2
    None = None
    Tokens = {1, 2, 3}
    Sessions = {s1, s2}
    Events = {e1}
    SessionOf <- OwnSession
    Relayable = {e1}
    Expiring = {e1}
    Watchable = {s1}
    Closing = {s1}
    Restarting = {s1, s2}
    Loops = {l1}
    l1 = l1
    l2 = l2
    ClaimLimit = 2
    MaxFailures = 0
    Faults = {}
    MaxFaults = 0
PROPERTIES
    EventNoticed
