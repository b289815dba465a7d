SPECIFICATION Spec
CONSTANTS
    e1 = e1
    e2 = e2
    s1 = s1
    s2 = s2
    None = None
    Tokens = {1, 2, 3}
    Sessions = {s1}
    Events = {e1, e2}
    SessionOf <- SameSession
    Relayable = {e1}
    Expiring = {}
    Watchable = {s1}
    Closing = {}
    Restarting = {s1}
    Loops = {l1, l2}
    l1 = l1
    l2 = l2
    ClaimLimit = 1
    MaxFailures = 1
    Faults = {"crash", "db", "lostAnswer"}
    MaxFaults = 1
INVARIANTS
    ClaimsHeld
    RelayedOnce
    WakeKept
