SPECIFICATION Spec
CONSTANTS
    i1 = i1
    i2 = i2
    i3 = i3
    s1 = s1
    s2 = s2
    None = None
    Sessions = {s1}
    Items = {i1, i2, i3}
    SessionOf <- OneSession
    ModeOf <- CollectAndStop
    BatchOf <- OneBatch
    Chatting = {}
    Cancelling = {s1}
    MaxSessions = 1
    Faults = {"crash", "db"}
    MaxFaults = 1
SYMMETRY Alike
INVARIANTS
    RanOnce
    NothingLeftBehind
    NothingSwallowed
