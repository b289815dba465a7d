SPECIFICATION FewSpec
CONSTANTS
    i1 = i1
    i2 = i2
    i3 = i3
    s1 = s1
    s2 = s2
    None = None
    Sessions = {s1, s2}
    Items = {i1, i2, i3}
    SessionOf <- TwoSessions
    ModeOf <- CollectOrPost
    BatchOf <- TwoBatches
    Chatting = {s2}
    Cancelling = {}
    MaxSessions = 1
    Faults = {"crash", "db"}
    MaxFaults = 1
PROPERTIES
    QueueDrains
