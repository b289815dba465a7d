SPECIFICATION Spec
CONSTANTS
    m1 = m1
    m2 = m2
    m3 = m3
    m4 = m4
    m5 = m5
    s1 = s1
    s2 = s2
    None = None
    Messages = {m1, m2, m3, m4, m5}
    Sessions = {s1, s2}
    SessionOf <- InSessions
    FirstMode <- OneEach
    Settable = {"collect", "steer"}
    MaxRuns = 1
    MaxPending = 2
    MaxSpent = 2
SYMMETRY Alike
INVARIANTS
    RunsCounted
    Attended
    InOrder
    StopHolds
CHECK_DEADLOCK FALSE
