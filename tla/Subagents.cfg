CONSTANTS
    None = None
    a = a
    b = b
    c = c
    s = s
    sa = sa
    sb = sb
    Runs = {a, b, c}
    Tops = {s}
    ParentOf <- MCParentOf
    ChildOf <- MCChildOf
    ReplacementOf <- MCReplacementOf
    Silent = {}
    Kept = {c}
    Closing = {s}
    MaxRunning = 2
    MaxChildren = 2
    MaxArchived = 2
    MaxRetries = 2
    Faults = {"db", "hook", "post", "lostAck", "slowAbort", "crash"}
    MaxFaults = 1
    MaxAtCrash = 2

SPECIFICATION Spec

CHECK_DEADLOCK FALSE

PROPERTY
    AnnounceSettles

INVARIANTS
    SlotsBalanced
    SessionKept
    NoneOutlives
    KilledStaysQuiet
    ToldOnce
    HandledMeansTold
