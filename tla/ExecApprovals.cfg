SPECIFICATION Spec
CONSTANTS
    None = None
    b = b
    b2 = b2
    r = r
    cmd = cmd
    always = always
    once = once
    deny = deny
    Calls = {b, b2, r}
    CommandOf <- MCCommandOf
    TraitsOf <- MCTraitsOf
    Free = {}
    AgainOf <- MCAgainOf
    FallsBack = {b}
    Remote = {r}
    Boxable = {b, b2}
    Quiet = {}
    Clicks = {always, once, deny}
    CallOf <- MCCallOf
    DecisionOf <- MCDecisionOf
    Rpc = {deny}
    MaxRunning = 1
    MaxFinished = 1
    Faults = {"crash", "db", "unroutable", "post", "lostAck", "refused", "box"}
    MaxFaults = 2
    MaxCalls = 2
INVARIANTS
    RecordedFirst
    AbortHonoured
    Accounted
    ClientsTold
PROPERTIES
    ImplementsContract
    Answered
CHECK_DEADLOCK FALSE
