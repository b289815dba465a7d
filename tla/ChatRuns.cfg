SPECIFICATION Spec
CONSTANTS
    None = None
    here = here
    back = back
    m = m
    m2 = m2
    item = item
    power = power
    chat = chat
    Clients = {here, back}
    Sessions = {chat}
    Works = {m, m2, item, power}
    Sends = {m, m2}
    Items = {item}
    Powers = {power}
    Ids = {m, item, power}
    IdOf <- MCIdOf
    SessionOf <- MCSessionOf
    ClientOf <- MCClientOf
    Thinking = {m}
    Faults = {"db"}
    MaxWorks = 2
    MaxSpent = 2
INVARIANTS
    OneRunPerKey
    AbortSticks
    EndsAgree
    NoOrphans
PROPERTIES
    Settles
CHECK_DEADLOCK FALSE
