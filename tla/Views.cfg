SPECIFICATION ViewsSpec
CONSTANTS
    u1 = u1
    u2 = u2
    c1 = c1
    c2 = c2
    Everyone = Everyone
    None = None
    User = {u1, u2}
    Client = {c1, c2}
    UserOf <- MCUserOf
    Asks <- MCAsks
    MaxVersion = 1
    MaxInFlight = 2
INVARIANTS
    OwnShown
PROPERTIES
    EditShown
CHECK_DEADLOCK FALSE
