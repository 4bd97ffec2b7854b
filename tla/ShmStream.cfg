\* Three runs of the client against one server; more integers than slots.
CONSTANTS
    c1 = c1
    c2 = c2
    c3 = c3
    None = None
    Clients = {c1, c2, c3}
    Max = 3
    Capacity = 2
SPECIFICATION FairSpec
INVARIANTS OwnName DestroyedAfterUse
PROPERTIES ServerSurvives Served
\* All clients end, or a dead one leaves the server waiting for space.
CHECK_DEADLOCK FALSE
