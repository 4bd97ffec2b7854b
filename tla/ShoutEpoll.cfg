\* Two connections share the loop and its event array: a client that sends more
\* than fits its send queue, and one that sends a byte.  Clients read their echo.
CONSTANTS
    c1 = c1
    c2 = c2
    l1 = l1
    Conns = {c1, c2}
    Listeners = {l1}
    MaxBytes = 4
    Talkers = {c1}
    SendCap = 1
    LowWater = 1
    Backlog = 2
    Resets = {c1}
    BufCap = 3
    MaxEvents = 2
    MaxFaults = 1
SPECIFICATION FairSpec
INVARIANTS TypeOK EchoIntact NothingStranded EventsAlive
PROPERTIES HealthyKept EchoedOrClosed BacklogServed
\* Clients connect once: the server may wait for ever.
CHECK_DEADLOCK FALSE
