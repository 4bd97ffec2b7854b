\* Two connections share the loop and its event array; clients read their echo.
CONSTANTS
    c1 = c1
    c2 = c2
    l1 = l1
    Conns = {c1, c2}
    Listeners = {l1}
    MaxBytes = 4
    Talkers = {c1}
    SendCap = 1
    LowWater = 1
    Backlog = 2
    Resets = {c1}
    BufCap = 3
    MaxEvents = 3
    MaxFaults = 1
SPECIFICATION FairSpec
INVARIANTS EchoIntact FiltersFollowSize
PROPERTIES ClosedWhenDone EchoedOrClosed BacklogServed
\* Clients connect once: the server may wait for ever.
CHECK_DEADLOCK FALSE
