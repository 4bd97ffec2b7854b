\* Capacities, widths and lengths just past the points where something changes.
CONSTANTS
    NULL = NULL
    NoThread = NoThread
    EACH_COUNT = 3
    IntWidth = 4
    STARTING_CAPACITY = 2
    MAX_LISTEN_SOCK_FDS = 2
    Width = 6
    MaxArray = 9
    MaxOps = 6
    MaxAddrs = 4
SPECIFICATION Spec
INVARIANTS ResultsRight NothingAstray FinalCount
\* Every program ends.
CHECK_DEADLOCK FALSE
