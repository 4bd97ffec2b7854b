\* The pangram filters; the other programs have next to no input.
CONSTANTS
    NULL = NULL
    NoThread = NoThread
    EACH_COUNT = 1
    IntWidth = 4
    STARTING_CAPACITY = 2
    MAX_LISTEN_SOCK_FDS = 1
    Width = 2
    MaxArray = 1
    MaxOps = 1
    MaxAddrs = 1
SPECIFICATION Spec
INVARIANT FindsPangrams
\* Every program ends.
CHECK_DEADLOCK FALSE
