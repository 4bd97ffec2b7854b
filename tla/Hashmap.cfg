\* Sets and deletions from two buckets up to sixteen, with keys that share a
\* home or a hash.
CONSTANTS
    v1 = v1
    v2 = v2
    NULL = NULL
    Keys = {0, 2, 3, 4, 7, 12, 20}
    Values = {v1, v2}
    hash <- MCHash
    STARTING_BUCKETS = 2
    MaxDoublings = 3
    Callers <- MCCallers
SPECIFICATION MCSpec
INVARIANTS TypeOK SetsMakeADictionary NeverLost
PROPERTY SetReturns
\* The program crashes when memory is used up.
CHECK_DEADLOCK FALSE
