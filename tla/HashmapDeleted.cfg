\* The map as it is created, and two keys that collide in it.
CONSTANTS
    v1 = v1
    v2 = v2
    NULL = NULL
    Keys = {0, 8}
    Values = {v1, v2}
    hash <- MCHash
    STARTING_BUCKETS = 8
    MaxDoublings = 1
    Callers <- MCColliding
SPECIFICATION MCSpec
INVARIANT MakesADictionary
