\* Four threads on every short array and on two whose parts have several items.
CONSTANTS
    Tcnt = 4
    MaxLen = 5
    Values = {1, 2, 3}
    Inputs <- MCInputs
SPECIFICATION FairSpec
INVARIANTS NoRace EndsSorted
PROPERTY SortReturns
\* The program ends.
CHECK_DEADLOCK FALSE
