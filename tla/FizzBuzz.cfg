\* All sixteen numbers; every thread may wake up without a signal.
CONSTANTS
    None = None
    Numbers = {0, 1, 2, 3, 4, 5, 6, 7, 8, 9, 10, 11, 12, 13, 14, 15}
    Spurious = {"main", "fizz", "buzz"}
SPECIFICATION FairSpec
INVARIANTS LineInOrder NoLostWakeup
PROPERTY NumbersForever
