\* Two producers, two consumers on two slots, any of which may die anywhere.
CONSTANTS
    p1 = p1
    p2 = p2
    c1 = c1
    c2 = c2
    v1 = v1
    v2 = v2
    None = None
    Producers = {p1, p2}
    Consumers = {c1, c2}
    Mortal = {p1, p2, c1, c2}
    Capacity = 2
    Values = {v1, v2}
SPECIFICATION FairSpec
INVARIANTS TypeOK SlotAccounting NoSlotRace
PROPERTIES ImplementsFifo EveryElementTaken
\* Everybody may be dead.
CHECK_DEADLOCK FALSE
