\* Two calls of two objects share two Limiter items.
CONSTANTS
    c1 = c1
    c2 = c2
    o1 = o1
    o2 = o2
    Calls = {c1, c2}
    Objects = {o1, o2}
    IndexLimit = 2
SPECIFICATION FairSpec
INVARIANTS
    LimitedParallelism
    SlotSurvives
    CollectorNotStranded
    ReturnedComplete
PROPERTIES
    BatchLoadSpec
    EveryCallEnds
CHECK_DEADLOCK FALSE
