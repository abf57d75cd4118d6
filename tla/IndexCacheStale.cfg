\* Internal store, one request at a time: a failed regeneration leaves Raw behind.
CONSTANTS
    r1 = r1
    f1 = f1
    f2 = f2
    Requests = {r1}
    Files = {f1, f2}
    Doubtful = {}
    Misnamed = {}
    ExternalCache = FALSE
    UseStatefiles = FALSE
    NoEntry = NoEntry
    NoIndex = NoIndex
    MaxTime = 3
    MaxFailures = 0
    MaxRestarts = 0
SYMMETRY Symmetry
SPECIFICATION Spec
INVARIANTS
    FreshIndex
