\* External cache store: two requests, a failure, a restart with a torn
\* statefile, a file that may be no chart and one with a misleading name.
CONSTANTS
    r1 = r1
    r2 = r2
    f1 = f1
    f2 = f2
    Requests = {r1, r2}
    Files = {f1, f2}
    Doubtful = {f1}
    Misnamed = {f2}
    ExternalCache = TRUE
    UseStatefiles = TRUE
    NoEntry = NoEntry
    NoIndex = NoIndex
    MaxTime = 2
    MaxFailures = 1
    MaxRestarts = 1
SYMMETRY Symmetry
SPECIFICATION Spec
INVARIANTS
    TypeOK
    
    NoDuplicateEntries
