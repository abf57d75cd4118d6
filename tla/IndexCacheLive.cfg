\* Internal cache store: requests share listings and regenerations, change one
\* index in place, and every request is answered.
CONSTANTS
    r1 = r1
    r2 = r2
    f1 = f1
    f2 = f2
    Requests = {r1, r2}
    Files = {f1, f2}
    Doubtful = {f1}
    Misnamed = {f2}
    ExternalCache = FALSE
    UseStatefiles = FALSE
    NoEntry = NoEntry
    NoIndex = NoIndex
    MaxTime = 2
    MaxFailures = 1
    MaxRestarts = 0
SPECIFICATION FairSpec
INVARIANTS
    OneListing
    OneRegeneration
    
PROPERTY RequestsServed
