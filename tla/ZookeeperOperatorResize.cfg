\* A second cluster is reconciled in between.
CONSTANTS
    c1 = c1
    c2 = c2
    None = None
    Clusters = {c1, c2}
    MaxReplicas = 2
    DefaultReplicas = 2
    SkipLimit = 2
    MaxChanges = 1
    MaxFailures = 0
    MaxRestarts = 0
SPECIFICATION FairSpec
PROPERTIES
    Resized
CHECK_DEADLOCK FALSE
