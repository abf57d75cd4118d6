\* One cluster.
CONSTANTS
    c1 = c1
    None = None
    Clusters = {c1}
    MaxReplicas = 3
    DefaultReplicas = 2
    SkipLimit = 2
    MaxChanges = 3
    MaxFailures = 1
    MaxRestarts = 1
SPECIFICATION FairSpec
PROPERTIES
    
    Resized
    OrphansReclaimed
    DeletionEnds
CHECK_DEADLOCK FALSE
