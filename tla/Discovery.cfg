CONSTANTS
    s1 = s1
    Sets = {s1}
    None = None
    MaxChanges = 2
    MaxGenerations = 2
SPECIFICATION FairSpec
INVARIANTS
    NoLostUpdate
PROPERTIES
    UpdatesReachConsumer
CHECK_DEADLOCK FALSE
