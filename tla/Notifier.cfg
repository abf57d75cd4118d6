\* Bursts of up to three alerts, a queue of two, batches of one.
CONSTANTS
    am1 = am1
    am2 = am2
    Alertmanagers = {am1, am2}
    QueueCapacity = 2
    MaxBatchSize = 1
    MaxBurst = 3
    MaxAlerts = 3
    MaxReloads = 1
SPECIFICATION FairSpec
INVARIANTS
    NoLostWakeup
    NewestKept
    EveryAlertCounted
    InOrderDelivery
PROPERTIES
    AlertsTaken
    StopEndsRun
CHECK_DEADLOCK FALSE
