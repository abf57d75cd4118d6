\* Two series, one of a recording rule; reshards and reloads.
CONSTANTS
    a = a
    b = b
    Series = {a, b}
    Fingerprint <- MCFingerprint
    RuleSeries = {b}
    Capacity = 1
    MaxShards = 2
    MaxSamplesPerSend = 2
    MaxRetries = 2
    MaxSamples <- MCMaxSamples
    MaxGenerations = 3
SPECIFICATION FairSpec
INVARIANTS
    TypeOK
    OneGenerationSends
    InOrder
    Accounted
    StopFlushes
    NoPanicWhileOpen
PROPERTIES
    SamplesSettled
    StopEnds
    StreamSpec
CHECK_DEADLOCK FALSE
