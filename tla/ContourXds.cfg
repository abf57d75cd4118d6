CONSTANTS
    i1 = i1
    endpoints = endpoints
    s1 = s1
    Timer = Timer
    Watched = {i1}
    Endpoints = endpoints
    p1 = p1
    p2 = p2
    Ports = {p1, p2}
    Streams = {s1}
    Subscribed = {"routes", "endpoints"}
    MaxChanges = 3
SPECIFICATION FairSpec
INVARIANTS
    SendsDoNotBlock
    NoMissedUpdate
PROPERTIES
    NeverOlder
    EnvoysConverge
CHECK_DEADLOCK FALSE
