SPECIFICATION Spec
CONSTANTS
    ping = ping
    pong = pong
    baz = baz
    Hoges = {h}
    Mortal = {}
    MaxStarts = 1
    MaxCrashes = 0
    MaxValue = 2
INVARIANTS
    TypeOK
PROPERTIES
    LatestArrives
    RoundTrip
CHECK_DEADLOCK FALSE
