SPECIFICATION Spec
CONSTANTS
    ping = ping
    pong = pong
    baz = baz
    Hoges = {}
    Mortal = {ping, pong, baz}
    MaxStarts = 2
    MaxCrashes = 1
    MaxValue = 2
INVARIANTS
    Causal
PROPERTIES
    InOrder
    RoundTrip
CHECK_DEADLOCK FALSE
