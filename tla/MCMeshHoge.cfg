SPECIFICATION Spec
CONSTANTS
    ping = ping
    pong = pong
    baz = baz
    Hoges = {h}
    Mortal = {}
    MaxStarts = 1
    MaxCrashes = 0
    MaxValue = 3
INVARIANTS
    PrintsEveryInteger
CHECK_DEADLOCK FALSE
