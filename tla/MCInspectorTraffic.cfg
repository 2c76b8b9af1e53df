SPECIFICATION Spec
CONSTANTS
    pong = pong
    baz = baz
    baz_writer = baz_writer
    pong_writer = pong_writer
    pong_in = pong_in
    Parts <- MCParts
    Endpoints <- MCEndpoints
    Owner <- MCOwner
    Topic <- MCTopic
    IsPub <- MCIsPub
    Unknown = "unknown"
    lo0 = lo0
    en0 = en0
    Ifaces <- MCIfaces
    MaxWire = 1
SYMMETRY MCSymmetry
INVARIANTS
    UserDataOnly
