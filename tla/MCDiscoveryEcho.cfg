SPECIFICATION Spec
CONSTANTS
    ping_writer = ping_writer
    pong_writer = pong_writer
    inspector_reader = inspector_reader
    Entities <- MCEntities
    Kind <- MCKind
    Topic <- MCTopic
    Own <- MCOwn
    MaxTake = 1
    MaxLives <- MCOnce
    MaxMessages = 2
    Nobody = Nobody
PROPERTIES
    EchoesEvery
CHECK_DEADLOCK FALSE
