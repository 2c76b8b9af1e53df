SPECIFICATION Spec
CONSTANTS
    ping_writer = ping_writer
    pong_writer = pong_writer
    inspector_reader = inspector_reader
    Entities <- MCEntities
    Kind <- MCKind
    Topic <- MCTopic
    Own <- MCOwn
    MaxTake = 1
    MaxLives <- MCTwice
    MaxMessages = 1
    Nobody = Nobody
INVARIANTS
    TypeOK
    EntriesTrue
    InSync
    ListsItself
    UnknownOnlyIfGone
PROPERTIES
    Converges
CHECK_DEADLOCK FALSE
