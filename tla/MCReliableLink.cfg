CONSTANTS
    MaxSeq = 2
    MaxNet = 2
SPECIFICATION FairSpec
INVARIANTS
    TypeOK
    KeptUntilGiven
    NothingDisowned
    NeverBetween
PROPERTIES
    InOrder
    NewestArrives
    Settles
CHECK_DEADLOCK FALSE
