CONSTANTS
    w1 = w1
    w2 = w2
    w3 = w3
    v1 = v1
    v2 = v2
    Writers <- MCWriters
    Values <- MCValues
    NoWriter = NoWriter
    Depth = 2
    MaxSamples = 1
    AutoDispose = TRUE
SPECIFICATION Spec
INVARIANTS TypeOK RegistrationsConsistent CountsExact TriggerExact NoOrphan
PROPERTY Implements
