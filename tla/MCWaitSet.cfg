SPECIFICATION Spec
CONSTANTS
    ping_reader = ping_reader
    baz_reader = baz_reader
    Readers <- MCReaders
    Order <- MCOrder
    Deliverers = {d1, d2}
    App = App
    Nobody = Nobody
INVARIANTS
    TypeOK
    AttachedOnce
    NoEmptyTake
    NoLostWakeup
PROPERTY
    Implements
