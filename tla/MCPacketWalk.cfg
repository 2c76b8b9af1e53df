SPECIFICATION Spec
CONSTANTS
    CapLens <- MCCapLens
    Ihls <- MCIhls
    Lengths <- MCLengths
INVARIANTS
    TypeOK
    ReadsInside
    PayloadInside
PROPERTY
    Terminates
