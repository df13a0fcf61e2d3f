SPECIFICATION Spec
CONSTANTS
    BITS = 4
    BYTES = 2
INVARIANTS
    TypeOK
    StoresTrailingRun
