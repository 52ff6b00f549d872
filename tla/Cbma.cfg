SPECIFICATION Spec

CONSTANTS
    Word = 16384
    PoolSize = 8192
    Bases = {4096, 8192}
    Sizes = {0, 1, 48, 1023, 1024, 1025, 3000}

INVARIANT
    TypeOK

PROPERTY
    ImplementsAllocator

CHECK_DEADLOCK FALSE
