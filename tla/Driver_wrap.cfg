SPECIFICATION Spec

CONSTANTS
    Word = 1073741824
    PoolSize = 4194304
    Bases = {4096, 1069547520}
    Sizes = {16, 24, 32, 48, 64, 276, 280}
    QueueMax = 3
    AtomIds = 4
    MaxAtoms = 5

INVARIANTS
    DependsOnLast

CHECK_DEADLOCK FALSE
