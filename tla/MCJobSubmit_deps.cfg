SPECIFICATION Spec

CONSTANTS
    JobAddrs <- MCJobAddrs
    Sabotaged <- MCSabotaged
    Submissions <- MCSubmissions
    RowLen = 2
    StackDepth = 7
    MaxWrites = 1

INVARIANTS
    DependenciesShown

CHECK_DEADLOCK FALSE
