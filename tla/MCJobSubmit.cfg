SPECIFICATION FairSpec

CONSTANTS
    JobAddrs <- MCJobAddrs
    Sabotaged <- MCSabotaged
    Submissions <- MCSubmissions
    RowLen = 2
    StackDepth = 7
    MaxWrites = 2

INVARIANTS
    TypeOK
    NoFault
    ChainDescribed
    DumpFaithful
    FlagsAccounted

PROPERTIES
    FlareStays
    StackSuffices
    TraceEnds
    DecodeAdvances

CHECK_DEADLOCK FALSE
