SPECIFICATION Spec

CONSTANTS
    NSecPerSec = 4
    Steps = {1, 3, 6}
    MaxSec = 3

INVARIANT
    TypeOK

PROPERTIES
    ShowsAppTime
    LogInOrder

