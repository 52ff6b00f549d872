SPECIFICATION Spec

CONSTANTS
    NoThread = NoThread
    TrackingHandle = 8
    MapFailed = 99
    Threads = {t1}
    Fds = {0, 3}
    Pages = {20, 21, 22}
    GpuVAs = {10, 11}
    Cookies = {6}
    Lens = {1, 2}
    Asked = {"MEM_ALLOC", "MEM_IMPORT", "MEM_COMMIT"}
    MaxMaps = 2
    MaxAllocs = 1
    Disciplined = TRUE
    EnableTimestamps = FALSE

INVARIANTS
    FetchSound
    FetchCompleteInterior
