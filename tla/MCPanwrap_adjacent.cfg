SPECIFICATION Spec

CONSTANTS
    NoThread = NoThread
    TrackingHandle = 8
    MapFailed = 99
    Threads = {t1}
    Fds = {0, 3}
    Pages = {20, 21, 22}
    GpuVAs = {10, 11}
    Cookies = {6}
    Lens = {1}
    Asked = {"MEM_ALLOC"}
    MaxMaps = 3
    MaxAllocs = 2
    Disciplined = TRUE
    EnableTimestamps = FALSE

INVARIANTS
    FetchComplete
