SPECIFICATION FairSpec

CONSTANTS
    NoThread = NoThread
    TrackingHandle = 8
    MapFailed = 99
    Threads = {t1, t2}
    Fds = {0, 3, 4}
    Pages = {20}
    GpuVAs = {}
    Cookies = {}
    Lens = {1}
    Asked = {"MEM_ALLOC", "NOARG"}
    MaxMaps = 1
    MaxAllocs = 1
    Disciplined = FALSE
    EnableTimestamps = TRUE

INVARIANTS
    FrozenInPanwrap
    MaliFdOpen

PROPERTIES
    LockReleased
