SPECIFICATION Spec

CONSTANTS
    NoThread = NoThread
    TrackingHandle = 8
    MapFailed = 99
    Threads = {t1}
    Fds = {0, 3}
    Pages = {20, 21, 22}
    GpuVAs = {}
    Cookies = {}
    Lens = {1, 2}
    Asked = {"OTHER"}
    MaxMaps = 3
    MaxAllocs = 0
    Disciplined = FALSE
    EnableTimestamps = FALSE

INVARIANTS
    NewestMappingFound
