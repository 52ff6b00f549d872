SPECIFICATION Spec

CONSTANTS
    NoThread = NoThread
    TrackingHandle = 8
    MapFailed = 99
    Threads = {t1, t2}
    Fds = {0, 3, 4}
    Pages = {20, 21}
    GpuVAs = {10}
    Cookies = {6}
    Lens = {1}
    Asked = {"MEM_ALLOC", "MEM_IMPORT", "MEM_FREE"}
    MaxMaps = 2
    MaxAllocs = 2
    Disciplined = TRUE
    EnableTimestamps = TRUE

SYMMETRY Symmetry

INVARIANTS
    TypeOK
    MmapsMirrorKernel
    DeviceTracked
    RecordsCurrent
