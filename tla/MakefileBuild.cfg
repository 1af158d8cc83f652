SPECIFICATION Spec
CONSTANTS
    Threads = {t1, t2}
    Blocks = {b1, b2, b3, b4}
    Storages <- MCStorages
    StorageSize <- MCStorageSize
    Aligned <- MCAligned
    V15Bytes = 528
    HasAesniSources = FALSE
    Cpus = {TRUE}
    NULL = NULL
INVARIANT RoutesToV15
