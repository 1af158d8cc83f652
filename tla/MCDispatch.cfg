SPECIFICATION Spec
CONSTANTS
    Threads = {t1, t2}
    Blocks = {b1, b2, b3}
    Storages <- MCStorages
    StorageSize <- MCStorageSize
    Aligned <- MCAligned
    V15Bytes = 528
    HasAesniSources = TRUE
    Cpus = {TRUE, FALSE}
    NULL = NULL
INVARIANTS TypeOK OneBackend MakerHandles InPlaceContained HeapAccounted
PROPERTIES SelectionSticks CallsReturn
