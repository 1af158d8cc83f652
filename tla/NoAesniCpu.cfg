SPECIFICATION Spec
CONSTANTS
    Threads = {t1, t2}
    Blocks = {b1, b2}
    Storages <- MCStorages
    StorageSize <- MCStorageSize
    Aligned <- MCAligned
    V15Bytes = 528
    HasAesniSources = TRUE
    Cpus = {FALSE}
    NULL = NULL
PROPERTY InitInSucceeds
