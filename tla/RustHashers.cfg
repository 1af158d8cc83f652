SPECIFICATION RustSpec
CONSTANTS
    Threads = {t1, t2}
    Blocks = {b1, b2, b3, b4}
    Storages <- MCStorages
    StorageSize <- MCStorageSize
    Aligned <- MCStorages
    RIVER5_CTX_BYTES = 1024
    V15Bytes = 528
    HasAesniSources = TRUE
    Cpus = {TRUE, FALSE}
    NULL = NULL
INVARIANTS RustTypeOK OwnsContext NoLeak SameBackend
PROPERTIES KeepsContract MethodsEnd
