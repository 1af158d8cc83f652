SPECIFICATION Spec
CONSTANTS
    Root = "r"
    Kind <- CutKind
    Entries <- CutEntries
    Target <- CutTarget
    ROOT_LEN = 1
    PATH_MAX = 3
    FIRST_CAP = 1
    MaxOpen = 2
    Content <- CutContent
    Only <- MCOnly
    Threads = 2
    CHUNK = 2
    BLOCK_V1 = 2
    BLOCK_V2 = 3
    Secret <- MCSecret
    Served = "v15"
    Junk = Junk
    NULL = NULL
    NoReport = NoReport
INVARIANT EachFileOnce
\* The bench ends.
CHECK_DEADLOCK FALSE
