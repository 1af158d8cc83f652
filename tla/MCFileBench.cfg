SPECIFICATION Spec
CONSTANTS
    Root = "r"
    Kind <- MCKind
    Entries <- MCEntries
    Target <- MCTarget
    ROOT_LEN = 1
    PATH_MAX = 6
    FIRST_CAP = 1
    MaxOpen = 2
    Content <- MCContent
    Only <- MCOnly
    Threads = 2
    CHUNK = 2
    BLOCK_V1 = 2
    BLOCK_V2 = 3
    Secret <- MCSecret
    Served = "v15"
    Junk = Junk
    NULL = NULL
    NoReport = NoReport
INVARIANTS TypeOK ClaimedOnce FreshPerFile Accumulated ReportsAll
    LosesOnlyFailures InCapacity ListedOnce
PROPERTIES KeepsPromise Ends
\* The bench ends.
CHECK_DEADLOCK FALSE
