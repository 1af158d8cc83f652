SPECIFICATION Spec
CONSTANTS
    Hashes <- MCHashes
    kSizes <- MCSizes
    Only <- MCOnly
    OnlySize = {0, 2}
    Cold = {0, 3, 7}
    MinSec = {0, 30, 200}
    Costs = {1, 2}
    RES = 3
    CAP = 16
    NULL = NULL
INVARIANTS TypeOK RegionsInPool GoesRound TakesItsTime
PROPERTIES Ends
\* The bench ends.
CHECK_DEADLOCK FALSE
