SPECIFICATION Spec
CONSTANTS
    Hashes <- MCHashes
    kSizes <- MCSizes
    Only <- MCOnly
    OnlySize = {0, 2}
    Cold = {0, 3, 7}
    MinSec = {10}
    Costs = {3}
    RES = 1
    CAP = 16
    NULL = NULL
INVARIANT AtLeastMinSeconds
\* The bench ends.
CHECK_DEADLOCK FALSE
