SPECIFICATION Spec
CONSTANTS
    BLOCK = 2
    Bytes = {0, 1}
    Secret <- MCSecret
    Seeds = {nullSeed}
    Inputs <- MCInputs
    MaxCall = 5
    MaxTotal = 6
    FastPath = TRUE
    LookAhead = TRUE
    Junk = Junk
    NoDigest = NoDigest
INVARIANTS TypeOK StreamInv ReadsWithinInput NothingLost EagerBlocks
PROPERTIES KeepsPromise CallsReturn
