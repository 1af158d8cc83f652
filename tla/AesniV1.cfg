SPECIFICATION Spec
CONSTANTS
    BLOCK = 3
    Bytes = {0, 1}
    Secret <- MCSecret
    Seeds = {nullSeed, otherSeed}
    Inputs <- MCInputs
    MaxCall = 5
    MaxTotal = 6
    FastPath = FALSE
    LookAhead = FALSE
    Junk = Junk
    NoDigest = NoDigest
PROPERTY KeepsPromise
