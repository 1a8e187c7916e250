CONSTANTS
    V4Bits = 2
    V6Bits = 1
    BadAddr = BadAddr
    NaN = NaN
    None = None
    Batches <- MCBatches
    Requests <- MCRequests
    MaxRegistry = 4
SPECIFICATION Spec
INVARIANT TypeOK
PROPERTY DeleteCountMatches
