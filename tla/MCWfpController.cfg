CONSTANTS
    V4Bits = 2
    V6Bits = 1
    BadAddr = BadAddr
    NaN = NaN
    None = None
    Handles = {h1, h2}
    NullHandle = NullHandle
    Other = Other
    ForeignIds = {1}
    MaxFilterId = 5
    Batches <- MCBatches
    Requests <- MCRequests
SPECIFICATION Spec
INVARIANT TypeOK
PROPERTY ImplementsFilterRegistry
PROPERTY AddReturnsWhatItInstalled
PROPERTY DeleteReportsRemovals
