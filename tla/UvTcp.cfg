CONSTANTS
    BufLen = 2
    FromClient = 2
    FromServer = 1
    MaxBytes <- Bytes
    None = None
SPECIFICATION UvFairSpec
INVARIANTS UvTypeOK CountsExact NothingOutlives
PROPERTIES ReadClosesOnce ImplementsLife CloseEnds
CHECK_DEADLOCK FALSE
