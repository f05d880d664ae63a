CONSTANTS
    BufLen = 2
    FromClient = 2
    FromServer = 1
    MaxBytes <- Bytes
    None = None
SPECIFICATION UvSpec
PROPERTIES ZeroReadKeeps
CHECK_DEADLOCK FALSE
