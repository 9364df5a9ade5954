CONSTANTS
    None = None
    Malformed = Malformed
    NotStatus = NotStatus
    MaxVersion = 3
    MaxStream = 2
    MaxRetry = 1

SPECIFICATION ServiceSpec

INVARIANT MalformedPayloadDropped
