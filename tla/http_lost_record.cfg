\* One connection: the client leaves while its body is read.
CONSTANTS
    c1 = c1
    c2 = c2
    Connections = {c1}
    Requests <- Mixed
    AllowedOrigins = {"page"}
    NoOrigin = NoOrigin
    Unknown = Unknown
    NoId = NoId
    MaxBody = 2
    RateLimiting = TRUE
    MaxChunk = 2
    MaxRequests = 2
    Normal <- McNormal
    Limits <- McLimits
    Exempt = "exempt"
    TicksPerSecond = 1
    Window = 1
    WallOffset = 1
    Never = Never
    MaxTime = 2
SPECIFICATION Spec
INVARIANTS
    OneRecordPerRequest
