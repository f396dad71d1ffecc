\* Two connections, three requests, a limit of one request and two units of body.
CONSTANTS
    c1 = c1
    c2 = c2
    Connections = {c1, c2}
    Requests <- Mixed
    AllowedOrigins = {"page"}
    NoOrigin = NoOrigin
    Unknown = Unknown
    NoId = NoId
    MaxBody = 2
    RateLimiting = TRUE
    MaxChunk = 2
    MaxRequests = 3
    Normal <- McNormal
    Limits <- McLimits
    Exempt = "exempt"
    TicksPerSecond = 1
    Window = 1
    WallOffset = 1
    Never = Never
    MaxTime = 1
SPECIFICATION FairSpec
INVARIANTS
    LoggedAsAnswered
    IdsTellRequestsApart
    BodiesWholeAndBounded
    NoFreeRide
PROPERTIES
    UsesLimiter
    ServiceAnswers
