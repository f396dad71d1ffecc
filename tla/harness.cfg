\* Suites of up to two scenarios in two windows.
CONSTANTS
    Requests <- McRequests
    Normal <- McNormal
    Limits <- McLimits
    Exempt = "exempt"
    TicksPerSecond = 1
    Window = 2
    WallOffset = 1
    Never = Never
    MaxTime = 4
    ClientId <- McClientId
    Profile <- McProfile
    Pause = 1
    Configs <- McConfigs
SPECIFICATION HarnessSpec
INVARIANTS
    HarnessTypeOK
    ModestNeverDenied
    AcceptedNearLimit
    ReportAddsUp
CHECK_DEADLOCK FALSE
