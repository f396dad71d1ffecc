\* Windows of two seconds, half-second ticks, two identities with a limit of two.
CONSTANTS
    Requests <- TwoIdentities
    Normal <- McNormal
    Limits <- McLimits
    Exempt = "exempt"
    TicksPerSecond = 2
    Window = 4
    WallOffset = 1
    Never = Never
    MaxTime = 8
SPECIFICATION Spec
INVARIANTS
    TypeOK
    BurstBound
    OverLimitOnly
    RetryIsEnough
    RetryIsTight
CHECK_DEADLOCK FALSE
