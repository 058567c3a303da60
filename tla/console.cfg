SPECIFICATION Spec
CONSTANTS
    Requests = {r1, r2}
    Patches <- MCPatches
    TicksPerSecond = 2
    Lifetime = 1
    MaxTime = 2
    MaxTokens = 1
    BatchSize = 2
    MaxEvents = 2
    MaxFaults = 1
    MaxDelay = 1
CHECK_DEADLOCK FALSE
INVARIANTS TypeOK DesiredFollowsRow TokenIsGoodUntilExpiry ReadTokenEndsWithCamera
PROPERTIES LostUpdatesOverlap ImplementsAuditLog DeliveredOrReported
