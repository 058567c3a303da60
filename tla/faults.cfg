SPECIFICATION Spec
CONSTANTS
    Workers = {w1}
    Cameras = {c1}
    Owners = {u1, u2, u3}
    NoOwner = NoOwner
    s1 = s1
    s2 = s2
    Sources <- MCSources
    NoSource = NoSource
    Absent = Absent
    Configs <- OneConfig
    MaxGen = 1
    MaxOps = 7
    MaxAttempts = 2
    MaxFaults = 3
    MaxStalls = 1
INVARIANTS
    TypeOK
    OpenEffectIsNeverReported
PROPERTIES
    LifecycleSpec
