SPECIFICATION Spec
CONSTANTS
    Workers = {w1, w2}
    Cameras = {c1}
    Owners = {u1, u2, u3, u4, u5}
    NoOwner = NoOwner
    s1 = s1
    s2 = s2
    Sources <- MCSources
    NoSource = NoSource
    Absent = Absent
    Configs <- OneConfig
    MaxGen = 1
    MaxOps = 5
    MaxAttempts = 2
    MaxFaults = 1
    MaxStalls = 1
SYMMETRY WorkerSymmetry
INVARIANTS
    OpenEffectIsNeverReported
    EffectIInv
PROPERTIES
    FencedCompletion
    LifecycleSpec
