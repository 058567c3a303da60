SPECIFICATION ServingSpec
CONSTANTS
    Workers = {w1}
    Cameras = {c1}
    Owners = {u1, u2, u3}
    NoOwner = NoOwner
    s1 = s1
    s2 = s2
    Sources <- MCSources
    NoSource = NoSource
    Absent = Absent
    Configs <- ThreeConfigs
    MaxGen = 2
    MaxOps = 6
    MaxAttempts = 2
    MaxFaults = 1
    MaxStalls = 0
INVARIANTS
    RecordIsServed
    AppliedGenerationIsHonest
    IInv
    ErrorIsOfCurrentGeneration
PROPERTIES
    ConvergedMeansCommitted
    ConvergedIsServed
