SPECIFICATION Spec
CONSTANTS
    Cameras = {c1, c2}
    Pages = {g1}
    NoCamera = NoCamera
    Capacity = 1
    MaxEvents = 4
    MaxChanges = 2
    MaxFaults = 0
INVARIANT LaggedPageQueriesFirst
