SPECIFICATION Spec
CONSTANTS
    Cameras = {c1, c2}
    Pages = {g1}
    NoCamera = NoCamera
    Capacity = 1
    MaxEvents = 4
    MaxChanges = 2
    MaxFaults = 1
INVARIANTS
    TypeOK
    StreamHasNoGap
    LostAnnouncementsAreInterrupted
PROPERTIES
    StatusSettles
    EventsReachOpenStreams
