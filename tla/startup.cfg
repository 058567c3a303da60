CONSTANTS
    s1 = s1
    s2 = s2
    doctor = doctor
    keeper = keeper
    d1 = d1
    d2 = d2
    NoDir = NoDir
    NoPid = NoPid
    Truncated = Truncated
    Servers <- MCServers
    Doctors <- MCDoctors
    Keepers <- MCKeepers
    Dirs <- MCDirs
    NumPages = 2
    MaxVersion = 2
    MaxInodes = 2
    MaxFaults = 1
SPECIFICATION Spec
SYMMETRY ServersAndDirs
INVARIANTS
    TypeOK
    ServiceIsExclusive
    SnapshotIsConsistent
    ServedIsNamedAndComplete
    PidFileNamesServer
PROPERTIES
    ServedDataIsKept
    ImplementsService
