------------------------- MODULE ServerStartupProofs -------------------------
(***************************************************************************)
(* Proofs about ServerStartup, for any processes, directories, pages and   *)
(* bounds: the locks keep servers and maintenance apart, the PID file      *)
(* names the server that holds its directory, what a server serves was     *)
(* completely initialised and stays, a copy that is made beside it is one  *)
(* state of it, and all of it together implements DatabaseService.         *)
(***************************************************************************)
EXTENDS ServerStartup, TLAPS

\* Where a server holds the instance lock, where a process shares the maintenance
\* lock, and where the PID file is the server's own.
Holding == {"maintenance", "unchanged", "runtime"} \cup InService
Sharing == {"unchanged", "runtime", "unlockRest", "reads", "write", "rollback", "release"}
             \cup InService
PidWritten == InService \ {"truncate", "writePid", "unlock"}
PoolOpen == {"snapshot", "validate", "validateOpen", "serving", "closing"}

ServerLocks(s) ==
    /\ pc[s] \notin {"shared", "exclusive"}
    /\ pc[s] \in Holding => s \in instance
    /\ pc[s] \in Sharing => s \in shared
    /\ pc[s] = "runtime" => dir[s] \in Dirs
    /\ pc[s] \in InService => dir[s] \in Dirs /\ runtime[dir[s]] = {s}
    /\ pc[s] \in PidWritten => pidFile[dir[s]] = s
    /\ opened[s] # 0 => pc[s] \in PoolOpen

DoctorLocks(d) ==
    /\ pc[d] \in Sharing => d \in shared
    /\ opened[d] # 0 => pc[d] \in {"rollback", "release"}

KeeperLocks(k) == pc[k] \in {"unchanged", "restore", "release"} => k \in exclusive

LockTypes ==
    /\ pc \in [Processes -> Locations]
    /\ dir \in [Servers -> Dirs \cup {NoDir}]
    /\ DOMAIN runtime = Dirs
    /\ DOMAIN pidFile = Dirs
    /\ DOMAIN opened = Servers \cup Doctors

LockIInv ==
    /\ LockTypes
    /\ \A s, t \in instance : s = t
    /\ exclusive # {} => shared = {}
    /\ \A s \in Servers : ServerLocks(s)
    /\ \A d \in Doctors : DoctorLocks(d)
    /\ \A k \in Keepers : KeeperLocks(k)

-----------------------------------------------------------------------------
LEMMA LocksInitially == Init => LockIInv
<1> SUFFICES ASSUME Init PROVE LockIInv
  OBVIOUS
<1>1. LockTypes BY DEF Init, LockTypes, Locations
<1>2. \A p \in Processes : pc[p] = "down" BY DEF Init
<1>3. \A p \in Servers \cup Doctors : opened[p] = 0 BY DEF Init
<1>4. \A s \in Servers : ServerLocks(s)
  BY <1>2, <1>3 DEF ServerLocks, Processes, Holding, Sharing, PidWritten, InService, Initialising
<1>5. \A d \in Doctors : DoctorLocks(d)
  BY <1>2, <1>3 DEF DoctorLocks, Processes, Sharing, InService, Initialising
<1>6. \A k \in Keepers : KeeperLocks(k) BY <1>2 DEF KeeperLocks, Processes
<1> QED BY <1>1, <1>4, <1>5, <1>6 DEF Init, LockIInv

\* A step of one process: the others keep their locks, directories and pools.
LEMMA OneProcess ==
    ASSUME LockIInv, NEW p \in Processes, LockTypes',
           \A q \in Processes \ {p} :
               /\ pc'[q] = pc[q]
               /\ q \in instance => q \in instance'
               /\ q \in shared => q \in shared'
               /\ q \in exclusive => q \in exclusive',
           \A q \in Servers \ {p} :
               /\ dir'[q] = dir[q]
               /\ \A d \in Dirs :
                    runtime[d] = {q} => runtime'[d] = {q} /\ pidFile'[d] = pidFile[d],
           \A q \in (Servers \cup Doctors) \ {p} : opened'[q] = opened[q],
           \A s, t \in instance' : s = t,
           exclusive' # {} => shared' = {},
           p \in Servers => ServerLocks(p)',
           p \in Doctors => DoctorLocks(p)',
           p \in Keepers => KeeperLocks(p)'
    PROVE  LockIInv'
<1>1. ASSUME NEW s \in Servers PROVE ServerLocks(s)'
  <2>1. CASE s = p BY <2>1
  <2>2. CASE s # p
    <3>1. s \in Processes \ {p} /\ s \in Servers \ {p} BY <2>2 DEF Processes
    <3>2. ServerLocks(s) BY DEF LockIInv
    <3>3. pc'[s] = pc[s] /\ dir'[s] = dir[s] /\ opened'[s] = opened[s] BY <3>1
    <3>4. pc[s] \in PidWritten => pc[s] \in InService BY DEF PidWritten
    <3> QED BY <3>1, <3>2, <3>3, <3>4 DEF ServerLocks
  <2> QED BY <2>1, <2>2
<1>2. ASSUME NEW d \in Doctors PROVE DoctorLocks(d)'
  <2>1. CASE d # p
    <3>1. d \in Processes \ {p} BY <2>1 DEF Processes
    <3>2. DoctorLocks(d) BY DEF LockIInv
    <3> QED BY <2>1, <3>1, <3>2 DEF DoctorLocks
  <2> QED BY <2>1
<1>3. ASSUME NEW k \in Keepers PROVE KeeperLocks(k)'
  <2>1. CASE k # p
    <3>1. k \in Processes \ {p} BY <2>1 DEF Processes
    <3>2. KeeperLocks(k) BY DEF LockIInv
    <3> QED BY <3>1, <3>2 DEF KeeperLocks
  <2> QED BY <2>1
<1> QED BY <1>1, <1>2, <1>3 DEF LockIInv

\* A step that touches no lock, no PID file and no other process's pool.
LEMMA Moves ==
    ASSUME LockIInv, NEW p \in Processes, NEW l \in Locations, GoTo(p, l),
           UNCHANGED <<locks, pidFile, dir>>,
           DOMAIN opened' = DOMAIN opened,
           \A q \in (Servers \cup Doctors) \ {p} : opened'[q] = opened[q],
           p \in Servers => ServerLocks(p)',
           p \in Doctors => DoctorLocks(p)',
           p \in Keepers => KeeperLocks(p)'
    PROVE  LockIInv'
<1>1. LockTypes' BY DEF LockIInv, LockTypes, GoTo, locks
<1>2. \A q \in Processes \ {p} : pc'[q] = pc[q] BY DEF LockIInv, LockTypes, GoTo
<1>3. UNCHANGED <<instance, shared, exclusive, runtime>> BY DEF locks
<1> QED BY <1>1, <1>2, <1>3, OneProcess DEF LockIInv

\* The end of a process whose connections are closed, or close with it.
LEMMA Exits ==
    ASSUME LockIInv, NEW p \in Processes, Exit(p), pidFile' = pidFile,
           \/ opened' = opened /\ (p \in Servers \cup Doctors => opened[p] = 0)
           \/ opened' = [opened EXCEPT ![p] = 0]
    PROVE  LockIInv'
<1>1. pc' = [pc EXCEPT ![p] = "down"] /\ "down" \in Locations
  BY DEF Exit, GoTo, Locations
<1>2. LockTypes'
  <2>1. dir' \in [Servers -> Dirs \cup {NoDir}] BY DEF LockIInv, LockTypes, Exit
  <2> QED BY <1>1, <2>1 DEF LockIInv, LockTypes, Exit
<1>3. pc'[p] = "down" /\ \A q \in Processes \ {p} : pc'[q] = pc[q]
  BY <1>1 DEF LockIInv, LockTypes
<1>4. /\ p \in Servers \cup Doctors => opened'[p] = 0
      /\ \A q \in (Servers \cup Doctors) \ {p} : opened'[q] = opened[q]
  BY DEF LockIInv, LockTypes
<1>5. \A q \in Servers \ {p} : dir'[q] = dir[q] BY DEF LockIInv, LockTypes, Exit
<1>6. \A q \in Servers \ {p} : \A d \in Dirs :
        runtime[d] = {q} => runtime'[d] = {q} /\ pidFile'[d] = pidFile[d]
  BY DEF Exit
<1>7. /\ instance' = instance \ {p} /\ shared' = shared \ {p} /\ exclusive' = exclusive \ {p}
  BY DEF Exit
<1>8. p \in Servers => ServerLocks(p)'
  BY <1>3, <1>4 DEF ServerLocks, Holding, Sharing, PidWritten, InService, Initialising
<1>9. p \in Doctors => DoctorLocks(p)'
  BY <1>3, <1>4 DEF DoctorLocks, Sharing, InService, Initialising
<1>10. p \in Keepers => KeeperLocks(p)' BY <1>3 DEF KeeperLocks
<1> QED BY <1>2, <1>3, <1>4, <1>5, <1>6, <1>7, <1>8, <1>9, <1>10, OneProcess DEF LockIInv

-----------------------------------------------------------------------------
(* The steps.                                                              *)

LEMMA AcquireSteps ==
    ASSUME LockIInv, NEW s \in Servers,
           LockInstance(s) \/ LockRuntime(s) \/ TruncatePid(s) \/ WritePid(s)
    PROVE  LockIInv'
<1> USE DEF locks, private
<1>1. s \in Processes /\ s \notin Doctors /\ s \notin Keepers
  BY StartupAssumption DEF Processes
<1>2. /\ ServerLocks(s) /\ LockTypes /\ pc[s] \in Locations
  BY <1>1 DEF LockIInv, LockTypes
<1>3. pc[s] \in {"instance", "runtime"} => opened[s] = 0
  BY <1>2 DEF ServerLocks, PoolOpen
<1>4. CASE LockInstance(s)
  <2>1. CASE Exit(s)
    BY <1>1, <1>3, <1>4, <2>1, Exits DEF LockInstance
  <2>2. CASE instance = {} /\ instance' = {s} /\ GoTo(s, "maintenance")
             /\ UNCHANGED <<shared, exclusive, runtime, target, dir>>
    <3>1. pc' = [pc EXCEPT ![s] = "maintenance"] /\ "maintenance" \in Locations
      BY <2>2 DEF GoTo, Locations
    <3>2. pc'[s] = "maintenance" /\ \A q \in Processes \ {s} : pc'[q] = pc[q]
      BY <1>1, <1>2, <3>1 DEF LockTypes
    <3>3. LockTypes' BY <1>2, <1>4, <2>2, <3>1 DEF LockTypes, LockInstance
    <3>4. opened' = opened /\ pidFile' = pidFile BY <1>4 DEF LockInstance
    <3>5. ServerLocks(s)'
      BY <1>2, <1>3, <1>4, <2>2, <3>2, <3>4
         DEF ServerLocks, LockInstance, Holding, Sharing, PidWritten, InService, Initialising
    <3> QED BY <1>1, <2>2, <3>2, <3>3, <3>4, <3>5, OneProcess DEF LockIInv
  <2> QED BY <1>4, <2>1, <2>2 DEF LockInstance
<1>5. CASE LockRuntime(s)
  <2>1. CASE Exit(s)
    BY <1>1, <1>3, <1>5, <2>1, Exits DEF LockRuntime
  <2>2. CASE runtime[dir[s]] = {} /\ runtime' = [runtime EXCEPT ![dir[s]] = {s}]
             /\ GoTo(s, "truncate")
             /\ UNCHANGED <<instance, shared, exclusive, target, dir>>
    <3>1. pc' = [pc EXCEPT ![s] = "truncate"] /\ "truncate" \in Locations
      BY <2>2 DEF GoTo, Locations, InService
    <3>2. pc'[s] = "truncate" /\ \A q \in Processes \ {s} : pc'[q] = pc[q]
      BY <1>1, <1>2, <3>1 DEF LockTypes
    <3>3. LockTypes' BY <1>2, <1>5, <2>2, <3>1 DEF LockTypes, LockRuntime
    <3>4. opened' = opened /\ pidFile' = pidFile /\ pc[s] = "runtime"
      BY <1>5 DEF LockRuntime
    <3>5. dir[s] \in Dirs /\ runtime'[dir[s]] = {s}
      BY <1>2, <2>2, <3>4 DEF ServerLocks, LockTypes
    <3>6. s \in instance /\ s \in shared
      BY <1>2, <3>4 DEF ServerLocks, Holding, Sharing
    <3>7. ServerLocks(s)'
      BY <1>3, <2>2, <3>2, <3>4, <3>5, <3>6 DEF ServerLocks, PidWritten
    <3>8. \A q \in Servers \ {s} : \A d \in Dirs : runtime[d] = {q} => runtime'[d] = {q}
      BY <1>2, <2>2 DEF LockTypes
    <3> QED BY <1>1, <2>2, <3>2, <3>3, <3>4, <3>7, <3>8, OneProcess DEF LockIInv
  <2> QED BY <1>5, <2>1, <2>2 DEF LockRuntime
<1>6. ASSUME NEW v, NEW l \in {"writePid", "prepare"}, pc[s] \in {"truncate", "writePid"},
             pidFile' = [pidFile EXCEPT ![dir[s]] = v], GoTo(s, l), l = "prepare" => v = s,
             UNCHANGED <<locks, opened, dir>>
      PROVE  LockIInv'
  <2>1. pc' = [pc EXCEPT ![s] = l] /\ l \in Locations
    BY <1>6 DEF GoTo, Locations, InService
  <2>2. pc'[s] = l /\ \A q \in Processes \ {s} : pc'[q] = pc[q]
    BY <1>1, <1>2, <2>1 DEF LockTypes
  <2>3. LockTypes' BY <1>2, <1>6, <2>1 DEF LockTypes
  <2>4. pc[s] \in InService /\ l \in InService BY <1>6 DEF InService
  <2>5. dir[s] \in Dirs /\ runtime[dir[s]] = {s} BY <1>2, <2>4 DEF ServerLocks
  <2>6. s \in instance /\ s \in shared BY <1>2, <2>4 DEF ServerLocks, Holding, Sharing
  <2>7. opened[s] = 0 BY <1>2, <1>6 DEF ServerLocks, PoolOpen
  <2>8. pidFile'[dir[s]] = v BY <1>2, <1>6, <2>5 DEF LockTypes
  <2>9. ServerLocks(s)'
    BY <1>6, <2>2, <2>5, <2>6, <2>7, <2>8 DEF ServerLocks, PidWritten
  <2>10. \A q \in Servers \ {s} : \A d \in Dirs : runtime[d] = {q} => pidFile'[d] = pidFile[d]
    BY <1>2, <1>6, <2>5 DEF LockTypes
  <2> QED BY <1>1, <1>6, <2>2, <2>3, <2>9, <2>10, OneProcess DEF LockIInv
<1>7. CASE TruncatePid(s) BY <1>6, <1>7 DEF TruncatePid
<1>8. CASE WritePid(s) BY <1>6, <1>8 DEF WritePid
<1> QED BY <1>4, <1>5, <1>7, <1>8

\* From one place in service to another, with the pool as it is.
LEMMA StaysInService ==
    ASSUME LockIInv, NEW s \in Servers, NEW l \in InService, GoTo(s, l),
           pc[s] \in PidWritten, l \notin {"truncate", "writePid"},
           opened[s] = 0 \/ l \in PoolOpen,
           UNCHANGED <<locks, pidFile, dir, opened>>
    PROVE  LockIInv'
<1>1. s \in Processes /\ s \notin Doctors /\ s \notin Keepers
  BY StartupAssumption DEF Processes
<1>2. ServerLocks(s) /\ LockTypes BY DEF LockIInv
<1>3. l \in Locations BY DEF Locations
<1>4. pc'[s] = l BY <1>1, <1>2 DEF LockTypes, GoTo
<1>5. pc[s] \in InService BY DEF PidWritten
<1>6. /\ s \in instance /\ s \in shared /\ dir[s] \in Dirs /\ runtime[dir[s]] = {s}
      /\ pidFile[dir[s]] = s
  BY <1>2, <1>5 DEF ServerLocks, Holding, Sharing
<1>7. l \notin {"shared", "exclusive", "runtime"} BY DEF InService, Initialising
<1>8. ServerLocks(s)' BY <1>4, <1>6, <1>7 DEF ServerLocks, locks
<1> QED BY <1>1, <1>3, <1>8, Moves

LEMMA InitialiseSteps ==
    ASSUME LockIInv, NEW s \in Servers,
           \/ Prepare(s) \/ Create(s) \/ BeginSchema(s) \/ WriteSchema(s) \/ SyncDatabase(s)
           \/ InitialisationFails(s) \/ RemoveGeneration(s)
    PROVE  LockIInv'
<1> USE DEF private
<1>1. ServerLocks(s) /\ s \in Processes /\ LockTypes BY DEF LockIInv, Processes
<1>2. ASSUME NEW l \in InService, GoTo(s, l) \/ pc' = pc, l \notin {"truncate", "writePid"},
             pc[s] \in {"prepare", "create"} \cup Initialising,
             UNCHANGED <<locks, pidFile, dir, opened>>
      PROVE  LockIInv'
  <2>1. pc[s] \in PidWritten /\ pc[s] \notin PoolOpen
    BY <1>2 DEF PidWritten, InService, Initialising, PoolOpen
  <2>2. opened[s] = 0 BY <1>1, <2>1 DEF ServerLocks
  <2>3. CASE GoTo(s, l) BY <1>2, <2>1, <2>2, <2>3, StaysInService
  <2>4. CASE pc' = pc
    <3>1. pc' = [pc EXCEPT ![s] = pc[s]] BY <1>1, <2>4 DEF LockTypes
    <3>2. pc[s] \notin {"truncate", "writePid"} BY <2>1 DEF PidWritten
    <3>3. pc[s] \in InService BY <2>1 DEF PidWritten
    <3> QED BY <1>2, <2>1, <2>2, <3>1, <3>2, <3>3, StaysInService DEF GoTo
  <2> QED BY <1>2, <2>3, <2>4
<1>3. {"create", "snapshot", "begin", "dropPid", "schema", "sync", "connect", "remove",
       "removeSidecars"} \subseteq InService \ {"truncate", "writePid"}
  BY DEF InService, Initialising
<1>4. CASE Prepare(s) BY <1>2, <1>3, <1>4 DEF Prepare, StartSnapshot
<1>5. CASE Create(s) BY <1>2, <1>3, <1>5 DEF Create
<1>6. CASE BeginSchema(s) BY <1>2, <1>3, <1>6 DEF BeginSchema, Initialising
<1>7. CASE WriteSchema(s) BY <1>2, <1>3, <1>7 DEF WriteSchema, Initialising
<1>8. CASE SyncDatabase(s) BY <1>2, <1>3, <1>8 DEF SyncDatabase, Initialising
<1>9. CASE InitialisationFails(s) BY <1>2, <1>3, <1>9 DEF InitialisationFails, Initialising
<1>10. CASE RemoveGeneration(s) BY <1>2, <1>3, <1>10 DEF RemoveGeneration, Initialising
<1> QED BY <1>4, <1>5, <1>6, <1>7, <1>8, <1>9, <1>10

\* Nothing but files, private copies and targets changes.
LEMMA LocksUndisturbed ==
    ASSUME LockIInv, UNCHANGED <<locks, pidFile, pc, dir, opened>>
    PROVE  LockIInv'
<1>1. LockTypes' BY DEF LockIInv, LockTypes, locks
<1>2. \A s \in Servers : ServerLocks(s)' BY DEF LockIInv, ServerLocks, locks
<1>3. \A d \in Doctors : DoctorLocks(d)' BY DEF LockIInv, DoctorLocks, locks
<1>4. \A k \in Keepers : KeeperLocks(k)' BY DEF LockIInv, KeeperLocks, locks
<1> QED BY <1>1, <1>2, <1>3, <1>4 DEF LockIInv, locks

LEMMA ReadTargetStep ==
    ASSUME LockIInv, NEW p \in Processes, ReadTarget(p)
    PROVE  LockIInv'
<1>1. PICK l \in {"instance", "shared", "exclusive"} :
        /\ GoTo(p, l)
        /\ l = "instance" <=> p \in Servers
        /\ l = "shared" <=> p \in Doctors
  BY StartupAssumption DEF ReadTarget
<1>2. /\ pc[p] = "down" /\ UNCHANGED <<locks, pidFile, dir, opened>>
  BY DEF ReadTarget
<1>3. pc'[p] = l BY <1>1 DEF GoTo, LockIInv, LockTypes
<1>4. l \in Locations BY DEF Locations
<1>5. p \in Servers => ServerLocks(p)'
  <2> SUFFICES ASSUME p \in Servers PROVE ServerLocks(p)'
    OBVIOUS
  <2>1. opened[p] = 0 BY <1>2 DEF LockIInv, ServerLocks, PoolOpen
  <2> QED BY <1>1, <1>2, <1>3, <2>1
          DEF ServerLocks, Holding, Sharing, PidWritten, InService, Initialising
<1>6. p \in Doctors => DoctorLocks(p)'
  <2> SUFFICES ASSUME p \in Doctors PROVE DoctorLocks(p)'
    OBVIOUS
  <2>1. opened[p] = 0 BY <1>2 DEF LockIInv, DoctorLocks
  <2> QED BY <1>1, <1>2, <1>3, <2>1 DEF DoctorLocks, Sharing, InService, Initialising
<1>7. p \in Keepers => KeeperLocks(p)' BY <1>3 DEF KeeperLocks
<1> QED BY <1>1, <1>2, <1>4, <1>5, <1>6, <1>7, Moves

LEMMA LockSharedStep ==
    ASSUME LockIInv, NEW p \in Servers \cup Doctors, LockShared(p)
    PROVE  LockIInv'
<1>1. p \in Processes /\ p \notin Keepers BY StartupAssumption DEF Processes
<1>2. /\ pc[p] \in {"maintenance", "shared"} /\ opened' = opened /\ pidFile' = pidFile
  BY DEF LockShared
<1>3. opened[p] = 0
  BY <1>2 DEF LockIInv, ServerLocks, DoctorLocks, PoolOpen
<1>4. CASE Exit(p) BY <1>1, <1>2, <1>3, <1>4, Exits
<1>5. CASE exclusive = {} /\ shared' = shared \cup {p} /\ GoTo(p, "unchanged")
           /\ UNCHANGED <<instance, exclusive, runtime, target, dir>>
  <2>1. pc' = [pc EXCEPT ![p] = "unchanged"] /\ "unchanged" \in Locations
    BY <1>5 DEF GoTo, Locations
  <2>2. pc'[p] = "unchanged" /\ \A q \in Processes \ {p} : pc'[q] = pc[q]
    BY <1>1, <2>1 DEF LockIInv, LockTypes
  <2>3. LockTypes' BY <1>2, <1>5, <2>1 DEF LockIInv, LockTypes
  <2>4. p \in Servers => ServerLocks(p)'
    <3> SUFFICES ASSUME p \in Servers PROVE ServerLocks(p)'
      OBVIOUS
    <3>1. p \in instance BY <1>2 DEF LockIInv, ServerLocks, Holding
    <3> QED BY <1>2, <1>3, <1>5, <2>2, <3>1
            DEF ServerLocks, PidWritten, InService, Initialising
  <2>5. p \in Doctors => DoctorLocks(p)' BY <1>2, <1>3, <1>5, <2>2 DEF DoctorLocks
  <2> QED BY <1>1, <1>2, <1>5, <2>2, <2>3, <2>4, <2>5, OneProcess DEF LockIInv
<1> QED BY <1>4, <1>5 DEF LockShared

LEMMA KeeperSteps ==
    ASSUME LockIInv, NEW k \in Keepers, LockExclusive(k) \/ Restore(k)
    PROVE  LockIInv'
<1>1. k \in Processes /\ k \notin Servers /\ k \notin Doctors
  BY StartupAssumption DEF Processes
<1>2. CASE LockExclusive(k)
  <2>1. opened' = opened /\ pidFile' = pidFile BY <1>2 DEF LockExclusive
  <2>2. CASE Exit(k) BY <1>1, <2>1, <2>2, Exits
  <2>3. CASE shared \cup exclusive = {} /\ exclusive' = {k} /\ GoTo(k, "unchanged")
             /\ UNCHANGED <<instance, shared, runtime, target, dir>>
    <3>1. pc' = [pc EXCEPT ![k] = "unchanged"] /\ "unchanged" \in Locations
      BY <2>3 DEF GoTo, Locations
    <3>2. pc'[k] = "unchanged" /\ \A q \in Processes \ {k} : pc'[q] = pc[q]
      BY <1>1, <3>1 DEF LockIInv, LockTypes
    <3>3. LockTypes' BY <2>1, <2>3, <3>1 DEF LockIInv, LockTypes
    <3>4. KeeperLocks(k)' BY <2>3 DEF KeeperLocks
    <3> QED BY <1>1, <2>1, <2>3, <3>2, <3>3, <3>4, OneProcess DEF LockIInv
  <2> QED BY <1>2, <2>2, <2>3 DEF LockExclusive
<1>3. CASE Restore(k)
  <2>1. /\ pc[k] = "restore" /\ GoTo(k, "release")
        /\ UNCHANGED <<locks, pidFile, dir, opened>>
    BY <1>3 DEF Restore, private
  <2>2. KeeperLocks(k)' BY <2>1 DEF LockIInv, KeeperLocks, locks
  <2>3. "release" \in Locations BY DEF Locations
  <2> QED BY <1>1, <2>1, <2>2, <2>3, Moves
<1> QED BY <1>2, <1>3

LEMMA EnsureUnchangedStep ==
    ASSUME LockIInv, NEW p \in Processes, EnsureUnchanged(p)
    PROVE  LockIInv'
<1>1. pc[p] = "unchanged" /\ opened' = opened /\ pidFile' = pidFile
  BY DEF EnsureUnchanged
<1>2. p \in Servers \cup Doctors => opened[p] = 0
  BY <1>1 DEF LockIInv, ServerLocks, DoctorLocks, PoolOpen
<1>3. CASE Exit(p) BY <1>1, <1>2, <1>3, Exits
<1>4. CASE p \in Servers /\ GoTo(p, "runtime") /\ (\E d \in Dirs : dir' = [dir EXCEPT ![p] = d])
           /\ UNCHANGED <<locks, target>>
  <2>1. p \notin Doctors /\ p \notin Keepers BY <1>4, StartupAssumption
  <2>2. pc' = [pc EXCEPT ![p] = "runtime"] /\ "runtime" \in Locations
    BY <1>4 DEF GoTo, Locations
  <2>3. pc'[p] = "runtime" /\ \A q \in Processes \ {p} : pc'[q] = pc[q]
    BY <2>2 DEF LockIInv, LockTypes
  <2>4. dir'[p] \in Dirs /\ \A q \in Servers \ {p} : dir'[q] = dir[q]
    BY <1>4 DEF LockIInv, LockTypes
  <2>5. dir' \in [Servers -> Dirs \cup {NoDir}] BY <1>4 DEF LockIInv, LockTypes
  <2>6. LockTypes' BY <1>1, <1>4, <2>2, <2>5 DEF LockIInv, LockTypes, locks
  <2>7. p \in instance /\ p \in shared
    BY <1>1, <1>4 DEF LockIInv, ServerLocks, Holding, Sharing
  <2>8. ServerLocks(p)'
    BY <1>1, <1>2, <1>4, <2>3, <2>4, <2>7
       DEF ServerLocks, PidWritten, InService, Initialising, locks
  <2>9. UNCHANGED <<instance, shared, exclusive, runtime>> BY <1>4 DEF locks
  <2> QED BY <1>1, <2>1, <2>3, <2>4, <2>6, <2>8, <2>9, OneProcess DEF LockIInv
<1>5. CASE p \in Keepers /\ GoTo(p, "restore") /\ UNCHANGED <<locks, dir>>
  <2>1. p \notin Servers /\ p \notin Doctors BY <1>5, StartupAssumption
  <2>2. KeeperLocks(p)' BY <1>1, <1>5 DEF LockIInv, KeeperLocks, locks
  <2>3. "restore" \in Locations BY DEF Locations
  <2> QED BY <1>1, <1>5, <2>1, <2>2, <2>3, Moves
<1>6. CASE p \in Doctors /\ StartSnapshot(p) /\ UNCHANGED <<locks, dir>>
  <2>1. p \notin Servers /\ p \notin Keepers BY <1>6, StartupAssumption
  <2>2. GoTo(p, "snapshot") BY <1>6 DEF StartSnapshot
  <2>3. DoctorLocks(p)' BY <1>1, <1>2, <1>6 DEF LockIInv, DoctorLocks, Sharing, locks
  <2>4. "snapshot" \in Locations BY DEF Locations, InService
  <2> QED BY <1>1, <1>6, <2>1, <2>2, <2>3, <2>4, Moves
<1> QED BY <1>3, <1>4, <1>5, <1>6 DEF EnsureUnchanged

LEMMA SnapshotSteps ==
    ASSUME LockIInv, NEW p \in Servers \cup Doctors, ReadSource(p) \/ Validate(p)
    PROVE  LockIInv'
<1>1. p \in Processes /\ p \notin Keepers BY StartupAssumption DEF Processes
<1>2. pc[p] \in {"snapshot", "validate"} /\ UNCHANGED <<locks, pidFile, dir, opened>>
  BY DEF ReadSource, Validate, private
<1>3. CASE p \in Servers
  <2>1. pc[p] \in PidWritten BY <1>2 DEF PidWritten, InService
  <2>2. p \notin Doctors BY <1>3, StartupAssumption
  <2>3. PICK l \in {"validate", "connect", "validateOpen", "closing", "dropPid"} :
          /\ GoTo(p, l) \/ pc' = pc
          /\ opened[p] = 0 \/ l \in PoolOpen
    BY <2>2 DEF ReadSource, Validate, AfterFailure, PoolOpen
  <2>4. l \in InService /\ l \notin {"truncate", "writePid"} BY DEF InService
  <2>5. CASE GoTo(p, l) BY <1>2, <1>3, <2>1, <2>3, <2>4, <2>5, StaysInService
  <2> QED BY <1>2, <2>3, <2>5, LocksUndisturbed
<1>4. CASE p \in Doctors
  <2>1. p \notin Servers BY <1>4, StartupAssumption
  <2>2. PICK l \in {"validate", "reads", "release"} : GoTo(p, l) \/ pc' = pc
    BY <1>4 DEF ReadSource, Validate, AfterFailure
  <2>3. l \in Locations /\ l \in Sharing BY DEF Locations, Sharing, InService
  <2>4. p \in shared /\ opened[p] = 0
    BY <1>2, <1>4 DEF LockIInv, DoctorLocks, Sharing, InService
  <2>5. CASE GoTo(p, l)
    <3>1. DoctorLocks(p)' BY <1>2, <2>4 DEF DoctorLocks, locks
    <3> QED BY <1>1, <1>2, <2>1, <2>3, <2>5, <3>1, Moves
  <2> QED BY <1>2, <2>2, <2>5, LocksUndisturbed
<1> QED BY <1>3, <1>4

LEMMA ServingSteps ==
    ASSUME LockIInv, NEW s \in Servers,
           Connect(s) \/ ValidateOpen(s) \/ WriteFrame(s) \/ Stop(s) \/ ClosePool(s)
    PROVE  LockIInv'
<1> USE DEF private
<1>1. s \in Processes /\ s \notin Doctors /\ s \notin Keepers
  BY StartupAssumption DEF Processes
<1>2. /\ ServerLocks(s) /\ LockTypes BY DEF LockIInv
<1>3. ASSUME NEW l \in InService, GoTo(s, l), l \notin {"truncate", "writePid"},
             pc[s] \in PidWritten, UNCHANGED <<locks, pidFile, dir>>,
             \/ opened' = opened /\ (opened[s] = 0 \/ l \in PoolOpen)
             \/ \E i : opened' = [opened EXCEPT ![s] = i] /\ (i = 0 \/ l \in PoolOpen)
      PROVE  LockIInv'
  <2>1. pc'[s] = l /\ l \in Locations BY <1>1, <1>2, <1>3 DEF GoTo, LockTypes, Locations
  <2>2. pc[s] \in InService BY <1>3 DEF PidWritten
  <2>3. /\ s \in instance /\ s \in shared /\ dir[s] \in Dirs /\ runtime[dir[s]] = {s}
        /\ pidFile[dir[s]] = s
    BY <1>2, <1>3, <2>2 DEF ServerLocks, Holding, Sharing
  <2>4. l \notin {"shared", "exclusive", "runtime"} BY <1>3 DEF InService, Initialising
  <2>5. /\ DOMAIN opened' = DOMAIN opened
        /\ \A q \in (Servers \cup Doctors) \ {s} : opened'[q] = opened[q]
        /\ opened'[s] = 0 \/ l \in PoolOpen
    BY <1>2, <1>3 DEF LockTypes
  <2>6. ServerLocks(s)' BY <1>3, <2>1, <2>3, <2>4, <2>5 DEF ServerLocks, locks
  <2> QED BY <1>1, <1>3, <2>1, <2>5, <2>6, Moves
<1>4. {"snapshot", "dropPid", "serving", "closing"} \subseteq InService \ {"truncate", "writePid"}
  BY DEF InService
<1>5. {"connect", "validateOpen", "serving", "closing"} \subseteq PidWritten
  BY DEF PidWritten, InService
<1>6. {"snapshot", "serving", "closing"} \subseteq PoolOpen BY DEF PoolOpen
<1>7. CASE Connect(s)
  <2>1. pc[s] \in PidWritten /\ opened[s] = 0
    BY <1>2, <1>5, <1>7 DEF Connect, ServerLocks, PoolOpen
  <2>2. UNCHANGED <<locks, pidFile, dir>> BY <1>7 DEF Connect
  <2>3. CASE opened' = [opened EXCEPT ![s] = files.inode] /\ StartSnapshot(s)
    <3>1. GoTo(s, "snapshot") BY <2>3 DEF StartSnapshot
    <3> QED BY <1>3, <1>4, <1>6, <2>1, <2>2, <2>3, <3>1
  <2>4. CASE GoTo(s, "dropPid") /\ opened' = opened
    BY <1>3, <1>4, <2>1, <2>2, <2>4
  <2> QED BY <1>7, <2>3, <2>4 DEF Connect
<1>8. CASE ValidateOpen(s)
  <2>1. pc[s] \in PidWritten BY <1>5, <1>8 DEF ValidateOpen
  <2>2. \E l \in {"serving", "closing"} : GoTo(s, l) BY <1>8 DEF ValidateOpen
  <2> QED BY <1>3, <1>4, <1>6, <1>8, <2>1, <2>2 DEF ValidateOpen
<1>9. CASE WriteFrame(s) BY <1>9, LocksUndisturbed DEF WriteFrame
<1>10. CASE Stop(s) BY <1>3, <1>4, <1>5, <1>6, <1>10 DEF Stop
<1>11. CASE ClosePool(s) BY <1>3, <1>4, <1>5, <1>11 DEF ClosePool
<1> QED BY <1>7, <1>8, <1>9, <1>10, <1>11

LEMMA DropSteps ==
    ASSUME LockIInv, NEW s \in Servers, DropPid(s) \/ Unlock(s)
    PROVE  LockIInv'
<1>1. s \in Processes /\ s \notin Doctors /\ s \notin Keepers
  BY StartupAssumption DEF Processes
<1>2. ServerLocks(s) /\ LockTypes BY DEF LockIInv
<1>3. pc[s] \in {"dropPid", "unlock", "unlockRest"} => opened[s] = 0
  BY <1>2 DEF ServerLocks, PoolOpen
<1>4. pc[s] \in {"dropPid", "unlock"} =>
        s \in instance /\ s \in shared /\ dir[s] \in Dirs /\ runtime[dir[s]] = {s}
  BY <1>2 DEF ServerLocks, Holding, Sharing, InService
<1>5. CASE DropPid(s)
  <2>1. /\ pc[s] = "dropPid" /\ pc' = [pc EXCEPT ![s] = "unlock"] /\ "unlock" \in Locations
        /\ UNCHANGED <<instance, shared, exclusive, runtime, dir, opened>>
        /\ \/ pidFile' = pidFile
           \/ pidFile' = [pidFile EXCEPT ![dir[s]] = NoPid]
    BY <1>5 DEF DropPid, GoTo, locks, private, Locations, InService
  <2>2. pc'[s] = "unlock" /\ \A q \in Processes \ {s} : pc'[q] = pc[q]
    BY <1>1, <1>2, <2>1 DEF LockTypes
  <2>3. LockTypes' BY <1>2, <2>1 DEF LockTypes
  <2>4. \A q \in Servers \ {s} : \A d \in Dirs : runtime[d] = {q} => pidFile'[d] = pidFile[d]
    BY <1>2, <1>4, <2>1 DEF LockTypes
  <2>5. ServerLocks(s)'
    BY <1>3, <1>4, <2>1, <2>2 DEF ServerLocks, PidWritten
  <2> QED BY <1>1, <2>1, <2>2, <2>3, <2>4, <2>5, OneProcess DEF LockIInv
<1>6. CASE Unlock(s)
  <2>1. opened' = opened /\ pidFile' = pidFile BY <1>6 DEF Unlock
  <2>2. CASE pc[s] = "unlockRest" /\ Exit(s) BY <1>1, <1>3, <2>1, <2>2, Exits
  <2>3. CASE pc[s] = "unlock" /\ instance' = instance \ {s} /\ GoTo(s, "unlockRest")
             /\ UNCHANGED <<shared, exclusive, runtime, target, dir>>
    <3>1. pc' = [pc EXCEPT ![s] = "unlockRest"] /\ "unlockRest" \in Locations
      BY <2>3 DEF GoTo, Locations
    <3>2. pc'[s] = "unlockRest" /\ \A q \in Processes \ {s} : pc'[q] = pc[q]
      BY <1>1, <1>2, <3>1 DEF LockTypes
    <3>3. LockTypes' BY <1>2, <2>1, <2>3, <3>1 DEF LockTypes
    <3>4. ServerLocks(s)'
      BY <1>3, <1>4, <2>1, <2>3, <3>2
         DEF ServerLocks, Holding, PidWritten, InService, Initialising
    <3> QED BY <1>1, <2>1, <2>3, <3>2, <3>3, <3>4, OneProcess DEF LockIInv
  <2> QED BY <1>6, <2>1, <2>2, <2>3 DEF Unlock
<1> QED BY <1>5, <1>6

LEMMA DoctorSteps ==
    ASSUME LockIInv, NEW d \in Doctors, DoctorStep(d)
    PROVE  LockIInv'
<1>1. d \in Processes /\ d \notin Servers /\ d \notin Keepers
  BY StartupAssumption DEF Processes
<1>2. DoctorLocks(d) /\ LockTypes BY DEF LockIInv
<1>3. PICK l \in {"write", "release", "rollback"} :
        /\ GoTo(d, l)
        /\ \/ opened' = opened
           \/ l = "rollback" /\ opened' = [opened EXCEPT ![d] = files.inode]
        /\ l = "write" => pc[d] = "reads"
  BY DEF DoctorStep, ProbeReads, ProbeWrite, ProbeRollback, private
<1>4. pc[d] \in {"reads", "write", "rollback"} /\ UNCHANGED <<locks, pidFile, dir>>
  BY DEF DoctorStep, ProbeReads, ProbeWrite, ProbeRollback, private
<1>5. d \in shared BY <1>2, <1>4 DEF DoctorLocks, Sharing
<1>6. pc'[d] = l /\ l \in Locations BY <1>1, <1>2, <1>3 DEF GoTo, LockTypes, Locations
<1>7. /\ DOMAIN opened' = DOMAIN opened
      /\ \A q \in (Servers \cup Doctors) \ {d} : opened'[q] = opened[q]
  BY <1>2, <1>3 DEF LockTypes
<1>8. opened'[d] # 0 => l \in {"rollback", "release"}
  BY <1>2, <1>3, <1>4 DEF DoctorLocks
<1>9. DoctorLocks(d)' BY <1>4, <1>5, <1>6, <1>8 DEF DoctorLocks, locks
<1> QED BY <1>1, <1>3, <1>4, <1>6, <1>7, <1>9, Moves

LEMMA EndSteps ==
    ASSUME LockIInv, NEW p \in Processes,
           (p \in Doctors \cup Keepers /\ Release(p)) \/ Crash(p)
    PROVE  LockIInv'
<1>1. p \in Keepers => p \notin Servers \cup Doctors BY StartupAssumption
<1>2. Exit(p) /\ pidFile' = pidFile BY DEF Release, Crash
<1>3. \/ opened' = opened /\ p \notin Servers \cup Doctors
      \/ opened' = [opened EXCEPT ![p] = 0]
  BY <1>1, StartupAssumption DEF Release, Crash, Processes
<1> QED BY <1>2, <1>3, Exits

LEMMA LocksStep == LockIInv /\ [Next]_vars => LockIInv'
<1> SUFFICES ASSUME LockIInv, [Next]_vars PROVE LockIInv'
  OBVIOUS
<1>1. CASE UNCHANGED vars BY <1>1, LocksUndisturbed DEF vars, locks
<1>2. ASSUME NEW p \in Processes, ReadTarget(p) \/ EnsureUnchanged(p) \/ Crash(p)
      PROVE  LockIInv'
  BY <1>2, ReadTargetStep, EnsureUnchangedStep, EndSteps
<1>3. ASSUME NEW p \in Servers \cup Doctors,
             LockShared(p) \/ ReadSource(p) \/ Validate(p) \/ Checkpoint(p)
      PROVE  LockIInv'
  <2>1. CASE Checkpoint(p) BY <2>1, LocksUndisturbed DEF Checkpoint, private
  <2> QED BY <1>3, <2>1, LockSharedStep, SnapshotSteps
<1>4. ASSUME NEW p \in Doctors \cup Keepers, Release(p) PROVE LockIInv'
  BY <1>4, EndSteps DEF Processes
<1>5. ASSUME NEW s \in Servers, ServerStep(s) PROVE LockIInv'
  BY <1>5, AcquireSteps, InitialiseSteps, ServingSteps, DropSteps DEF ServerStep
<1>6. ASSUME NEW d \in Doctors, DoctorStep(d) PROVE LockIInv' BY <1>6, DoctorSteps
<1>7. ASSUME NEW k \in Keepers, LockExclusive(k) \/ Restore(k) PROVE LockIInv'
  BY <1>7, KeeperSteps
<1> QED BY <1>1, <1>2, <1>3, <1>4, <1>5, <1>6, <1>7 DEF Next

-----------------------------------------------------------------------------
\* However many servers are started at once on one database, in whatever runtime
\* directories: one is past its locks, and maintenance replaces the database beside
\* no server and no doctor (ApplicationLock::acquire, DatabaseMaintenanceLock).
THEOREM ServiceExcludes == Spec => []ServiceIsExclusive
<1>1. LockIInv => ServiceIsExclusive
  <2> SUFFICES ASSUME LockIInv PROVE ServiceIsExclusive
    OBVIOUS
  <2>1. ASSUME NEW s \in Servers, pc[s] \in InService PROVE s \in instance /\ s \in shared
    BY <2>1 DEF LockIInv, ServerLocks, Holding, Sharing
  <2>2. ASSUME NEW s \in Servers, NEW t \in Servers, pc[s] \in InService, pc[t] \in InService
        PROVE  s = t
    BY <2>1, <2>2 DEF LockIInv
  <2>3. ASSUME NEW p \in Servers \cup Doctors, opened[p] # 0 \/ pc[p] = "snapshot"
        PROVE  p \in shared
    <3>1. pc[p] \in Sharing
      BY <2>3 DEF LockIInv, ServerLocks, DoctorLocks, PoolOpen, Sharing, InService
    <3> QED BY <3>1 DEF LockIInv, ServerLocks, DoctorLocks
  <2>4. ASSUME NEW k \in Keepers, pc[k] = "restore" PROVE shared = {}
    BY <2>4 DEF LockIInv, KeeperLocks
  <2> QED BY <2>1, <2>2, <2>3, <2>4 DEF ServiceIsExclusive
<1> QED BY <1>1, LocksInitially, LocksStep, PTL DEF Spec

\* The PID file of a serving server names it, whatever was refused, stopped or died
\* in that directory before (write_pid, ApplicationLock's Drop).
THEOREM PidFileIsHonest == Spec => []PidFileNamesServer
<1>1. LockIInv => PidFileNamesServer
  BY DEF LockIInv, ServerLocks, PidWritten, InService, PidFileNamesServer
<1> QED BY <1>1, LocksInitially, LocksStep, PTL DEF Spec

-----------------------------------------------------------------------------
(* What the operators of DatabaseFiles make of the files.                  *)

LEMMA Contents ==
    /\ Pages # {} /\ 0 \in Versions /\ 1 \in Versions
    /\ Blank \in Content /\ Whole(Blank) /\ ~Accepted(Blank)
    /\ \A v \in Versions : At(v) \in Content /\ Whole(At(v)) /\ (Accepted(At(v)) <=> v # 0)
<1>1. 1 \in Pages /\ 0 \in Versions /\ 1 \in Versions
  BY FilesAssumption DEF Pages, Versions
<1>2. Blank \in Content BY <1>1 DEF Blank, Content
<1>3. Blank = At(0) BY DEF Blank, At
<1>4. ~Accepted(Blank) BY <1>1 DEF Blank, Accepted
<1>5. \A v \in Versions : At(v) \in Content /\ (Accepted(At(v)) <=> v # 0)
  BY <1>1 DEF At, Content, Accepted
<1> QED BY <1>1, <1>2, <1>3, <1>4, <1>5 DEF Whole

LEMMA Walls == NoWal \in Wal /\ NoWal.commit = 0 /\ NoWal.tail = 0
  BY FilesAssumption, Contents DEF NoWal, Wal

LEMMA MainType == ASSUME NEW f \in Files PROVE Main(f) \in Content
<1>1. f.inode # 0 => f.inode \in 1..MaxInodes BY FilesAssumption DEF Files
<1> QED BY <1>1, Contents DEF Main, Files

\* What is accepted is no unfinished initialisation: it is in the log, or in every page.
LEMMA AcceptedWhen ==
    ASSUME NEW f \in Files
    PROVE  Accepted(Current(f))
             <=> ~f.journal /\ (f.wal.commit # 0 \/ Accepted(Main(f)))
<1>1. f.wal.commit \in Versions BY DEF Files, Wal
<1> QED BY <1>1, Contents DEF Current, Opened

LEMMA WrittenIs ==
    ASSUME NEW f \in Files, f.inode # 0, NEW c \in Content
    PROVE  LET g == Written(f, c) IN
           /\ g \in Files /\ Main(g) = c
           /\ g.inode = f.inode /\ g.born = f.born /\ g.wal = f.wal /\ g.journal = f.journal
<1> DEFINE g == Written(f, c)
<1>1. g = [f EXCEPT !.pages = [f.pages EXCEPT ![f.inode] = c]] BY DEF Written
<1>2. f.inode \in 1..MaxInodes BY FilesAssumption DEF Files
<1>3. [f.pages EXCEPT ![f.inode] = c] \in [1..MaxInodes -> Content] BY DEF Files
<1>4. g \in Files BY <1>1, <1>3 DEF Files
<1>5. g.inode = f.inode /\ g.born = f.born /\ g.wal = f.wal /\ g.journal = f.journal
  BY <1>1 DEF Files
<1>6. g.pages = [f.pages EXCEPT ![f.inode] = c] BY <1>1 DEF Files
<1>7. g.pages[f.inode] = c BY <1>2, <1>6 DEF Files
<1> QED BY <1>2, <1>4, <1>5, <1>7 DEF Main

LEMMA FirstPageIs ==
    ASSUME NEW f \in Files, f.inode # 0, NEW v \in Versions
    PROVE  LET g == FirstPageWritten(f, v) IN
           /\ g \in Files
           /\ g.inode = f.inode /\ g.born = f.born /\ g.wal = f.wal /\ g.journal = f.journal
           /\ v # 0 => \A q \in Pages : Main(f)[q] # 0 => Main(g)[q] # 0
<1> DEFINE behind == {p \in Pages : Main(f)[p] # v}
           c == [p \in Pages |-> IF p \in behind /\ \A q \in behind : p <= q
                                 THEN v ELSE Main(f)[p]]
<1>1. c \in Content
  <2>1. \A p \in Pages : Main(f)[p] \in Versions BY MainType DEF Content
  <2> QED BY <2>1 DEF Content
<1>2. FirstPageWritten(f, v) = Written(f, c) BY DEF FirstPageWritten
<1>3. v # 0 => \A q \in Pages : Main(f)[q] # 0 => c[q] # 0 OBVIOUS
<1> HIDE DEF c
<1> QED BY <1>1, <1>2, <1>3, WrittenIs

LEMMA NewFileIs ==
    ASSUME NEW f \in Files, f.born < MaxInodes, NEW c \in Content
    PROVE  LET g == NewFile(f, c) IN
           /\ g \in Files /\ Main(g) = c
           /\ g.inode # 0 /\ g.wal = f.wal /\ g.journal = f.journal
<1> DEFINE g == NewFile(f, c)
           n == f.born + 1
           a == [f EXCEPT !.inode = n]
           b == [a EXCEPT !.born = n]
<1>1. n \in 1..MaxInodes BY FilesAssumption DEF Files
<1>2. n \in 0..MaxInodes BY <1>1
<1>3. a \in Files /\ a.inode = n /\ a.born = f.born /\ a.pages = f.pages /\ a.wal = f.wal
        /\ a.journal = f.journal
  BY <1>2 DEF Files
<1> HIDE DEF a
<1>4. b \in Files /\ b.inode = n /\ b.pages = f.pages /\ b.wal = f.wal
        /\ b.journal = f.journal
  BY <1>2, <1>3 DEF Files
<1>5. g = [b EXCEPT !.pages = [f.pages EXCEPT ![n] = c]] BY Zenon DEF NewFile, a, b
<1> HIDE DEF b, n
<1>6. g = Written(b, c) BY <1>4, <1>5 DEF Written
<1>7. b.inode # 0 BY <1>1, <1>4
<1> QED BY <1>4, <1>6, <1>7, WrittenIs

LEMMA RolledBackIs ==
    ASSUME NEW f \in Files, f.inode # 0
    PROVE  LET g == RolledBack(f) IN
           /\ g \in Files /\ Main(g) = Blank
           /\ g.inode = f.inode /\ g.wal = f.wal /\ ~g.journal
<1> DEFINE w == Written(f, Blank)
           g == RolledBack(f)
<1>1. /\ w \in Files /\ Main(w) = Blank /\ w.inode = f.inode /\ w.wal = f.wal
  BY Contents, WrittenIs
<1>2. g = [w EXCEPT !.journal = FALSE] BY DEF RolledBack
<1> HIDE DEF w, g
<1>3. g \in Files /\ g.inode = w.inode /\ g.pages = w.pages /\ g.wal = w.wal /\ g.journal = FALSE
  BY <1>1, <1>2 DEF Files
<1>4. Main(g) = Main(w) BY <1>3 DEF Main
<1> QED BY <1>1, <1>3, <1>4 DEF g

LEMMA NoSnapshotIs ==
    /\ NoSnapshot \in Snapshot
    /\ NoSnapshot.pass = 1 /\ NoSnapshot.next = 1 /\ NoSnapshot.wal.commit = 0
    /\ NoSnapshot.journal = FALSE
  BY FilesAssumption, Contents, Walls DEF NoSnapshot, Snapshot, Pages

LEMMA CurrentType == ASSUME NEW f \in Files PROVE Current(f) \in Content
<1>1. f.wal.commit \in Versions BY DEF Files, Wal
<1> QED BY <1>1, Contents, MainType DEF Current, Opened

\* One read of a copy.
LEMMA ReadIs ==
    ASSUME NEW f \in Files, NEW k \in Snapshot,
           k.pass = 1 /\ k.next = 1 => f.inode # 0, k.next > 1 => k.inode # 0
    PROVE  LET r == Read(f, k) IN
           /\ r \in Snapshot /\ r.pass = k.pass /\ r.next = k.next
           /\ k.pass = 1 => r.inode # 0 /\ r.wal = k.wal /\ r.journal = k.journal
           /\ k.pass = 1 =>
                /\ r.inode = IF k.next = 1 THEN f.inode ELSE k.inode
                /\ r.pages = [k.pages EXCEPT ![k.next] = f.pages[r.inode][k.next]]
                /\ r.low = IF k.next = 1 THEN Current(f) ELSE k.low
           /\ k.pass = 2 => r.inode = k.inode /\ r.wal = f.wal /\ r.journal = k.journal
           /\ k.pass = 3 => r.inode = k.inode /\ r.wal = k.wal /\ r.journal = f.journal
           /\ k.pass \in {2, 3} => r.pages = k.pages /\ r.low = k.low
           /\ k.pass > 3 => r = k
<1> DEFINE r == Read(f, k)
<1>1. k.pass \in 1..7 /\ k.next \in Pages /\ k.next \in 1..NumPages BY DEF Snapshot, Pages
<1>2. CASE k.pass = 1
  <2> DEFINE i == IF Opens(k) THEN f.inode ELSE k.inode
             c == [k.pages EXCEPT ![k.next] = f.pages[i][k.next]]
             l == IF Opens(k) THEN Current(f) ELSE k.low
             a == [k EXCEPT !.inode = i]
             b == [a EXCEPT !.pages = c]
             d == [b EXCEPT !.low = l]
  <2>1. Opens(k) <=> k.next = 1 BY <1>2 DEF Opens, MainPasses
  <2>2. i \in 1..MaxInodes
    <3>1. f.inode \in 0..MaxInodes /\ k.inode \in 0..MaxInodes BY DEF Files, Snapshot
    <3> QED BY <1>1, <1>2, <2>1, <3>1, FilesAssumption
  <2>3. c \in Content /\ l \in Content
    <3>1. f.pages[i] \in Content BY <2>2 DEF Files
    <3>2. f.pages[i][k.next] \in Versions BY <1>1, <3>1 DEF Content
    <3>3. k.pages \in Content /\ k.low \in Content BY DEF Snapshot
    <3>4. c \in Content BY <3>2, <3>3 DEF Content
    <3> QED BY <3>3, <3>4, CurrentType
  <2>4. i \in 0..MaxInodes /\ i # 0 BY <2>2
  <2>5. r = d
    <3>1. r = [k EXCEPT !.inode = i, !.pages[k.next] = f.pages[i][k.next],
                        !.low = IF Opens(k) THEN Current(f) ELSE @]
      BY <1>2 DEF Read
    <3> QED BY <3>1, Zenon DEF a, b, d, c, l
  <2>9. i = IF k.next = 1 THEN f.inode ELSE k.inode BY <2>1
  <2>10. l = IF k.next = 1 THEN Current(f) ELSE k.low BY <2>1
  <2>11. c = [k.pages EXCEPT ![k.next] = f.pages[i][k.next]] OBVIOUS
  <2> HIDE DEF c, l, i
  <2>6. /\ a \in Snapshot /\ a.inode = i /\ a.pass = k.pass /\ a.next = k.next
        /\ a.wal = k.wal /\ a.journal = k.journal
    BY <2>4 DEF Snapshot
  <2> HIDE DEF a
  <2>7. /\ b \in Snapshot /\ b.inode = i /\ b.pass = k.pass /\ b.next = k.next
        /\ b.wal = k.wal /\ b.journal = k.journal /\ b.pages = c
    BY <2>3, <2>6 DEF Snapshot
  <2> HIDE DEF b
  <2>8. /\ d \in Snapshot /\ d.inode = i /\ d.pass = k.pass /\ d.next = k.next
        /\ d.wal = k.wal /\ d.journal = k.journal /\ d.pages = c /\ d.low = l
    BY <2>3, <2>7 DEF Snapshot
  <2> HIDE DEF d
  <2> QED BY <1>2, <2>4, <2>5, <2>8, <2>9, <2>10, <2>11
<1>3. CASE k.pass = 2
  <2>1. f.wal \in Wal BY DEF Files
  <2>2. r = [k EXCEPT !.wal = f.wal] BY <1>3 DEF Read
  <2> QED BY <1>3, <2>1, <2>2 DEF Snapshot
<1>4. CASE k.pass = 3
  <2>1. f.journal \in BOOLEAN BY DEF Files
  <2>2. r = [k EXCEPT !.journal = f.journal] BY <1>4 DEF Read
  <2> QED BY <1>4, <2>1, <2>2 DEF Snapshot
<1>5. CASE k.pass > 3
  <2>1. r = k BY <1>5 DEF Read
  <2> QED BY <1>5, <2>1
<1> QED BY <1>1, <1>2, <1>3, <1>4, <1>5

LEMMA AdvancedIs ==
    ASSUME NEW k \in Snapshot, k.pass < 7
    PROVE  LET a == Advanced(k) IN
           /\ a \in Snapshot
           /\ a.inode = k.inode /\ a.pages = k.pages /\ a.wal = k.wal /\ a.journal = k.journal
           /\ a.low = k.low
           /\ \/ /\ k.pass \in {1, 4} /\ k.next # NumPages
                 /\ a.pass = k.pass /\ a.next = k.next + 1
              \/ /\ k.pass \in {1, 4} => k.next = NumPages
                 /\ a.pass = k.pass + 1 /\ a.next = 1
<1>1. k.pass \in 1..6 /\ k.next \in 1..NumPages BY DEF Snapshot, Pages
<1>2. CASE k.pass \in {1, 4} /\ k.next # NumPages
  <2>1. Advanced(k) = [k EXCEPT !.next = k.next + 1] BY <1>2 DEF Advanced, MainPasses
  <2>2. k.next + 1 \in Pages BY <1>1, <1>2, FilesAssumption DEF Pages
  <2> QED BY <1>2, <2>1, <2>2 DEF Snapshot
<1>3. CASE ~(k.pass \in {1, 4} /\ k.next # NumPages)
  <2> DEFINE n == k.pass + 1
             b == [k EXCEPT !.next = 1]
             c == [b EXCEPT !.pass = n]
  <2>1. Advanced(k) = c
    <3>1. Advanced(k) = [k EXCEPT !.next = 1, !.pass = NextPass(k)]
      BY <1>3 DEF Advanced, MainPasses
    <3> QED BY <3>1, Zenon DEF b, c, n, NextPass
  <2>2. 1 \in Pages BY Contents, FilesAssumption DEF Pages
  <2>3. n \in 1..7 BY <1>1
  <2> HIDE DEF n
  <2>4. /\ b \in Snapshot /\ b.next = 1 /\ b.inode = k.inode /\ b.pages = k.pages
        /\ b.wal = k.wal /\ b.journal = k.journal /\ b.low = k.low
    BY <2>2 DEF Snapshot
  <2> HIDE DEF b
  <2>5. /\ c \in Snapshot /\ c.next = 1 /\ c.pass = n /\ c.inode = k.inode
        /\ c.pages = k.pages /\ c.wal = k.wal /\ c.journal = k.journal /\ c.low = k.low
    BY <2>3, <2>4 DEF Snapshot
  <2> HIDE DEF c
  <2> QED BY <1>3, <2>1, <2>5 DEF n
<1> QED BY <1>2, <1>3

-----------------------------------------------------------------------------
(* What is served: the invariant.                                          *)

\* At any time the main file holds one transaction, unless a journal or the log
\* says what it holds; a first initialisation uses no log.
FilesIInv ==
    /\ files \in Files
    /\ files.inode = 0 \/ files.journal => files.wal.commit = 0
    /\ ~files.journal /\ files.wal.commit = 0 => Whole(Main(files))

\* The pages of a copy that were found again after all files had been copied.
Checked(k) == IF k.pass < 4 THEN {} ELSE IF k.pass = 4 THEN {q \in Pages : q < k.next} ELSE Pages

\* What a server's own copy k says of the database, which no other process
\* initialises meanwhile: what stood in the log is still served, no journal has
\* appeared, and a page that was initialised still is.
Evidence(k) ==
    /\ k.wal.commit # 0 => k.pass > 2 /\ Accepted(Current(files))
    /\ k.pass > 3 /\ ~k.journal => ~files.journal
    /\ k.pass = 4 /\ k.next > 1 => k.inode = files.inode
    /\ ~k.journal => \A q \in Checked(k) : k.pages[q] # 0 => Main(files)[q] # 0

\* How far a server in service has brought its database.
ServerData(s) ==
    /\ pc[s] \in {"begin", "schema", "sync"} => files.inode # 0
    /\ pc[s] \in Initialising => files.wal.commit = 0
    /\ pc[s] = "schema" => files.journal
    /\ pc[s] = "sync" => ~files.journal /\ Main(files) = At(1)
    /\ pc[s] = "removeSidecars" => files.inode = 0
    /\ pc[s] \in {"snapshot", "validate"} => Evidence(snap[s])
    /\ pc[s] = "validate" => snap[s].pass = 7
    /\ pc[s] \in {"connect", "validateOpen", "serving"} => Accepted(Current(files))
    /\ pc[s] \in {"validateOpen", "serving"} => opened[s] # 0
    /\ opened[s] # 0 => opened[s] = files.inode

CopiesIInv ==
    /\ snap \in [Servers \cup Doctors -> Snapshot]
    /\ \A p \in Servers \cup Doctors :
         /\ snap[p].pass > 1 \/ snap[p].next > 1 => snap[p].inode # 0
         /\ pc[p] = "snapshot" => snap[p].pass < 7

DataIInv ==
    /\ FilesIInv
    /\ CopiesIInv
    /\ \A s \in Servers : ServerData(s)

\* What a step does to the files of a server in service that is not its own:
\* it may roll back a journal or copy the log into the main file.
Kept ==
    /\ files'.inode = files.inode
    /\ files.wal.commit = 0 => files'.wal.commit = 0
    /\ ~files.journal /\ files.wal.commit = 0 => files' = files
    /\ ~files.journal =>
         /\ ~files'.journal /\ Current(files') = Current(files)
         /\ \A q \in Pages : Main(files)[q] # 0 => Main(files')[q] # 0
    /\ (\E s \in Servers : pc[s] = "schema") => files' = files

LEMMA DataInitially == Init => DataIInv
<1> SUFFICES ASSUME Init PROVE DataIInv
  OBVIOUS
<1>1. /\ files = NoFiles /\ files \in Files /\ files.inode = 0 /\ files.wal = NoWal
      /\ files.journal = FALSE
  BY FilesAssumption, Contents, Walls DEF Init, NoFiles, Files
<1>2. FilesIInv BY <1>1, Contents, Walls DEF FilesIInv, Main
<1>3. CopiesIInv
  <2>1. snap \in [Servers \cup Doctors -> Snapshot] BY NoSnapshotIs DEF Init
  <2>2. \A p \in Servers \cup Doctors : snap[p] = NoSnapshot BY DEF Init
  <2> QED BY <2>1, <2>2, NoSnapshotIs DEF CopiesIInv
<1>4. \A s \in Servers : pc[s] = "down" /\ opened[s] = 0 BY DEF Init, Processes
<1>5. \A s \in Servers : ServerData(s) BY <1>4 DEF ServerData, Initialising
<1> QED BY <1>2, <1>3, <1>5 DEF DataIInv

\* A server that does not take the step keeps what it knows.
LEMMA OthersKeep ==
    ASSUME LockIInv, DataIInv, NEW s \in Servers,
           files' \in Files, pc[s] \in InService => Kept,
           pc'[s] = pc[s], opened'[s] = opened[s], snap'[s] = snap[s]
    PROVE  ServerData(s)'
<1>1. ServerData(s) /\ FilesIInv /\ files \in Files BY DEF DataIInv, FilesIInv
<1>2. CASE pc[s] \notin InService
  <2>1. opened[s] = 0 BY <1>2 DEF LockIInv, ServerLocks, PoolOpen, InService
  <2> QED BY <1>2, <2>1 DEF ServerData, InService, Initialising
<1>3. CASE pc[s] \in InService
  <2>1. Kept BY <1>3
  <2>2. Accepted(Current(files)) => Accepted(Current(files'))
    BY <1>1, <2>1, AcceptedWhen DEF Kept
  <2>3. Evidence(snap[s]) => Evidence(snap[s])'
    <3>1. ~files.journal => ~files'.journal BY <2>1 DEF Kept
    <3>2. ASSUME Evidence(snap[s]), ~snap[s].journal, NEW q \in Checked(snap[s]),
                 snap[s].pages[q] # 0
          PROVE  Main(files')[q] # 0
      <4>1. q \in Pages BY <3>2 DEF Checked
      <4>2. snap[s].pass > 3
        <5>1. snap[s].pass \in Nat BY DEF DataIInv, CopiesIInv, Snapshot
        <5> QED BY <3>2, <5>1 DEF Checked
      <4>3. ~files.journal BY <3>2, <4>2 DEF Evidence
      <4> QED BY <2>1, <3>2, <4>1, <4>3 DEF Kept, Evidence
    <3> QED BY <2>1, <2>2, <3>1, <3>2 DEF Evidence, Kept, Checked
  <2>4. pc[s] = "schema" => files' = files BY <2>1 DEF Kept
  <2>5. pc[s] = "sync" => files' = files BY <1>1, <2>1 DEF Kept, ServerData, Initialising
  <2> QED BY <1>1, <2>1, <2>2, <2>3, <2>4, <2>5 DEF ServerData, Kept
<1> QED BY <1>2, <1>3

\* A step of one process, and what is left to show for it.
LEMMA DataOfOne ==
    ASSUME LockIInv, DataIInv, NEW p \in Processes,
           FilesIInv', CopiesIInv',
           \A s \in Servers \ {p} : /\ pc[s] \in InService => Kept
                                    /\ pc'[s] = pc[s] /\ opened'[s] = opened[s]
                                    /\ snap'[s] = snap[s],
           p \in Servers => ServerData(p)'
    PROVE  DataIInv'
<1>1. files' \in Files BY DEF FilesIInv
<1>2. ASSUME NEW s \in Servers PROVE ServerData(s)'
  <2>1. CASE s = p BY <2>1
  <2>2. CASE s # p BY <1>1, <2>2, OthersKeep
  <2> QED BY <2>1, <2>2
<1> QED BY <1>2 DEF DataIInv

\* The files stay as they are.
LEMMA Unchanged == files' = files => Kept
  BY DEF Kept

\* The copies, when only p's location and copy change.
LEMMA CopiesOfOne ==
    ASSUME LockIInv, CopiesIInv, NEW p \in Processes, NEW l \in Locations, NEW k \in Snapshot,
           GoTo(p, l),
           snap' = snap \/ (p \in Servers \cup Doctors /\ snap' = [snap EXCEPT ![p] = k]),
           p \in Servers \cup Doctors =>
              /\ snap'[p].pass > 1 \/ snap'[p].next > 1 => snap'[p].inode # 0
              /\ l = "snapshot" => snap'[p].pass < 7
    PROVE  /\ CopiesIInv'
           /\ pc'[p] = l
           /\ \A q \in Processes \ {p} : pc'[q] = pc[q]
           /\ \A q \in (Servers \cup Doctors) \ {p} : snap'[q] = snap[q]
<1>1. pc'[p] = l /\ \A q \in Processes \ {p} : pc'[q] = pc[q]
  BY DEF LockIInv, LockTypes, GoTo
<1>2. /\ snap' \in [Servers \cup Doctors -> Snapshot]
      /\ \A q \in (Servers \cup Doctors) \ {p} : snap'[q] = snap[q]
  BY DEF CopiesIInv
<1>3. \A q \in (Servers \cup Doctors) \ {p} : q \in Processes \ {p} BY DEF Processes
<1> QED BY <1>1, <1>2, <1>3 DEF CopiesIInv

\* Where a server owes nothing about its database, as long as it has no pool open.
Unburdened == Locations \ ({"snapshot", "validate", "connect", "validateOpen", "serving"}
                             \cup Initialising)

LEMMA FreeOfBurden ==
    ASSUME NEW s \in Servers, pc'[s] \in Unburdened,
           opened'[s] # 0 => opened'[s] = files'.inode
    PROVE  ServerData(s)'
  BY DEF Unburdened, ServerData, Initialising

\* A step that changes neither files nor copies, to where nothing is owed.
LEMMA MovesFree ==
    ASSUME LockIInv, DataIInv, NEW p \in Processes, NEW l \in Unburdened, GoTo(p, l),
           files' = files, snap' = snap,
           \/ opened' = opened
           \/ p \in Servers \cup Doctors /\ opened' = [opened EXCEPT ![p] = 0]
           \/ p \in Doctors /\ opened' = [opened EXCEPT ![p] = files.inode]
    PROVE  DataIInv'
<1>1. l \in Locations /\ l # "snapshot" BY DEF Unburdened
<1>2. /\ CopiesIInv' /\ pc'[p] = l /\ \A q \in Processes \ {p} : pc'[q] = pc[q]
  BY <1>1, CopiesOfOne, NoSnapshotIs DEF DataIInv, CopiesIInv
<1>3. FilesIInv' BY DEF DataIInv, FilesIInv
<1>4. DOMAIN opened = Servers \cup Doctors BY DEF LockIInv, LockTypes
<1>5. \A q \in Servers \ {p} : opened'[q] = opened[q] /\ q \in Processes \ {p}
  BY <1>4 DEF Processes
<1>6. p \in Servers => ServerData(p)'
  <2> SUFFICES ASSUME p \in Servers PROVE ServerData(p)'
    OBVIOUS
  <2>1. p \notin Doctors BY StartupAssumption
  <2>2. opened[p] # 0 => opened[p] = files.inode BY DEF DataIInv, ServerData
  <2>3. opened'[p] = opened[p] \/ opened'[p] = 0 BY <1>4, <2>1
  <2> QED BY <1>2, <2>2, <2>3, FreeOfBurden
<1> QED BY <1>2, <1>3, <1>5, <1>6, DataOfOne, Unchanged

\* The same for a copy that is given up: of a failed validation, of a crash.
LEMMA DropsCopy ==
    ASSUME LockIInv, DataIInv, NEW p \in Servers \cup Doctors, NEW l \in Unburdened, GoTo(p, l),
           files' = files, DropSnapshot(p),
           opened' = opened \/ opened' = [opened EXCEPT ![p] = 0]
    PROVE  DataIInv'
<1>1. l \in Locations /\ l # "snapshot" /\ p \in Processes BY DEF Unburdened, Processes
<1>2. /\ CopiesIInv /\ snap' = [snap EXCEPT ![p] = NoSnapshot] /\ NoSnapshot \in Snapshot
      /\ ~(snap'[p].pass > 1) /\ ~(snap'[p].next > 1)
  BY NoSnapshotIs DEF DropSnapshot, DataIInv, CopiesIInv
<1>3. /\ CopiesIInv' /\ pc'[p] = l /\ \A q \in Processes \ {p} : pc'[q] = pc[q]
      /\ \A q \in (Servers \cup Doctors) \ {p} : snap'[q] = snap[q]
  BY <1>1, <1>2, CopiesOfOne
<1>4. FilesIInv' BY DEF DataIInv, FilesIInv
<1>5. DOMAIN opened = Servers \cup Doctors BY DEF LockIInv, LockTypes
<1>6. \A q \in Servers \ {p} : opened'[q] = opened[q] /\ q \in Processes \ {p}
  BY <1>5 DEF Processes
<1>7. p \in Servers => ServerData(p)'
  <2> SUFFICES ASSUME p \in Servers PROVE ServerData(p)'
    OBVIOUS
  <2>1. opened[p] # 0 => opened[p] = files.inode BY DEF DataIInv, ServerData
  <2>2. opened'[p] = opened[p] \/ opened'[p] = 0 BY <1>5
  <2> QED BY <1>3, <2>1, <2>2, FreeOfBurden
<1> QED BY <1>1, <1>3, <1>4, <1>6, <1>7, DataOfOne, Unchanged

\* A step that leaves processes where they are and files kept.
LEMMA FilesKeep ==
    ASSUME LockIInv, DataIInv, FilesIInv', Kept, UNCHANGED <<pc, opened, snap>>
    PROVE  DataIInv'
<1>1. files' \in Files BY DEF FilesIInv
<1>2. \A s \in Servers : ServerData(s)' BY <1>1, OthersKeep
<1> QED BY <1>2 DEF DataIInv, CopiesIInv

-----------------------------------------------------------------------------
(* What is served: the steps.                                              *)

\* A server in service is alone in it, and every one is a process.
LEMMA Alone ==
    ASSUME LockIInv, NEW s \in Servers, pc[s] \in InService
    PROVE  /\ s \in Processes /\ s \notin Doctors /\ s \notin Keepers
           /\ \A t \in Servers \ {s} : pc[t] \notin InService
<1>1. \A t \in Servers : pc[t] \in InService => t \in instance
  BY DEF LockIInv, ServerLocks, Holding
<1> QED BY <1>1, StartupAssumption DEF LockIInv, Processes

\* A step of a server in service: what is left to show.
LEMMA DataOfServer ==
    ASSUME LockIInv, DataIInv, NEW s \in Servers, pc[s] \in InService, NEW l \in Locations,
           GoTo(s, l) \/ (pc' = pc /\ l = pc[s]), l # "snapshot", snap' = snap, FilesIInv',
           DOMAIN opened' = DOMAIN opened,
           \A q \in (Servers \cup Doctors) \ {s} : opened'[q] = opened[q],
           pc'[s] = l => ServerData(s)'
    PROVE  DataIInv'
<1>1. s \in Processes /\ \A t \in Servers \ {s} : pc[t] \notin InService BY Alone
<1>2. pc' = [pc EXCEPT ![s] = l] BY DEF GoTo, LockIInv, LockTypes
<1>3. CopiesIInv' /\ pc'[s] = l /\ \A q \in Processes \ {s} : pc'[q] = pc[q]
  BY <1>1, <1>2, CopiesOfOne, NoSnapshotIs DEF DataIInv, CopiesIInv, GoTo
<1>4. \A q \in Servers \ {s} : q \in Processes \ {s} BY DEF Processes
<1> QED BY <1>1, <1>3, <1>4, DataOfOne

LEMMA InitialiseData ==
    ASSUME LockIInv, DataIInv, NEW s \in Servers,
           \/ Create(s) \/ BeginSchema(s) \/ WriteSchema(s) \/ SyncDatabase(s)
           \/ InitialisationFails(s) \/ RemoveGeneration(s)
    PROVE  DataIInv'
<1> USE DEF private
<1>1. pc[s] \in {"create"} \cup Initialising
  BY DEF Create, BeginSchema, WriteSchema, SyncDatabase, InitialisationFails,
         RemoveGeneration, Initialising
<1>2. pc[s] \in InService BY <1>1 DEF InService
<1>3. opened[s] = 0
  BY <1>1 DEF LockIInv, ServerLocks, PoolOpen, Initialising
<1>4. FilesIInv /\ files \in Files /\ ServerData(s) BY DEF DataIInv, FilesIInv
<1>5. opened' = opened /\ snap' = snap
  BY DEF Create, BeginSchema, WriteSchema, SyncDatabase, InitialisationFails, RemoveGeneration
<1>6. {"begin", "schema", "sync", "connect", "remove", "removeSidecars", "dropPid"}
        \subseteq Locations \ {"snapshot"}
  BY DEF Locations, InService, Initialising
<1>7. CASE Create(s)
  <2>1. CASE files.inode = 0 /\ files.born < MaxInodes /\ files' = NewFile(files, Blank)
             /\ GoTo(s, "begin")
    <3>1. /\ files' \in Files /\ Main(files') = Blank /\ files'.inode # 0
          /\ files'.wal = files.wal
      BY <1>4, <2>1, NewFileIs, Contents
    <3>2. files'.wal.commit = 0 BY <1>4, <2>1, <3>1 DEF FilesIInv
    <3>3. FilesIInv' BY <3>1, <3>2, Contents DEF FilesIInv
    <3>4. pc'[s] = "begin" => ServerData(s)'
      BY <1>3, <1>5, <3>1, <3>2 DEF ServerData
    <3> QED BY <1>2, <1>5, <1>6, <2>1, <3>3, <3>4, DataOfServer
  <2>2. CASE GoTo(s, "dropPid") /\ files' = files
    <3>1. FilesIInv' BY <1>4, <2>2 DEF FilesIInv
    <3>2. pc'[s] = "dropPid" => ServerData(s)' BY <1>3, <1>5 DEF ServerData, Initialising
    <3> QED BY <1>2, <1>5, <1>6, <2>2, <3>1, <3>2, DataOfServer
  <2> QED BY <1>7, <2>1, <2>2 DEF Create
<1>8. CASE BeginSchema(s)
  <2>1. files.inode # 0 /\ files.wal.commit = 0
    BY <1>4, <1>8 DEF BeginSchema, ServerData, Initialising
  <2>2. /\ files' \in Files /\ files'.inode = files.inode /\ files'.wal = files.wal
        /\ files'.journal = TRUE
    BY <1>4, <1>8 DEF BeginSchema, Files
  <2>3. FilesIInv' BY <2>1, <2>2 DEF FilesIInv
  <2>4. pc'[s] = "schema" => ServerData(s)' BY <1>3, <1>5, <2>1, <2>2 DEF ServerData
  <2> QED BY <1>2, <1>5, <1>6, <1>8, <2>3, <2>4, DataOfServer DEF BeginSchema
<1>9. CASE WriteSchema(s)
  <2>1. files.inode # 0 /\ files.wal.commit = 0 /\ files.journal /\ pc[s] = "schema"
    BY <1>4, <1>9 DEF WriteSchema, ServerData, Initialising
  <2>2. CASE files' = FirstPageWritten(files, 1) /\ pc' = pc
    <3>1. /\ files' \in Files /\ files'.inode = files.inode /\ files'.wal = files.wal
          /\ files'.journal = files.journal
      BY <1>4, <2>1, <2>2, FirstPageIs, Contents
    <3>2. FilesIInv' BY <2>1, <3>1 DEF FilesIInv
    <3>3. pc'[s] = "schema" => ServerData(s)' BY <1>3, <1>5, <2>1, <3>1 DEF ServerData
    <3> QED BY <1>2, <1>5, <1>6, <2>1, <2>2, <3>2, <3>3, DataOfServer
  <2>3. CASE Main(files) = At(1) /\ files' = [files EXCEPT !.journal = FALSE] /\ GoTo(s, "sync")
    <3>1. /\ files' \in Files /\ files'.inode = files.inode /\ files'.wal = files.wal
          /\ files'.journal = FALSE /\ files'.pages = files.pages
      BY <1>4, <2>3 DEF Files
    <3>2. Main(files') = At(1) BY <2>3, <3>1 DEF Main
    <3>3. FilesIInv' BY <2>1, <3>1, <3>2, Contents DEF FilesIInv
    <3>4. pc'[s] = "sync" => ServerData(s)' BY <1>3, <1>5, <2>1, <3>1, <3>2 DEF ServerData
    <3> QED BY <1>2, <1>5, <1>6, <2>3, <3>3, <3>4, DataOfServer
  <2> QED BY <1>9, <2>2, <2>3 DEF WriteSchema
<1>10. CASE SyncDatabase(s)
  <2>1. ~files.journal /\ Main(files) = At(1) /\ files' = files
    BY <1>4, <1>10 DEF SyncDatabase, ServerData
  <2>2. Accepted(Current(files)) BY <1>4, <2>1, AcceptedWhen, Contents
  <2>3. FilesIInv' BY <1>4, <2>1 DEF FilesIInv
  <2>4. pc'[s] = "connect" => ServerData(s)'
    BY <1>3, <1>5, <2>1, <2>2 DEF ServerData, Initialising
  <2> QED BY <1>2, <1>5, <1>6, <1>10, <2>3, <2>4, DataOfServer DEF SyncDatabase
<1>11. CASE InitialisationFails(s)
  <2>1. files.inode # 0 /\ files.wal.commit = 0 /\ (pc[s] = "schema" => files.journal)
    BY <1>4, <1>11 DEF InitialisationFails, ServerData, Initialising
  <2>2. files' = files \/ files' = RolledBack(files) BY <1>11 DEF InitialisationFails
  <2>3. FilesIInv' /\ files'.wal.commit = 0
    <3>1. CASE files' = files BY <1>4, <2>1, <3>1 DEF FilesIInv
    <3>2. CASE files' = RolledBack(files)
      <4>1. /\ files' \in Files /\ Main(files') = Blank /\ files'.inode = files.inode
            /\ files'.wal = files.wal
        BY <1>4, <2>1, <3>2, RolledBackIs
      <4> QED BY <2>1, <4>1, Contents DEF FilesIInv
    <3> QED BY <2>2, <3>1, <3>2
  <2>4. pc'[s] = "remove" => ServerData(s)' BY <1>3, <1>5, <2>3 DEF ServerData
  <2> QED BY <1>2, <1>5, <1>6, <1>11, <2>3, <2>4, DataOfServer DEF InitialisationFails
<1>12. CASE RemoveGeneration(s)
  <2>1. files.wal.commit = 0 BY <1>4, <1>12 DEF RemoveGeneration, ServerData, Initialising
  <2>2. CASE files' = [files EXCEPT !.inode = 0] /\ GoTo(s, "removeSidecars")
    <3>1. files' \in Files /\ files'.inode = 0 /\ files'.wal = files.wal
      <4>1. 0 \in 0..MaxInodes BY FilesAssumption
      <4> QED BY <1>4, <2>2, <4>1 DEF Files
    <3>2. FilesIInv' BY <2>1, <3>1, Contents DEF FilesIInv, Main
    <3>3. pc'[s] = "removeSidecars" => ServerData(s)' BY <1>3, <1>5, <2>1, <3>1 DEF ServerData
    <3> QED BY <1>2, <1>5, <1>6, <2>2, <3>2, <3>3, DataOfServer
  <2>3. CASE pc[s] = "removeSidecars" /\ files' = [files EXCEPT !.wal = NoWal, !.journal = FALSE]
             /\ GoTo(s, "dropPid")
    <3> DEFINE a == [files EXCEPT !.wal = NoWal]
    <3>1. a \in Files /\ a.inode = files.inode /\ a.wal = NoWal
      BY <1>4, Walls DEF Files
    <3>2. files' = [a EXCEPT !.journal = FALSE] BY <2>3, Zenon
    <3> HIDE DEF a
    <3>3. files' \in Files /\ files'.inode = files.inode /\ files'.wal = NoWal
      BY <3>1, <3>2 DEF Files
    <3>4. files.inode = 0 BY <1>4, <2>3 DEF ServerData
    <3>5. FilesIInv' BY <3>3, <3>4, Contents, Walls DEF FilesIInv, Main
    <3>6. pc'[s] = "dropPid" => ServerData(s)' BY <1>3, <1>5 DEF ServerData, Initialising
    <3> QED BY <1>2, <1>5, <1>6, <2>3, <3>5, <3>6, DataOfServer
  <2> QED BY <1>12, <2>2, <2>3 DEF RemoveGeneration
<1> QED BY <1>7, <1>8, <1>9, <1>10, <1>11, <1>12

\* A copy that was read to its end and is accepted speaks for the database.
LEMMA EvidenceAccepted ==
    ASSUME FilesIInv, NEW k \in Snapshot, Evidence(k), k.pass = 7, Accepted(Copied(k))
    PROVE  Accepted(Current(files))
<1>1. ~k.journal BY Contents DEF Copied, Opened
<1>2. ~files.journal BY <1>1 DEF Evidence
<1>3. CASE k.wal.commit # 0 BY <1>3 DEF Evidence
<1>4. CASE k.wal.commit = 0
  <2>1. Accepted(k.pages) BY <1>1, <1>4 DEF Copied, Opened
  <2>2. Checked(k) = Pages BY DEF Checked
  <2>3. Accepted(Main(files)) BY <1>1, <2>1, <2>2 DEF Evidence, Accepted
  <2> QED BY <1>2, <2>3, AcceptedWhen DEF FilesIInv
<1> QED BY <1>3, <1>4

\* One more read of a server's copy.
LEMMA EvidenceGrows ==
    ASSUME FilesIInv, NEW k \in Snapshot, Evidence(k), k.pass < 7, ~Differs(files, k),
           k.pass = 1 /\ k.next = 1 => files.inode # 0,
           k.pass > 1 \/ k.next > 1 => k.inode # 0
    PROVE  LET a == Advanced(Read(files, k)) IN
           /\ a \in Snapshot /\ a.inode # 0
           /\ Evidence(a)
<1> DEFINE r == Read(files, k)
           a == Advanced(r)
<1>1. files \in Files /\ k.pass \in 1..6 /\ k.next \in 1..NumPages BY DEF FilesIInv, Snapshot, Pages
<1>2. /\ r \in Snapshot /\ r.pass = k.pass /\ r.next = k.next
      /\ k.pass = 1 => r.inode # 0 /\ r.wal = k.wal /\ r.journal = k.journal
      /\ k.pass = 2 => r.inode = k.inode /\ r.wal = files.wal /\ r.journal = k.journal
      /\ k.pass = 3 => r.inode = k.inode /\ r.wal = k.wal /\ r.journal = files.journal
      /\ k.pass > 3 => r = k
  BY <1>1, ReadIs
<1> HIDE DEF r
<1>3. /\ a \in Snapshot
      /\ a.inode = r.inode /\ a.pages = r.pages /\ a.wal = r.wal /\ a.journal = r.journal
      /\ \/ /\ k.pass \in {1, 4} /\ k.next # NumPages
            /\ a.pass = k.pass /\ a.next = k.next + 1
         \/ /\ k.pass \in {1, 4} => k.next = NumPages
            /\ a.pass = k.pass + 1 /\ a.next = 1
  BY <1>2, AdvancedIs
<1> HIDE DEF a
<1>4. a.inode # 0 BY <1>1, <1>2, <1>3
<1>5. a.wal.commit # 0 => a.pass > 2 /\ Accepted(Current(files))
  <2>1. CASE k.pass = 1 BY <1>2, <1>3, <2>1 DEF Evidence
  <2>2. CASE k.pass = 2
    <3>1. files.wal.commit # 0 => Accepted(Current(files)) BY AcceptedWhen DEF FilesIInv
    <3> QED BY <1>2, <1>3, <2>2, <3>1
  <2>3. CASE k.pass > 2 BY <1>1, <1>2, <1>3, <2>3 DEF Evidence
  <2> QED BY <1>1, <2>1, <2>2, <2>3
<1>6. a.pass > 3 /\ ~a.journal => ~files.journal
  <2>1. CASE k.pass < 3 BY <1>1, <1>3, <2>1
  <2>2. CASE k.pass = 3 BY <1>2, <1>3, <2>2
  <2>3. CASE k.pass > 3 BY <1>1, <1>2, <1>3, <2>3 DEF Evidence
  <2> QED BY <1>1, <2>1, <2>2, <2>3
<1>7. k.pass = 4 => k.inode = files.inode /\ Main(files)[k.next] = k.pages[k.next]
  <2> SUFFICES ASSUME k.pass = 4 PROVE k.inode = files.inode /\ Main(files)[k.next] = k.pages[k.next]
    OBVIOUS
  <2>1. /\ ~(k.next = 1 /\ files.inode # k.inode)
        /\ files.pages[k.inode][k.next] = k.pages[k.next]
    BY DEF Differs, Opens, MainPasses
  <2>2. k.inode = files.inode BY <1>1, <2>1 DEF Evidence
  <2>3. k.inode # 0 OBVIOUS
  <2> QED BY <2>1, <2>2, <2>3 DEF Main
<1>8. a.pass = 4 /\ a.next > 1 => a.inode = files.inode
  BY <1>1, <1>2, <1>3, <1>7
<1>9. ASSUME ~a.journal, NEW q \in Checked(a), a.pages[q] # 0 PROVE Main(files)[q] # 0
  <2>1. k.pass > 3
    <3>1. CASE k.pass < 3
      <4>1. a.pass < 4 BY <1>1, <1>3, <3>1
      <4> QED BY <1>9, <4>1 DEF Checked
    <3>2. CASE k.pass = 3
      <4>1. a.pass = 4 /\ a.next = 1 BY <1>3, <3>2
      <4>2. q \in Pages /\ q < 1 BY <1>9, <4>1 DEF Checked
      <4> QED BY <4>2 DEF Pages
    <3> QED BY <1>1, <3>1, <3>2
  <2>2. r = k /\ a.pages = k.pages /\ ~k.journal BY <1>2, <1>3, <1>9, <2>1
  <2>3. q \in Checked(k) \/ (k.pass = 4 /\ q = k.next)
    <3>1. CASE k.pass = 4 /\ k.next # NumPages
      <4>1. a.pass = 4 /\ a.next = k.next + 1 BY <1>3, <3>1
      <4>2. q \in Pages /\ q < k.next + 1 BY <1>9, <4>1 DEF Checked
      <4> QED BY <1>1, <3>1, <4>2 DEF Checked, Pages
    <3>2. CASE k.pass = 4 /\ k.next = NumPages
      <4>1. a.pass = 5 BY <1>3, <3>2
      <4>2. q \in Pages BY <1>9, <4>1 DEF Checked
      <4> QED BY <1>1, <3>2, <4>2 DEF Checked, Pages
    <3>3. CASE k.pass > 4
      <4>1. q \in Pages BY <1>9 DEF Checked
      <4>2. Checked(k) = Pages BY <1>1, <3>3 DEF Checked
      <4> QED BY <4>1, <4>2
    <3> QED BY <1>1, <2>1, <3>1, <3>2, <3>3
  <2>4. CASE q \in Checked(k) BY <1>9, <2>2, <2>4 DEF Evidence
  <2>5. CASE k.pass = 4 /\ q = k.next BY <1>7, <1>9, <2>2, <2>5
  <2> QED BY <2>3, <2>4, <2>5
<1>10. Evidence(a) BY <1>5, <1>6, <1>8, <1>9 DEF Evidence
<1> QED BY <1>3, <1>4, <1>10 DEF a, r

\* A process starts a copy, or starts one over.
LEMMA CopyStarts ==
    ASSUME LockIInv, DataIInv, NEW p \in Servers \cup Doctors,
           GoTo(p, "snapshot") \/ (pc[p] = "snapshot" /\ pc' = pc),
           snap' = [snap EXCEPT ![p] = NoSnapshot],
           FilesIInv', \A s \in Servers \ {p} : pc[s] \in InService => Kept,
           DOMAIN opened' = DOMAIN opened,
           \A q \in (Servers \cup Doctors) \ {p} : opened'[q] = opened[q],
           p \in Servers /\ opened'[p] # 0 => opened'[p] = files'.inode
    PROVE  DataIInv'
<1>1. p \in Processes /\ "snapshot" \in Locations BY DEF Processes, Locations, InService
<1>2. pc' = [pc EXCEPT ![p] = "snapshot"] BY DEF GoTo, LockIInv, LockTypes
<1>3. /\ CopiesIInv /\ NoSnapshot \in Snapshot /\ snap'[p] = NoSnapshot
      /\ ~(snap'[p].pass > 1) /\ ~(snap'[p].next > 1) /\ snap'[p].pass < 7
  BY NoSnapshotIs DEF DataIInv, CopiesIInv
<1>4. /\ CopiesIInv' /\ pc'[p] = "snapshot" /\ \A q \in Processes \ {p} : pc'[q] = pc[q]
      /\ \A q \in (Servers \cup Doctors) \ {p} : snap'[q] = snap[q]
  BY <1>1, <1>2, <1>3, CopiesOfOne DEF GoTo
<1>5. p \in Servers => ServerData(p)'
  <2>1. Checked(NoSnapshot) = {} BY NoSnapshotIs DEF Checked
  <2>2. Evidence(NoSnapshot)' BY <2>1, NoSnapshotIs DEF Evidence
  <2> QED BY <1>3, <1>4, <2>2 DEF ServerData, Initialising
<1>6. \A q \in Servers \ {p} : q \in Processes \ {p} BY DEF Processes
<1> QED BY <1>1, <1>4, <1>5, <1>6, DataOfOne

\* Places of a process about which nothing is owed.
LEMMA FreePlaces ==
    {"down", "instance", "maintenance", "unchanged", "runtime", "truncate", "writePid",
     "prepare", "create", "closing", "dropPid", "unlock", "unlockRest", "shared", "reads",
     "write", "rollback", "exclusive", "restore", "release"} \subseteq Unburdened
  BY DEF Unburdened, Locations, InService, Initialising

LEMMA ReadSourceData ==
    ASSUME LockIInv, DataIInv, NEW p \in Servers \cup Doctors, ReadSource(p)
    PROVE  DataIInv'
<1>1. p \in Processes /\ pc[p] = "snapshot" BY DEF ReadSource, Processes
<1>2. /\ files' = files /\ opened' = opened /\ FilesIInv /\ FilesIInv'
  BY DEF ReadSource, private, DataIInv, FilesIInv
<1>3. /\ snap[p] \in Snapshot /\ snap[p].pass < 7 /\ CopiesIInv
      /\ snap[p].pass > 1 \/ snap[p].next > 1 => snap[p].inode # 0
  BY <1>1 DEF DataIInv, CopiesIInv
<1>4. AfterFailure(p) \in {"release", "closing", "dropPid"} BY DEF AfterFailure
<1>5. p \in Servers => (opened[p] # 0 => opened[p] = files.inode)
  BY DEF DataIInv, ServerData
<1> DEFINE k == snap[p]
           a == Advanced(Read(files, k))
<1>6. CASE /\ ~(k.pass = 1 /\ Opens(k) /\ files.inode = 0) /\ ~Differs(files, k)
           /\ snap' = [snap EXCEPT ![p] = a]
           /\ IF snap'[p].pass = 7 THEN GoTo(p, "validate") ELSE UNCHANGED pc
  <2>1. k.pass = 1 /\ k.next = 1 => files.inode # 0 BY <1>6 DEF Opens, MainPasses
  <2>2. k.pass \in 1..6 /\ k.next \in 1..NumPages /\ files \in Files
    BY <1>2, <1>3 DEF Snapshot, Pages, FilesIInv
  <2>3. a \in Snapshot /\ a.inode # 0 /\ (p \in Servers => Evidence(a))
    <3>1. CASE p \in Servers
      <4>1. Evidence(k) BY <1>1, <3>1 DEF DataIInv, ServerData
      <4> QED BY <1>2, <1>3, <1>6, <2>1, <4>1, EvidenceGrows
    <3>2. CASE p \notin Servers
      <4> DEFINE r == Read(files, k)
      <4>1. /\ r \in Snapshot /\ r.pass = k.pass
            /\ k.pass = 1 => r.inode # 0
            /\ k.pass = 2 => r.inode = k.inode
            /\ k.pass = 3 => r.inode = k.inode
            /\ k.pass > 3 => r = k
        BY <1>3, <2>1, <2>2, ReadIs
      <4> HIDE DEF r
      <4>2. Advanced(r) \in Snapshot /\ Advanced(r).inode = r.inode
        BY <2>2, <4>1, AdvancedIs
      <4>3. r.inode # 0 BY <1>3, <2>2, <4>1
      <4> QED BY <3>2, <4>2, <4>3 DEF r
    <3> QED BY <3>1, <3>2
  <2> HIDE DEF a
  <2>4. snap'[p] = a BY <1>6 DEF CopiesIInv, DataIInv
  <2>5. a.pass \in 1..7 BY <2>3 DEF Snapshot
  <2>6. PICK l \in {"snapshot", "validate"} :
          /\ pc' = [pc EXCEPT ![p] = l]
          /\ l = "validate" => a.pass = 7
          /\ l = "snapshot" => a.pass < 7
    <3>1. CASE a.pass = 7 BY <1>6, <2>4, <3>1 DEF GoTo
    <3>2. CASE a.pass # 7
      <4>1. pc' = [pc EXCEPT ![p] = "snapshot"]
        BY <1>1, <1>6, <2>4, <3>2 DEF LockIInv, LockTypes
      <4> QED BY <2>5, <3>2, <4>1
    <3> QED BY <3>1, <3>2
  <2>7. l \in Locations BY DEF Locations, InService
  <2>8. /\ CopiesIInv' /\ pc'[p] = l /\ \A q \in Processes \ {p} : pc'[q] = pc[q]
        /\ \A q \in (Servers \cup Doctors) \ {p} : snap'[q] = snap[q]
    BY <1>1, <1>3, <1>6, <2>3, <2>4, <2>6, <2>7, CopiesOfOne DEF GoTo
  <2>9. p \in Servers => ServerData(p)'
    <3> SUFFICES ASSUME p \in Servers PROVE ServerData(p)'
      OBVIOUS
    <3>1. Evidence(snap[p])' BY <1>2, <2>3, <2>4 DEF Evidence, Checked
    <3>2. l \in {"snapshot", "validate"} /\ (l = "validate" => a.pass = 7) BY <2>6
    <3> QED BY <1>2, <1>5, <2>4, <2>8, <3>1, <3>2 DEF ServerData, Initialising
  <2>10. \A q \in Servers \ {p} : q \in Processes \ {p} BY DEF Processes
  <2> QED BY <1>1, <1>2, <2>8, <2>9, <2>10, DataOfOne, Unchanged
<1>7. CASE DropSnapshot(p) /\ pc' = pc
  <2>1. Kept /\ snap' = [snap EXCEPT ![p] = NoSnapshot]
    BY <1>2, <1>7, Unchanged DEF DropSnapshot
  <2>2. DOMAIN opened' = DOMAIN opened /\ (p \in Servers /\ opened'[p] # 0 => opened'[p] = files'.inode)
    BY <1>2, <1>5
  <2> HIDE DEF k, a
  <2> QED BY <1>1, <1>2, <1>7, <2>1, <2>2, CopyStarts
<1>8. CASE DropSnapshot(p) /\ GoTo(p, AfterFailure(p))
  <2>1. AfterFailure(p) \in Unburdened BY <1>4, FreePlaces
  <2> HIDE DEF k, a
  <2> QED BY <1>2, <1>8, <2>1, DropsCopy
<1> QED BY <1>6, <1>7, <1>8 DEF ReadSource

LEMMA ValidateData ==
    ASSUME LockIInv, DataIInv, NEW p \in Servers \cup Doctors, Validate(p)
    PROVE  DataIInv'
<1>1. pc[p] = "validate" /\ DropSnapshot(p) BY DEF Validate
<1>2. files' = files /\ opened' = opened /\ FilesIInv /\ FilesIInv'
  BY DEF Validate, private, DataIInv, FilesIInv
<1>3. AfterFailure(p) \in {"release", "closing", "dropPid"} BY DEF AfterFailure
<1>4. CASE GoTo(p, AfterFailure(p)) \/ GoTo(p, "reads")
  BY <1>1, <1>2, <1>3, <1>4, DropsCopy, FreePlaces
<1>5. ASSUME p \in Servers, Accepted(Copied(snap[p])), NEW l \in {"connect", "validateOpen"},
             GoTo(p, l), l = "validateOpen" => opened[p] # 0
      PROVE  DataIInv'
  <2>1. Accepted(Current(files))
    BY <1>1, <1>2, <1>5, EvidenceAccepted DEF DataIInv, CopiesIInv, ServerData
  <2>2. p \in Processes /\ l \in Locations BY <1>5 DEF Processes, Locations, InService
  <2>3. /\ CopiesIInv /\ NoSnapshot \in Snapshot /\ snap' = [snap EXCEPT ![p] = NoSnapshot]
        /\ ~(snap'[p].pass > 1) /\ ~(snap'[p].next > 1)
    BY <1>1, NoSnapshotIs DEF DataIInv, CopiesIInv, DropSnapshot
  <2>4. /\ CopiesIInv' /\ pc'[p] = l /\ \A q \in Processes \ {p} : pc'[q] = pc[q]
        /\ \A q \in (Servers \cup Doctors) \ {p} : snap'[q] = snap[q]
    BY <1>5, <2>2, <2>3, CopiesOfOne
  <2>5. ServerData(p)'
    <3>1. opened[p] # 0 => opened[p] = files.inode BY <1>5 DEF DataIInv, ServerData
    <3> QED BY <1>2, <1>5, <2>1, <2>4, <3>1 DEF ServerData, Initialising
  <2>6. \A q \in Servers \ {p} : q \in Processes \ {p} BY DEF Processes
  <2> QED BY <1>2, <2>2, <2>4, <2>5, <2>6, DataOfOne, Unchanged
<1>6. p \notin Doctors => p \in Servers OBVIOUS
<1> QED BY <1>4, <1>5, <1>6 DEF Validate

LEMMA PrepareData ==
    ASSUME LockIInv, DataIInv, NEW s \in Servers, Prepare(s)
    PROVE  DataIInv'
<1>1. files' = files /\ opened' = opened /\ s \in Processes
  BY DEF Prepare, private, Processes
<1>2. CASE GoTo(s, "create") /\ snap' = snap BY <1>1, <1>2, MovesFree, FreePlaces
<1>3. CASE StartSnapshot(s)
  <2>1. GoTo(s, "snapshot") /\ snap' = [snap EXCEPT ![s] = NoSnapshot] BY <1>3 DEF StartSnapshot
  <2>2. FilesIInv' /\ Kept BY <1>1, Unchanged DEF DataIInv, FilesIInv
  <2>3. opened[s] # 0 => opened[s] = files.inode BY DEF DataIInv, ServerData
  <2> QED BY <1>1, <2>1, <2>2, <2>3, CopyStarts
<1> QED BY <1>2, <1>3 DEF Prepare

LEMMA ConnectData ==
    ASSUME LockIInv, DataIInv, NEW s \in Servers, Connect(s)
    PROVE  DataIInv'
<1>1. pc[s] = "connect" /\ pc[s] \in InService BY DEF Connect, InService
<1>2. /\ s \in Processes /\ \A t \in Servers \ {s} : pc[t] \notin InService
      /\ DOMAIN opened = Servers \cup Doctors
  BY <1>1, Alone DEF LockIInv, LockTypes
<1>3. CASE opened' = [opened EXCEPT ![s] = files.inode] /\ files' = [files EXCEPT !.wal.tail = 0]
           /\ StartSnapshot(s)
  <2> DEFINE w == [files.wal EXCEPT !.tail = 0]
  <2>1. files \in Files /\ files.wal \in Wal BY DEF DataIInv, FilesIInv, Files
  <2>2. w \in Wal /\ w.commit = files.wal.commit BY <2>1, FilesAssumption DEF Wal
  <2>3. files' = [files EXCEPT !.wal = w] BY <1>3
  <2> HIDE DEF w
  <2>4. /\ files' \in Files /\ files'.inode = files.inode /\ files'.wal = w
        /\ files'.journal = files.journal /\ files'.pages = files.pages
    BY <2>1, <2>2, <2>3 DEF Files
  <2>5. Main(files') = Main(files) BY <2>4 DEF Main
  <2>6. FilesIInv' BY <2>2, <2>4, <2>5 DEF DataIInv, FilesIInv
  <2>7. GoTo(s, "snapshot") /\ snap' = [snap EXCEPT ![s] = NoSnapshot] BY <1>3 DEF StartSnapshot
  <2>8. /\ DOMAIN opened' = DOMAIN opened /\ opened'[s] = files'.inode
        /\ \A q \in (Servers \cup Doctors) \ {s} : opened'[q] = opened[q]
    BY <1>2, <1>3, <2>4
  <2> QED BY <1>2, <2>6, <2>7, <2>8, CopyStarts
<1>4. CASE GoTo(s, "dropPid") /\ UNCHANGED <<files, opened, snap>>
  BY <1>2, <1>4, MovesFree, FreePlaces
<1> QED BY <1>3, <1>4 DEF Connect

\* A server begins to serve what it has validated.
LEMMA ValidateOpenData ==
    ASSUME LockIInv, DataIInv, NEW s \in Servers, ValidateOpen(s)
    PROVE  DataIInv'
<1>1. pc[s] = "validateOpen" /\ pc[s] \in InService BY DEF ValidateOpen, InService
<1>2. UNCHANGED <<files, opened, snap>> /\ s \in Processes
  BY DEF ValidateOpen, private, Processes
<1>3. CASE GoTo(s, "serving")
  <2>1. FilesIInv' BY <1>2 DEF DataIInv, FilesIInv
  <2>2. ServerData(s) BY DEF DataIInv
  <2>3. pc'[s] = "serving" => ServerData(s)'
    BY <1>1, <1>2, <2>2 DEF ServerData, Initialising
  <2>4. "serving" \in Locations BY DEF Locations, InService
  <2> QED BY <1>1, <1>2, <1>3, <2>1, <2>3, <2>4, DataOfServer
<1>4. CASE GoTo(s, "closing") BY <1>2, <1>4, MovesFree, FreePlaces
<1> QED BY <1>3, <1>4 DEF ValidateOpen

\* A transaction that commits is one everywhere, and later than what it replaces.
LEMMA WriteFrameData ==
    ASSUME LockIInv, DataIInv, NEW s \in Servers, WriteFrame(s)
    PROVE  /\ DataIInv'
           /\ files'.inode = files.inode
           /\ \A q \in Pages : Current(files')[q] >= Current(files)[q]
<1>1. pc[s] = "serving" /\ pc[s] \in InService BY DEF WriteFrame, InService
<1>2. UNCHANGED <<pc, opened, snap>> BY DEF WriteFrame, private
<1>3. /\ files \in Files /\ FilesIInv /\ ServerData(s)
      /\ files.wal \in Wal /\ files.wal.tail \in 0..NumPages - 1 /\ files.wal.commit \in Versions
  BY DEF DataIInv, FilesIInv, Files, Wal
<1>4. Accepted(Current(files)) BY <1>1, <1>3 DEF ServerData
<1>5. ~files.journal BY <1>3, <1>4, AcceptedWhen
<1> DEFINE v == Current(files)[1] + 1
<1>6. v \in Versions /\ v # 0 /\ 1 \in Pages
  <2>1. 1 \in Pages BY FilesAssumption DEF Pages
  <2>2. Current(files)[1] \in Versions BY <1>3, <2>1, CurrentType DEF Content
  <2>3. Current(files)[1] < MaxVersion BY DEF WriteFrame
  <2> QED BY <2>1, <2>2, <2>3, FilesAssumption DEF Versions
<1>7. PICK w \in Wal :
        /\ files' = [files EXCEPT !.wal = w]
        /\ w.commit = files.wal.commit \/ w.commit = v
  <2>1. CASE files' = [files EXCEPT !.wal = [commit |-> v, tail |-> 0]]
    <3> DEFINE w == [commit |-> v, tail |-> 0]
    <3>1. w \in Wal /\ w.commit = v BY <1>6, FilesAssumption DEF Wal
    <3> QED BY <2>1, <3>1
  <2>2. CASE files.wal.tail < NumPages - 1
             /\ files' = [files EXCEPT !.wal.tail = files.wal.tail + 1]
    <3> DEFINE w == [files.wal EXCEPT !.tail = files.wal.tail + 1]
    <3>1. files.wal.tail + 1 \in 0..NumPages - 1 BY <1>3, <2>2, FilesAssumption
    <3>2. w \in Wal /\ w.commit = files.wal.commit BY <1>3, <3>1 DEF Wal
    <3>3. files' = [files EXCEPT !.wal = w] BY <1>3, <2>2 DEF Files
    <3> QED BY <3>2, <3>3
  <2> QED BY <2>1, <2>2 DEF WriteFrame
<1> HIDE DEF v
<1>8. /\ files' \in Files /\ files'.inode = files.inode /\ files'.wal = w
      /\ files'.journal = files.journal /\ files'.pages = files.pages
  BY <1>3, <1>7 DEF Files
<1>9. Main(files') = Main(files) BY <1>8 DEF Main
<1>10. Accepted(Current(files'))
  <2>1. files.wal.commit # 0 \/ Accepted(Main(files)) BY <1>3, <1>4, AcceptedWhen
  <2> QED BY <1>5, <1>6, <1>7, <1>8, <1>9, <2>1, AcceptedWhen
<1>11. FilesIInv'
  <2>1. files.inode # 0
    <3>1. Accepted(Main(files)) => files.inode # 0 BY Contents DEF Main
    <3> QED BY <1>3, <1>4, <3>1, AcceptedWhen DEF FilesIInv
  <2> QED BY <1>3, <1>5, <1>6, <1>7, <1>8, <1>9, <2>1 DEF FilesIInv
<1>12. pc'[s] = "serving" => ServerData(s)'
  BY <1>1, <1>2, <1>3, <1>8, <1>10 DEF ServerData, Initialising
<1>13. DataIInv'
  <2>1. "serving" \in Locations /\ pc' = pc BY <1>2 DEF Locations, InService
  <2> QED BY <1>1, <1>2, <1>11, <1>12, <2>1, DataOfServer
<1>14. \A q \in Pages : Current(files')[q] >= Current(files)[q]
  <2>1. CASE w.commit = files.wal.commit
    <3>1. Current(files') = Current(files) BY <1>8, <1>9, <2>1 DEF Current, Opened
    <3>2. Current(files) \in Content BY <1>3, CurrentType
    <3> QED BY <3>1, <3>2 DEF Content, Versions
  <2>2. CASE w.commit = v
    <3>1. Current(files') = At(v) BY <1>5, <1>6, <1>8, <2>2 DEF Current, Opened
    <3>2. Whole(Current(files))
      BY <1>3, <1>5, Contents DEF FilesIInv, Current, Opened
    <3>3. PICK u \in Versions : Current(files) = At(u) BY <3>2 DEF Whole
    <3>4. v = u + 1 BY <1>6, <3>3 DEF At, v
    <3> QED BY <3>1, <3>3, <3>4 DEF At, Versions
  <2> QED BY <1>7, <2>1, <2>2
<1> QED BY <1>8, <1>13, <1>14

\* The log is copied into the main file: nothing that is read changes.
LEMMA CheckpointData ==
    ASSUME LockIInv, DataIInv, NEW p \in Servers \cup Doctors, Checkpoint(p)
    PROVE  DataIInv' /\ Kept
<1>1. /\ files \in Files /\ FilesIInv /\ files.inode # 0 /\ files.wal.commit # 0
      /\ files.wal.commit \in Versions
  BY DEF Checkpoint, DataIInv, FilesIInv, Files, Wal
<1>2. ~files.journal BY <1>1 DEF FilesIInv
<1>3. Current(files) = At(files.wal.commit) BY <1>1, <1>2 DEF Current, Opened
<1>4. \A s \in Servers : pc[s] # "schema" BY <1>1 DEF DataIInv, ServerData, Initialising
<1>5. CASE files' = FirstPageWritten(files, files.wal.commit)
  <2>1. /\ files' \in Files /\ files'.inode = files.inode /\ files'.wal = files.wal
        /\ files'.journal = files.journal
        /\ \A q \in Pages : Main(files)[q] # 0 => Main(files')[q] # 0
    BY <1>1, <1>5, FirstPageIs
  <2>2. Current(files') = Current(files) BY <1>1, <1>2, <1>3, <2>1 DEF Current, Opened
  <2>3. Kept BY <1>1, <1>2, <1>4, <2>1, <2>2 DEF Kept
  <2>4. FilesIInv' BY <1>1, <1>2, <2>1 DEF FilesIInv
  <2>5. UNCHANGED <<pc, opened, snap>> BY DEF Checkpoint, private
  <2> QED BY <2>3, <2>4, <2>5, FilesKeep
<1>6. CASE Main(files) = At(files.wal.commit) /\ files' = [files EXCEPT !.wal = NoWal]
  <2>1. /\ files' \in Files /\ files'.inode = files.inode /\ files'.wal = NoWal
        /\ files'.journal = files.journal /\ files'.pages = files.pages
    BY <1>1, <1>6, Walls DEF Files
  <2>2. Main(files') = Main(files) BY <2>1 DEF Main
  <2>3. Current(files') = Current(files)
    BY <1>2, <1>3, <1>6, <2>1, <2>2, Walls DEF Current, Opened
  <2>4. Kept BY <1>1, <1>2, <1>4, <2>1, <2>2, <2>3, Walls DEF Kept
  <2>5. FilesIInv' BY <1>1, <1>6, <2>1, <2>2, Contents, Walls DEF FilesIInv
  <2>6. UNCHANGED <<pc, opened, snap>> BY DEF Checkpoint, private
  <2> QED BY <2>4, <2>5, <2>6, FilesKeep
<1> QED BY <1>5, <1>6 DEF Checkpoint

\* A doctor that opens the database rolls back a journal nobody is writing.
LEMMA ProbeWriteData ==
    ASSUME LockIInv, DataIInv, NEW d \in Doctors, ProbeWrite(d)
    PROVE  DataIInv' /\ Kept
<1>1. files \in Files /\ FilesIInv BY DEF DataIInv, FilesIInv
<1>2. FilesIInv' /\ Kept
  <2>1. CASE files' = files BY <1>1, <2>1, Unchanged DEF FilesIInv
  <2>2. CASE /\ files.journal /\ files.inode # 0 /\ files' = RolledBack(files)
             /\ \A s \in Servers : pc[s] # "schema"
    <3>1. /\ files' \in Files /\ Main(files') = Blank /\ files'.inode = files.inode
          /\ files'.wal = files.wal
      BY <1>1, <2>2, RolledBackIs
    <3>2. files.wal.commit = 0 BY <1>1, <2>2 DEF FilesIInv
    <3> QED BY <2>2, <3>1, <3>2, Contents DEF FilesIInv, Kept
  <2> QED BY <2>1, <2>2 DEF ProbeWrite
<1>3. d \in Processes /\ d \notin Servers BY StartupAssumption DEF Processes
<1>4. PICK l \in {"rollback", "release"} : GoTo(d, l) BY DEF ProbeWrite
<1>5. snap' = snap /\ l \in Locations BY DEF ProbeWrite, Locations
<1>6. /\ CopiesIInv' /\ \A q \in Processes \ {d} : pc'[q] = pc[q]
  BY <1>3, <1>4, <1>5, CopiesOfOne, NoSnapshotIs DEF DataIInv, CopiesIInv
<1>7. \A q \in Servers : opened'[q] = opened[q]
  BY <1>3 DEF ProbeWrite, LockIInv, LockTypes
<1>8. \A q \in Servers \ {d} : q \in Processes \ {d} BY DEF Processes
<1> QED BY <1>2, <1>3, <1>5, <1>6, <1>7, <1>8, DataOfOne

\* Maintenance replaces a database that no server has.
LEMMA RestoreData ==
    ASSUME LockIInv, DataIInv, NEW k \in Keepers, Restore(k)
    PROVE  DataIInv'
<1>1. k \in Processes /\ k \notin Servers \cup Doctors BY StartupAssumption DEF Processes
<1>2. \A s \in Servers : pc[s] \notin InService
  <2>1. shared = {} BY DEF Restore, LockIInv, KeeperLocks
  <2> QED BY <2>1 DEF LockIInv, ServerLocks, Sharing
<1>3. files \in Files /\ FilesIInv BY DEF DataIInv, FilesIInv
<1>4. FilesIInv'
  <2>1. CASE files' = files BY <1>3, <2>1 DEF FilesIInv
  <2>2. ASSUME files.born < MaxInodes, NEW v \in {0, 1},
               files' = [NewFile(files, At(v)) EXCEPT !.wal = NoWal, !.journal = FALSE]
        PROVE  FilesIInv'
    <3> DEFINE f == NewFile(files, At(v))
               a == [f EXCEPT !.wal = NoWal]
    <3>1. f \in Files /\ Main(f) = At(v) /\ Whole(At(v))
      BY <1>3, <2>2, NewFileIs, Contents
    <3>2. files' = [a EXCEPT !.journal = FALSE] BY <2>2, Zenon
    <3> HIDE DEF f
    <3>3. a \in Files /\ a.inode = f.inode /\ a.pages = f.pages /\ a.wal = NoWal
      BY <3>1, Walls DEF Files
    <3> HIDE DEF a
    <3>4. /\ files' \in Files /\ files'.inode = f.inode /\ files'.pages = f.pages
          /\ files'.wal = NoWal
      BY <3>2, <3>3 DEF Files
    <3>5. Main(files') = Main(f) BY <3>4 DEF Main
    <3> QED BY <3>1, <3>4, <3>5, Walls DEF FilesIInv
  <2> QED BY <2>1, <2>2 DEF Restore
<1>5. GoTo(k, "release") /\ UNCHANGED <<opened, snap>> /\ "release" \in Locations
  BY DEF Restore, private, Locations
<1>6. CopiesIInv' /\ \A q \in Processes \ {k} : pc'[q] = pc[q]
  BY <1>1, <1>5, CopiesOfOne, NoSnapshotIs DEF DataIInv, CopiesIInv
<1>7. \A q \in Servers \ {k} : q \in Processes \ {k} BY DEF Processes
<1> QED BY <1>1, <1>2, <1>4, <1>5, <1>6, <1>7, DataOfOne

LEMMA AcquireData ==
    ASSUME LockIInv, DataIInv, NEW s \in Servers,
           \/ LockInstance(s) \/ LockRuntime(s) \/ TruncatePid(s) \/ WritePid(s)
           \/ Stop(s) \/ ClosePool(s) \/ DropPid(s) \/ Unlock(s)
    PROVE  DataIInv'
<1>1. s \in Processes BY DEF Processes
<1>2. /\ files' = files /\ snap' = snap
      /\ opened' = opened \/ opened' = [opened EXCEPT ![s] = 0]
  BY DEF LockInstance, LockRuntime, TruncatePid, WritePid, Stop, ClosePool, DropPid, Unlock,
         private
<1>3. \E l \in {"maintenance", "down", "truncate", "writePid", "prepare", "closing", "dropPid",
                "unlock", "unlockRest"} : GoTo(s, l)
  BY DEF LockInstance, LockRuntime, TruncatePid, WritePid, Stop, ClosePool, DropPid, Unlock,
         Exit
<1> QED BY <1>1, <1>2, <1>3, MovesFree, FreePlaces

LEMMA LockData ==
    ASSUME LockIInv, DataIInv, NEW p \in Processes,
           \/ ReadTarget(p)
           \/ p \in Servers \cup Doctors /\ LockShared(p)
           \/ p \in Keepers /\ LockExclusive(p)
    PROVE  DataIInv'
<1>1. files' = files /\ snap' = snap /\ opened' = opened
  BY DEF ReadTarget, LockShared, LockExclusive
<1>2. \E l \in {"instance", "shared", "exclusive", "unchanged", "down"} : GoTo(p, l)
  BY DEF ReadTarget, LockShared, LockExclusive, Exit
<1> QED BY <1>1, <1>2, MovesFree, FreePlaces

LEMMA EnsureUnchangedData ==
    ASSUME LockIInv, DataIInv, NEW p \in Processes, EnsureUnchanged(p)
    PROVE  DataIInv'
<1>1. files' = files /\ opened' = opened BY DEF EnsureUnchanged
<1>2. CASE snap' = snap /\ \E l \in {"runtime", "restore", "down"} : GoTo(p, l)
  BY <1>1, <1>2, MovesFree, FreePlaces
<1>3. CASE p \in Doctors /\ StartSnapshot(p)
  <2>1. GoTo(p, "snapshot") /\ snap' = [snap EXCEPT ![p] = NoSnapshot] BY <1>3 DEF StartSnapshot
  <2>2. FilesIInv' /\ Kept BY <1>1, Unchanged DEF DataIInv, FilesIInv
  <2>3. p \notin Servers BY <1>3, StartupAssumption
  <2> QED BY <1>1, <1>3, <2>1, <2>2, <2>3, CopyStarts
<1> QED BY <1>2, <1>3 DEF EnsureUnchanged, Exit

LEMMA DoctorData ==
    ASSUME LockIInv, DataIInv, NEW d \in Doctors, ProbeReads(d) \/ ProbeRollback(d)
    PROVE  DataIInv'
<1>1. files' = files /\ snap' = snap /\ opened' = opened
  BY DEF ProbeReads, ProbeRollback, private
<1>2. \E l \in {"write", "release"} : GoTo(d, l) BY DEF ProbeReads, ProbeRollback
<1> QED BY <1>1, <1>2, MovesFree, FreePlaces DEF Processes

LEMMA EndData ==
    ASSUME LockIInv, DataIInv, NEW p \in Processes,
           (p \in Doctors \cup Keepers /\ Release(p)) \/ Crash(p)
    PROVE  DataIInv'
<1>1. files' = files /\ GoTo(p, "down") BY DEF Release, Crash, Exit
<1>2. p \in Keepers <=> p \notin Servers \cup Doctors BY StartupAssumption DEF Processes
<1>3. CASE snap' = snap /\ (opened' = opened \/ (p \in Doctors /\ opened' = [opened EXCEPT ![p] = 0]))
  BY <1>1, <1>3, MovesFree, FreePlaces
<1>4. CASE p \in Servers \cup Doctors /\ DropSnapshot(p) /\ opened' = [opened EXCEPT ![p] = 0]
  BY <1>1, <1>4, DropsCopy, FreePlaces
<1> QED BY <1>2, <1>3, <1>4 DEF Release, Crash

LEMMA DataStep == LockIInv /\ DataIInv /\ [Next]_vars => DataIInv'
<1> SUFFICES ASSUME LockIInv, DataIInv, [Next]_vars PROVE DataIInv'
  OBVIOUS
<1>1. CASE UNCHANGED vars
  <2>1. FilesIInv' BY <1>1 DEF DataIInv, FilesIInv, vars
  <2> QED BY <1>1, <2>1, FilesKeep, Unchanged DEF vars
<1>2. ASSUME NEW p \in Processes, ReadTarget(p) \/ EnsureUnchanged(p) \/ Crash(p)
      PROVE  DataIInv'
  BY <1>2, LockData, EnsureUnchangedData, EndData
<1>3. ASSUME NEW p \in Servers \cup Doctors,
             LockShared(p) \/ ReadSource(p) \/ Validate(p) \/ Checkpoint(p)
      PROVE  DataIInv'
  BY <1>3, LockData, ReadSourceData, ValidateData, CheckpointData DEF Processes
<1>4. ASSUME NEW p \in Doctors \cup Keepers, Release(p) PROVE DataIInv'
  BY <1>4, EndData DEF Processes
<1>5. ASSUME NEW s \in Servers, ServerStep(s) PROVE DataIInv'
  BY <1>5, AcquireData, PrepareData, InitialiseData, ConnectData, ValidateOpenData,
     WriteFrameData DEF ServerStep
<1>6. ASSUME NEW d \in Doctors, DoctorStep(d) PROVE DataIInv'
  BY <1>6, DoctorData, ProbeWriteData DEF DoctorStep
<1>7. ASSUME NEW k \in Keepers, LockExclusive(k) \/ Restore(k) PROVE DataIInv'
  BY <1>7, LockData, RestoreData DEF Processes
<1> QED BY <1>1, <1>2, <1>3, <1>4, <1>5, <1>6, <1>7 DEF Next

\* What a step does to the database of a server that serves on.
LEMMA ServedStep ==
    ASSUME LockIInv, DataIInv, [Next]_vars, NEW s \in Servers, pc[s] = "serving"
    PROVE  \/ pc'[s] # "serving"
           \/ files' = files
           \/ Kept
           \/ WriteFrame(s)
<1>1. pc[s] \in InService /\ s \in shared
  <2>1. pc[s] \in InService BY DEF InService
  <2> QED BY <2>1 DEF LockIInv, ServerLocks, Sharing
<1>2. \A t \in Servers \ {s} : pc[t] \notin InService BY <1>1, Alone
<1>3. CASE UNCHANGED vars BY <1>3 DEF vars
<1>4. ASSUME NEW p \in Processes, ReadTarget(p) \/ EnsureUnchanged(p) \/ Crash(p)
      PROVE  files' = files
  BY <1>4 DEF ReadTarget, EnsureUnchanged, Crash
<1>5. ASSUME NEW p \in Servers \cup Doctors,
             LockShared(p) \/ ReadSource(p) \/ Validate(p) \/ Checkpoint(p)
      PROVE  files' = files \/ Kept
  BY <1>5, CheckpointData DEF LockShared, ReadSource, Validate
<1>6. ASSUME NEW p \in Doctors \cup Keepers, Release(p) PROVE files' = files
  BY <1>6 DEF Release
<1>7. ASSUME NEW t \in Servers, ServerStep(t) PROVE files' = files \/ WriteFrame(s)
  <2>1. CASE \/ LockInstance(t) \/ LockRuntime(t) \/ TruncatePid(t) \/ WritePid(t)
             \/ Prepare(t) \/ SyncDatabase(t) \/ ValidateOpen(t)
             \/ Stop(t) \/ ClosePool(t) \/ DropPid(t) \/ Unlock(t)
    BY <2>1 DEF LockInstance, LockRuntime, TruncatePid, WritePid, Prepare, SyncDatabase,
                ValidateOpen, Stop, ClosePool, DropPid, Unlock
  <2>2. CASE \/ Create(t) \/ BeginSchema(t) \/ WriteSchema(t) \/ InitialisationFails(t)
             \/ RemoveGeneration(t) \/ Connect(t)
    <3>1. pc[t] \in InService \ {"serving"}
      BY <2>2 DEF Create, BeginSchema, WriteSchema, InitialisationFails, RemoveGeneration,
                  Connect, InService, Initialising
    <3> QED BY <1>2, <3>1
  <2>3. CASE WriteFrame(t)
    <3>1. pc[t] \in InService BY <2>3 DEF WriteFrame, InService
    <3> QED BY <1>2, <2>3, <3>1
  <2> QED BY <1>7, <2>1, <2>2, <2>3 DEF ServerStep
<1>8. ASSUME NEW d \in Doctors, DoctorStep(d) PROVE files' = files \/ Kept
  BY <1>8, ProbeWriteData DEF DoctorStep, ProbeReads, ProbeRollback
<1>9. ASSUME NEW k \in Keepers, LockExclusive(k) \/ Restore(k) PROVE files' = files
  <2>1. ~Restore(k) BY <1>1 DEF Restore, LockIInv, KeeperLocks
  <2> QED BY <1>9, <2>1 DEF LockExclusive
<1> QED BY <1>3, <1>4, <1>5, <1>6, <1>7, <1>8, <1>9 DEF Next

-----------------------------------------------------------------------------
\* However initialisations crash or fail, copies are taken beside commits and
\* checkpoints, doctors probe and maintenance replaces the database: what a server
\* serves is the file the path names and was completely initialised (open_pool,
\* initialize_current_database, snapshot_generation_once, validate_open_database).
THEOREM ServedIsComplete == Spec => []ServedIsNamedAndComplete
<1>1. DataIInv => ServedIsNamedAndComplete
  <2> SUFFICES ASSUME DataIInv, NEW s \in Servers, pc[s] = "serving"
               PROVE  /\ opened[s] = files.inode /\ files.inode # 0
                      /\ Whole(Current(files)) /\ Accepted(Current(files))
    BY DEF ServedIsNamedAndComplete
  <2>1. /\ files \in Files /\ FilesIInv /\ files.wal.commit \in Versions
    BY DEF DataIInv, FilesIInv, Files, Wal
  <2>2. /\ opened[s] = files.inode /\ files.inode # 0 /\ Accepted(Current(files))
    BY DEF DataIInv, ServerData
  <2>3. ~files.journal BY <2>1, <2>2, AcceptedWhen
  <2>4. Whole(Current(files)) BY <2>1, <2>3, Contents DEF FilesIInv, Current, Opened
  <2> QED BY <2>2, <2>4
<1>2. Init => LockIInv /\ DataIInv BY LocksInitially, DataInitially
<1>3. LockIInv /\ DataIInv /\ [Next]_vars => LockIInv' /\ DataIInv' BY LocksStep, DataStep
<1> QED BY <1>1, <1>2, <1>3, PTL DEF Spec

\* Nothing another process does while a server serves takes its database away or a
\* committed transaction back: the probe and the checkpoint of a doctor, a second
\* server's start, its initialisation and the removal of what it created
\* (database_write_probe, open_pool, ApplicationLock::acquire).
THEOREM ServedIsKept == Spec => ServedDataIsKept
<1> DEFINE Step == \A s \in Servers : pc[s] = "serving" /\ pc'[s] = "serving" =>
                     /\ files'.inode = files.inode
                     /\ \A q \in Pages : Current(files')[q] >= Current(files)[q]
<1>1. LockIInv /\ DataIInv /\ [Next]_vars => Step
  <2> SUFFICES ASSUME LockIInv, DataIInv, [Next]_vars, NEW s \in Servers,
                      pc[s] = "serving", pc'[s] = "serving"
               PROVE  /\ files'.inode = files.inode
                      /\ \A q \in Pages : Current(files')[q] >= Current(files)[q]
    OBVIOUS
  <2>1. files \in Files BY DEF DataIInv, FilesIInv
  <2>2. ~files.journal BY <2>1, AcceptedWhen DEF DataIInv, ServerData
  <2>3. \A q \in Pages : Current(files)[q] \in Nat
    BY <2>1, CurrentType DEF Content, Versions
  <2>4. CASE files' = files BY <2>3, <2>4
  <2>5. CASE Kept BY <2>2, <2>3, <2>5 DEF Kept
  <2>6. CASE WriteFrame(s) BY <2>6, WriteFrameData
  <2> QED BY <2>4, <2>5, <2>6, ServedStep
<1>2. Init => LockIInv /\ DataIInv BY LocksInitially, DataInitially
<1>3. LockIInv /\ DataIInv /\ [Next]_vars => LockIInv' /\ DataIInv' BY LocksStep, DataStep
<1>4. Step => [Step]_vars OBVIOUS
<1> QED BY <1>1, <1>2, <1>3, PTL DEF Spec, ServedDataIsKept

-----------------------------------------------------------------------------
(* What a copy shows: the life of a file.                                  *)

LEMMA WrittenElsewhere ==
    ASSUME NEW f \in Files, f.inode # 0, NEW c \in Content
    PROVE  \A i \in 1..MaxInodes : i # f.inode => Written(f, c).pages[i] = f.pages[i]
<1>1. Written(f, c).pages = [f.pages EXCEPT ![f.inode] = c] BY DEF Written, Files
<1> QED BY <1>1 DEF Files

LEMMA FirstPageElsewhere ==
    ASSUME NEW f \in Files, f.inode # 0, NEW v \in Versions
    PROVE  LET g == FirstPageWritten(f, v) IN
           /\ \A i \in 1..MaxInodes : i # f.inode => g.pages[i] = f.pages[i]
           /\ \A q \in Pages : Main(g)[q] \in {v, Main(f)[q]}
<1> DEFINE behind == {p \in Pages : Main(f)[p] # v}
           c == [p \in Pages |-> IF p \in behind /\ \A q \in behind : p <= q
                                 THEN v ELSE Main(f)[p]]
<1>1. c \in Content
  <2>1. \A p \in Pages : Main(f)[p] \in Versions BY MainType DEF Content
  <2> QED BY <2>1 DEF Content
<1>2. FirstPageWritten(f, v) = Written(f, c) BY DEF FirstPageWritten
<1>3. \A q \in Pages : c[q] \in {v, Main(f)[q]} OBVIOUS
<1> HIDE DEF c
<1> QED BY <1>1, <1>2, <1>3, WrittenIs, WrittenElsewhere

LEMMA NewFileElsewhere ==
    ASSUME NEW f \in Files, f.born < MaxInodes, NEW c \in Content
    PROVE  LET g == NewFile(f, c) IN
           /\ g.inode = f.born + 1 /\ g.born = f.born + 1
           /\ \A i \in 1..f.born : g.pages[i] = f.pages[i]
<1> DEFINE g == NewFile(f, c)
           n == f.born + 1
           a == [f EXCEPT !.inode = n]
           b == [a EXCEPT !.born = n]
<1>1. n \in 1..MaxInodes /\ f.born \in Nat BY FilesAssumption DEF Files
<1>2. n \in 0..MaxInodes BY <1>1
<1>3. a \in Files /\ a.inode = n /\ a.born = f.born /\ a.pages = f.pages
  BY <1>2 DEF Files
<1> HIDE DEF a
<1>4. b \in Files /\ b.inode = n /\ b.born = n /\ b.pages = f.pages
  BY <1>2, <1>3 DEF Files
<1>5. g = [b EXCEPT !.pages = [f.pages EXCEPT ![n] = c]] BY Zenon DEF NewFile, a, b
<1> HIDE DEF b
<1>6. g = Written(b, c) BY <1>4, <1>5 DEF Written
<1>7. n # 0 /\ \A i \in 1..f.born : i # n /\ i \in 1..MaxInodes
  BY <1>1, FilesAssumption DEF Files
<1> HIDE DEF n
<1>8. b.inode # 0 BY <1>4, <1>7
<1>9. \A i \in 1..MaxInodes : i # n => g.pages[i] = f.pages[i]
  BY <1>4, <1>6, <1>8, WrittenElsewhere
<1>10. g.inode = n /\ g.born = n BY <1>4, <1>6, <1>8, WrittenIs
<1> QED BY <1>7, <1>9, <1>10 DEF n

LEMMA RolledBackElsewhere ==
    ASSUME NEW f \in Files, f.inode # 0
    PROVE  LET g == RolledBack(f) IN
           /\ g.born = f.born
           /\ \A i \in 1..MaxInodes : i # f.inode => g.pages[i] = f.pages[i]
<1> DEFINE w == Written(f, Blank)
           g == RolledBack(f)
<1>1. /\ w \in Files /\ w.born = f.born
      /\ \A i \in 1..MaxInodes : i # f.inode => w.pages[i] = f.pages[i]
  BY Contents, WrittenIs, WrittenElsewhere
<1>2. g = [w EXCEPT !.journal = FALSE] BY DEF RolledBack
<1> HIDE DEF w, g
<1>3. g.pages = w.pages /\ g.born = w.born BY <1>1, <1>2 DEF Files
<1> QED BY <1>1, <1>3 DEF g

\* A server has created the file and written nothing to it yet.
Beginning == \E s \in Servers : pc[s] = "begin"

\* A file is written by its initialisation, which ends in version 1 of every page,
\* and after it by checkpoints.
LifeIInv ==
    /\ files.inode <= files.born
    /\ files.journal => \A q \in Pages : Main(files)[q] <= 1
    /\ files.wal.commit # 0 => \A q \in Pages : Main(files)[q] \in 1..files.wal.commit
    /\ Beginning => Main(files) = Blank

\* What may become of the files while no maintenance runs.
Evolves ==
    /\ Beginning' => Beginning \/ files'.inode \notin 0..files.born
    /\ files.born <= files'.born
    /\ \A i \in 1..files.born : i # files.inode => files'.pages[i] = files.pages[i]
    /\ \/ files' = files
       \* another file, or none
       \/ /\ files'.inode \notin 1..files.born
          /\ \A i \in 1..files.born : files'.pages[i] = files.pages[i]
       \/ /\ files'.inode = files.inode
          \* the first transaction begins, writes, commits or is rolled back
          /\ \/ Beginning /\ files' = [files EXCEPT !.journal = TRUE]
             \/ files.journal /\ files'.journal
             \/ /\ files.journal /\ ~files'.journal
                /\ files.wal.commit = 0 /\ files'.wal.commit = 0
                /\ Main(files') \in {Blank, At(1)}
             \* any later one
             \/ /\ Accepted(Current(files)) /\ Accepted(Current(files'))
                /\ \A q \in Pages : /\ Main(files')[q] >= Main(files)[q]
                                    /\ Current(files')[q] >= Current(files)[q]

LEMMA LifeInitially == Init => LifeIInv
<1> SUFFICES ASSUME Init PROVE LifeIInv
  OBVIOUS
<1>1. /\ files.inode = 0 /\ files.born = 0 /\ files.wal = NoWal /\ files.journal = FALSE
  BY DEF Init, NoFiles
<1>2. Main(files) = Blank BY <1>1 DEF Main
<1> QED BY <1>1, <1>2, Walls DEF LifeIInv

\* The files stay, and nobody begins.
LEMMA LifeStays ==
    ASSUME LifeIInv, files \in Files, files' = files, Beginning' => Beginning
    PROVE  LifeIInv' /\ Evolves
<1>1. files.born \in Nat BY FilesAssumption DEF Files
<1>2. Evolves BY <1>1 DEF Evolves
<1> QED BY <1>2 DEF LifeIInv

LEMMA NobodyBegins ==
    ASSUME LockIInv, NEW p \in Processes, NEW l, l # "begin", GoTo(p, l) \/ pc' = pc
    PROVE  Beginning' => Beginning
<1>1. \A s \in Servers : pc'[s] = pc[s] \/ pc'[s] = l
  BY DEF GoTo, LockIInv, LockTypes, Processes
<1> QED BY <1>1 DEF Beginning

LEMMA BeginsAlone ==
    ASSUME LockIInv, NEW s \in Servers, pc[s] \in InService, pc[s] # "begin"
    PROVE  ~Beginning
<1>1. "begin" \in InService BY DEF InService, Initialising
<1> QED BY <1>1, Alone DEF Beginning

LEMMA BornIs == files \in Files => files.born \in Nat /\ 1..files.born \subseteq 1..MaxInodes
                                   /\ files.inode \in Nat /\ files.born \in 0..MaxInodes
  BY FilesAssumption DEF Files

LEMMA InitialiseLife ==
    ASSUME LockIInv, DataIInv, LifeIInv, NEW s \in Servers,
           \/ Create(s) \/ BeginSchema(s) \/ WriteSchema(s) \/ SyncDatabase(s)
           \/ InitialisationFails(s) \/ RemoveGeneration(s)
    PROVE  LifeIInv' /\ Evolves
<1>1. files \in Files /\ FilesIInv /\ ServerData(s) /\ s \in Processes
  BY DEF DataIInv, FilesIInv, Processes
<1>2. files.born \in Nat /\ 1..files.born \subseteq 1..MaxInodes /\ files.inode \in Nat
      /\ files.inode <= files.born
  BY <1>1, BornIs DEF LifeIInv
<1>3. pc[s] \in InService
  BY DEF Create, BeginSchema, WriteSchema, SyncDatabase, InitialisationFails,
         RemoveGeneration, InService, Initialising
<1>4. pc[s] \in Initialising => files.wal.commit = 0 BY <1>1 DEF ServerData
<1>5. CASE Create(s)
  <2>1. CASE GoTo(s, "dropPid") /\ files' = files
    BY <1>1, <2>1, NobodyBegins, LifeStays
  <2>2. CASE files.inode = 0 /\ files.born < MaxInodes /\ files' = NewFile(files, Blank)
    <3>1. /\ Main(files') = Blank /\ files'.wal = files.wal
          /\ files'.inode = files.born + 1 /\ files'.born = files.born + 1
          /\ \A i \in 1..files.born : files'.pages[i] = files.pages[i]
      BY <1>1, <2>2, NewFileIs, NewFileElsewhere, Contents
    <3>2. files'.inode \notin 0..files.born /\ files'.inode \notin 1..files.born
          /\ files.born <= files'.born
      BY <1>2, <3>1
    <3>3. Evolves BY <3>1, <3>2 DEF Evolves
    <3>4. files'.wal.commit = 0 BY <1>1, <2>2, <3>1 DEF FilesIInv
    <3>5. files'.inode <= files'.born BY <1>2, <3>1
    <3>6. \A q \in Pages : Main(files')[q] <= 1 BY <3>1 DEF Blank
    <3> QED BY <3>1, <3>3, <3>4, <3>5, <3>6 DEF LifeIInv
  <2> QED BY <1>5, <2>1, <2>2 DEF Create
<1>6. CASE BeginSchema(s)
  <2>1. Beginning BY <1>6 DEF BeginSchema, Beginning
  <2>2. files' = [files EXCEPT !.journal = TRUE] /\ GoTo(s, "schema") BY <1>6 DEF BeginSchema
  <2>3. /\ files'.inode = files.inode /\ files'.wal = files.wal /\ files'.pages = files.pages
        /\ files'.born = files.born
    BY <1>1, <2>2 DEF Files
  <2>4. Main(files') = Main(files) /\ Main(files) = Blank
    BY <2>1, <2>3 DEF Main, LifeIInv
  <2>5. Evolves BY <1>2, <2>1, <2>2, <2>3 DEF Evolves
  <2>6. \A q \in Pages : Main(files')[q] <= 1 BY <2>4 DEF Blank
  <2>7. files.wal.commit = 0 BY <1>4, <1>6 DEF BeginSchema, Initialising
  <2> QED BY <1>2, <2>3, <2>4, <2>5, <2>6, <2>7 DEF LifeIInv
<1>7. CASE WriteSchema(s)
  <2>1. /\ pc[s] = "schema" /\ files.inode # 0 /\ files.journal /\ files.wal.commit = 0
    BY <1>1, <1>4, <1>7 DEF WriteSchema, ServerData, Initialising
  <2>2. ~Beginning BY <1>3, <2>1, BeginsAlone
  <2>3. CASE files' = FirstPageWritten(files, 1) /\ pc' = pc
    <3>1. /\ files' \in Files /\ files'.inode = files.inode /\ files'.born = files.born
          /\ files'.wal = files.wal /\ files'.journal = files.journal
          /\ \A i \in 1..MaxInodes : i # files.inode => files'.pages[i] = files.pages[i]
          /\ \A q \in Pages : Main(files')[q] \in {1, Main(files)[q]}
      BY <1>1, <2>1, <2>3, FirstPageIs, FirstPageElsewhere, Contents
    <3>2. ~Beginning' BY <1>1, <2>2, <2>3 DEF Beginning
    <3>3. Evolves BY <1>2, <2>1, <3>1, <3>2 DEF Evolves
    <3>4. \A q \in Pages : Main(files')[q] <= 1
      <4>1. \A q \in Pages : Main(files)[q] <= 1 BY <2>1 DEF LifeIInv
      <4> QED BY <3>1, <4>1
    <3> QED BY <1>2, <2>1, <3>1, <3>2, <3>3, <3>4 DEF LifeIInv
  <2>4. CASE Main(files) = At(1) /\ files' = [files EXCEPT !.journal = FALSE] /\ GoTo(s, "sync")
    <3>1. /\ files'.inode = files.inode /\ files'.wal = files.wal /\ files'.born = files.born
          /\ files'.journal = FALSE /\ files'.pages = files.pages
      BY <1>1, <2>4 DEF Files
    <3>2. Main(files') = At(1) BY <2>4, <3>1 DEF Main
    <3>3. ~Beginning' BY <1>1, <2>2, <2>4, NobodyBegins
    <3>4. Evolves BY <1>2, <2>1, <3>1, <3>2, <3>3 DEF Evolves
    <3> QED BY <1>2, <2>1, <3>1, <3>3, <3>4 DEF LifeIInv
  <2> QED BY <1>7, <2>3, <2>4 DEF WriteSchema
<1>8. CASE SyncDatabase(s)
  <2>1. files' = files /\ GoTo(s, "connect") BY <1>8 DEF SyncDatabase
  <2> QED BY <1>1, <2>1, NobodyBegins, LifeStays
<1>9. CASE InitialisationFails(s)
  <2>1. GoTo(s, "remove") BY <1>9 DEF InitialisationFails
  <2>2. CASE files' = files BY <1>1, <2>1, <2>2, NobodyBegins, LifeStays
  <2>3. CASE pc[s] = "schema" /\ files' = RolledBack(files)
    <3>1. files.inode # 0 /\ files.journal /\ files.wal.commit = 0
      BY <1>1, <1>4, <2>3 DEF ServerData, Initialising
    <3>2. /\ Main(files') = Blank /\ files'.inode = files.inode /\ files'.wal = files.wal
          /\ ~files'.journal /\ files'.born = files.born
          /\ \A i \in 1..MaxInodes : i # files.inode => files'.pages[i] = files.pages[i]
      BY <1>1, <2>3, <3>1, RolledBackIs, RolledBackElsewhere
    <3>3. ~Beginning' BY <1>1, <1>3, <2>1, <2>3, BeginsAlone, NobodyBegins
    <3>4. Evolves BY <1>2, <3>1, <3>2, <3>3 DEF Evolves
    <3> QED BY <1>2, <3>1, <3>2, <3>3, <3>4 DEF LifeIInv
  <2> QED BY <1>9, <2>2, <2>3 DEF InitialisationFails
<1>10. CASE RemoveGeneration(s)
  <2>1. pc[s] \in {"remove", "removeSidecars"} /\ files.wal.commit = 0
    BY <1>4, <1>10 DEF RemoveGeneration, Initialising
  <2>2. \E l \in {"removeSidecars", "dropPid"} : GoTo(s, l) BY <1>10 DEF RemoveGeneration
  <2>3. ~Beginning' BY <1>1, <1>3, <2>1, <2>2, BeginsAlone, NobodyBegins
  <2>4. /\ files'.inode = 0 /\ files'.born = files.born /\ files'.pages = files.pages
        /\ files'.wal.commit = 0
    <3>1. CASE files' = [files EXCEPT !.inode = 0] BY <1>1, <2>1, <3>1 DEF Files
    <3>2. CASE pc[s] = "removeSidecars" /\ files' = [files EXCEPT !.wal = NoWal, !.journal = FALSE]
      <4> DEFINE a == [files EXCEPT !.wal = NoWal]
      <4>1. a \in Files /\ a.inode = files.inode /\ a.wal = NoWal /\ a.born = files.born
            /\ a.pages = files.pages
        BY <1>1, Walls DEF Files
      <4>2. files' = [a EXCEPT !.journal = FALSE] BY <3>2, Zenon
      <4> HIDE DEF a
      <4>3. /\ files'.inode = files.inode /\ files'.wal = NoWal /\ files'.born = files.born
            /\ files'.pages = files.pages
        BY <4>1, <4>2 DEF Files
      <4>4. files.inode = 0 BY <1>1, <3>2 DEF ServerData
      <4> QED BY <4>3, <4>4, Walls
    <3> QED BY <1>10, <3>1, <3>2 DEF RemoveGeneration
  <2>5. Main(files') = Blank BY <2>4 DEF Main
  <2>6. Evolves BY <1>2, <2>3, <2>4 DEF Evolves
  <2>7. \A q \in Pages : Main(files')[q] <= 1 BY <2>5 DEF Blank
  <2> QED BY <1>2, <2>3, <2>4, <2>5, <2>6, <2>7 DEF LifeIInv
<1> QED BY <1>5, <1>6, <1>7, <1>8, <1>9, <1>10

LEMMA ConnectLife ==
    ASSUME LockIInv, DataIInv, LifeIInv, NEW s \in Servers, Connect(s)
    PROVE  LifeIInv' /\ Evolves
<1>1. files \in Files /\ FilesIInv /\ ServerData(s) /\ s \in Processes
  BY DEF DataIInv, FilesIInv, Processes
<1>2. files.born \in Nat /\ 1..files.born \subseteq 1..MaxInodes
  BY <1>1, BornIs
<1>3. pc[s] = "connect" /\ \E l \in {"snapshot", "dropPid"} : GoTo(s, l)
  BY DEF Connect, StartSnapshot
<1>4. ~Beginning'
  <2>1. pc[s] \in InService BY <1>3 DEF InService
  <2> QED BY <1>1, <1>3, <2>1, BeginsAlone, NobodyBegins
<1>5. CASE files' = files BY <1>1, <1>4, <1>5, LifeStays
<1>6. CASE files' = [files EXCEPT !.wal.tail = 0]
  <2> DEFINE w == [files.wal EXCEPT !.tail = 0]
  <2>1. files.wal \in Wal BY <1>1 DEF Files
  <2>2. w \in Wal /\ w.commit = files.wal.commit BY <2>1, FilesAssumption DEF Wal
  <2>3. files' = [files EXCEPT !.wal = w] BY <1>6
  <2> HIDE DEF w
  <2>4. /\ files' \in Files /\ files'.inode = files.inode /\ files'.wal = w
        /\ files'.journal = files.journal /\ files'.pages = files.pages
        /\ files'.born = files.born
    BY <1>1, <2>2, <2>3 DEF Files
  <2>5. Main(files') = Main(files) BY <2>4 DEF Main
  <2>6. Current(files') = Current(files) BY <2>2, <2>4, <2>5 DEF Current, Opened
  <2>7. Accepted(Current(files)) BY <1>1, <1>3 DEF ServerData
  <2>8. \A q \in Pages : Main(files)[q] \in Nat /\ Current(files)[q] \in Nat
    BY <1>1, MainType, CurrentType DEF Content, Versions
  <2>9. Evolves BY <1>2, <1>4, <2>4, <2>5, <2>6, <2>7, <2>8 DEF Evolves
  <2> QED BY <1>4, <2>2, <2>4, <2>5, <2>9 DEF LifeIInv
<1> QED BY <1>5, <1>6 DEF Connect

LEMMA WriteFrameLife ==
    ASSUME LockIInv, DataIInv, LifeIInv, NEW s \in Servers, WriteFrame(s)
    PROVE  LifeIInv' /\ Evolves
<1>1. files \in Files /\ FilesIInv /\ ServerData(s) /\ files.wal \in Wal
      /\ files.wal.commit \in Versions
  BY DEF DataIInv, FilesIInv, Files, Wal
<1>2. files.born \in Nat /\ 1..files.born \subseteq 1..MaxInodes
  BY <1>1, BornIs
<1>3. pc[s] = "serving" /\ pc[s] \in InService /\ pc' = pc BY DEF WriteFrame, InService
<1>4. ~Beginning /\ ~Beginning' BY <1>3, BeginsAlone DEF Beginning
<1>5. /\ Accepted(Current(files)) /\ Accepted(Current(files'))
      /\ \A q \in Pages : Current(files')[q] >= Current(files)[q]
  <2>1. DataIInv' /\ \A q \in Pages : Current(files')[q] >= Current(files)[q]
    BY WriteFrameData
  <2>2. ServerData(s)' BY <2>1 DEF DataIInv
  <2> QED BY <1>1, <1>3, <2>1, <2>2 DEF ServerData
<1>6. ~files.journal BY <1>1, <1>5, AcceptedWhen
<1> DEFINE v == Current(files)[1] + 1
<1>7. /\ files'.inode = files.inode /\ files'.pages = files.pages /\ files'.born = files.born
      /\ files'.journal = files.journal
      /\ files'.wal.commit = files.wal.commit \/ files'.wal.commit = v
  <2>1. CASE files' = [files EXCEPT !.wal = [commit |-> v, tail |-> 0]]
    BY <1>1, <2>1 DEF Files
  <2>2. CASE files' = [files EXCEPT !.wal.tail = files.wal.tail + 1]
    <3>1. files'.wal = [files.wal EXCEPT !.tail = files.wal.tail + 1] BY <1>1, <2>2 DEF Files
    <3>2. files'.wal.commit = files.wal.commit BY <1>1, <3>1 DEF Wal
    <3> QED BY <1>1, <2>2, <3>2 DEF Files
  <2> QED BY <2>1, <2>2 DEF WriteFrame
<1>8. Main(files') = Main(files) BY <1>7 DEF Main
<1>9. \A q \in Pages : Main(files)[q] \in 1..v
  <2>1. Whole(Current(files)) BY <1>1, <1>6, Contents DEF FilesIInv, Current, Opened
  <2>2. PICK u \in Versions : Current(files) = At(u) BY <2>1 DEF Whole
  <2>3. u \in Nat /\ v = u + 1
    <3>1. 1 \in Pages BY FilesAssumption DEF Pages
    <3> QED BY <2>2, <3>1 DEF At, Versions
  <2>4. CASE files.wal.commit = 0
    <3>1. Main(files) = At(u) /\ Accepted(Main(files))
      BY <1>5, <1>6, <2>2, <2>4 DEF Current, Opened
    <3>2. \A q \in Pages : Main(files)[q] = u /\ u # 0 BY <3>1 DEF At, Accepted
    <3> QED BY <2>3, <3>2
  <2>5. CASE files.wal.commit # 0
    <3>1. At(files.wal.commit) = At(u) BY <1>6, <2>2, <2>5 DEF Current, Opened
    <3>2. files.wal.commit = u
      <4>1. 1 \in Pages BY FilesAssumption DEF Pages
      <4>2. At(files.wal.commit)[1] = files.wal.commit /\ At(u)[1] = u BY <4>1 DEF At
      <4> QED BY <3>1, <4>2
    <3> QED BY <2>3, <2>5, <3>2 DEF LifeIInv
  <2> QED BY <2>4, <2>5
<1>10. \A q \in Pages : Main(files)[q] \in Nat BY <1>1, MainType DEF Content, Versions
<1>11. Evolves BY <1>2, <1>4, <1>5, <1>7, <1>8, <1>10 DEF Evolves
<1>12. files'.wal.commit # 0 => \A q \in Pages : Main(files')[q] \in 1..files'.wal.commit
  BY <1>7, <1>8, <1>9 DEF LifeIInv
<1> QED BY <1>4, <1>6, <1>7, <1>8, <1>11, <1>12 DEF LifeIInv

LEMMA CheckpointLife ==
    ASSUME LockIInv, DataIInv, LifeIInv, NEW p \in Servers \cup Doctors, Checkpoint(p)
    PROVE  LifeIInv' /\ Evolves
<1>1. /\ files \in Files /\ FilesIInv /\ files.inode # 0 /\ files.wal.commit # 0
      /\ files.wal.commit \in Versions /\ pc' = pc
  BY DEF Checkpoint, DataIInv, FilesIInv, Files, Wal
<1>2. files.born \in Nat /\ 1..files.born \subseteq 1..MaxInodes
  BY <1>1, BornIs
<1>3. ~Beginning /\ ~Beginning'
  BY <1>1 DEF Beginning, DataIInv, ServerData, Initialising
<1>4. ~files.journal BY <1>1 DEF FilesIInv
<1>5. /\ Accepted(Current(files)) /\ Current(files') = Current(files)
      /\ files'.inode = files.inode /\ ~files'.journal
  <2>1. Kept BY CheckpointData
  <2> QED BY <1>1, <1>4, <2>1, AcceptedWhen DEF Kept
<1>6. \A q \in Pages : /\ Main(files)[q] \in Nat /\ Current(files)[q] \in Nat
                       /\ Main(files)[q] \in 1..files.wal.commit
  BY <1>1, MainType, CurrentType DEF Content, Versions, LifeIInv
<1>7. /\ files'.born = files.born
      /\ \A i \in 1..files.born : i # files.inode => files'.pages[i] = files.pages[i]
      /\ \A q \in Pages : Main(files')[q] \in {files.wal.commit, Main(files)[q]}
      /\ files'.wal = files.wal \/ files'.wal = NoWal
  <2>1. CASE files' = FirstPageWritten(files, files.wal.commit)
    BY <1>1, <1>2, <2>1, FirstPageIs, FirstPageElsewhere
  <2>2. CASE files' = [files EXCEPT !.wal = NoWal]
    <3>1. /\ files'.inode = files.inode /\ files'.pages = files.pages /\ files'.wal = NoWal
          /\ files'.born = files.born
      BY <1>1, <2>2 DEF Files
    <3>2. Main(files') = Main(files) BY <3>1 DEF Main
    <3> QED BY <3>1, <3>2
  <2> QED BY <2>1, <2>2 DEF Checkpoint
<1>8. files.wal.commit \in Nat BY <1>1 DEF Versions
<1>9. \A q \in Pages : Main(files')[q] >= Main(files)[q] /\ Main(files')[q] \in 1..files.wal.commit
  BY <1>1, <1>6, <1>7, <1>8
<1>10. Evolves BY <1>2, <1>3, <1>5, <1>6, <1>7, <1>9 DEF Evolves
<1> QED BY <1>3, <1>5, <1>7, <1>9, <1>10, Walls DEF LifeIInv

LEMMA ProbeWriteLife ==
    ASSUME LockIInv, DataIInv, LifeIInv, NEW d \in Doctors, ProbeWrite(d)
    PROVE  LifeIInv' /\ Evolves
<1>1. files \in Files /\ FilesIInv /\ d \in Processes BY DEF DataIInv, FilesIInv, Processes
<1>2. files.born \in Nat /\ 1..files.born \subseteq 1..MaxInodes
  BY <1>1, BornIs
<1>3. Beginning' => Beginning
  <2>1. \E l \in {"rollback", "release"} : GoTo(d, l) BY DEF ProbeWrite
  <2> QED BY <1>1, <2>1, NobodyBegins
<1>4. CASE files' = files BY <1>1, <1>3, <1>4, LifeStays
<1>5. CASE files.journal /\ files.inode # 0 /\ files' = RolledBack(files)
  <2>1. /\ Main(files') = Blank /\ files'.inode = files.inode /\ files'.wal = files.wal
        /\ ~files'.journal /\ files'.born = files.born
        /\ \A i \in 1..MaxInodes : i # files.inode => files'.pages[i] = files.pages[i]
    BY <1>1, <1>5, RolledBackIs, RolledBackElsewhere
  <2>2. files.wal.commit = 0 BY <1>1, <1>5 DEF FilesIInv
  <2>3. Evolves BY <1>2, <1>3, <1>5, <2>1, <2>2 DEF Evolves
  <2> QED BY <1>2, <1>3, <2>1, <2>2, <2>3 DEF LifeIInv
<1> QED BY <1>4, <1>5 DEF ProbeWrite

LEMMA RestoreLife ==
    ASSUME LockIInv, DataIInv, LifeIInv, NEW k \in Keepers, Restore(k)
    PROVE  LifeIInv'
<1>1. files \in Files /\ k \in Processes BY DEF DataIInv, FilesIInv, Processes
<1>2. ~Beginning'
  <2>1. shared = {} BY DEF Restore, LockIInv, KeeperLocks
  <2>2. ~Beginning
    BY <2>1 DEF Beginning, LockIInv, ServerLocks, Sharing, InService, Initialising
  <2> QED BY <1>1, <2>2, NobodyBegins DEF Restore
<1>3. CASE files' = files BY <1>2, <1>3 DEF LifeIInv
<1>4. ASSUME files.born < MaxInodes, NEW v \in {0, 1},
             files' = [NewFile(files, At(v)) EXCEPT !.wal = NoWal, !.journal = FALSE]
      PROVE  LifeIInv'
  <2> DEFINE f == NewFile(files, At(v))
             a == [f EXCEPT !.wal = NoWal]
  <2>1. f \in Files /\ f.inode = files.born + 1 /\ f.born = files.born + 1
    BY <1>1, <1>4, NewFileIs, NewFileElsewhere, Contents
  <2>2. files' = [a EXCEPT !.journal = FALSE] BY <1>4, Zenon
  <2> HIDE DEF f
  <2>3. a \in Files /\ a.inode = f.inode /\ a.born = f.born /\ a.wal = NoWal
    BY <2>1, Walls DEF Files
  <2> HIDE DEF a
  <2>4. /\ files'.inode = f.inode /\ files'.born = f.born /\ files'.wal = NoWal
        /\ files'.journal = FALSE
    BY <2>2, <2>3 DEF Files
  <2>5. files'.inode <= files'.born BY <1>1, <2>1, <2>4, BornIs
  <2> QED BY <1>2, <2>4, <2>5, Walls DEF LifeIInv
<1> QED BY <1>3, <1>4 DEF Restore

-----------------------------------------------------------------------------
(* What a copy shows: the copies.                                          *)

\* The pages a copy has taken.
Taken(k) == IF k.pass = 1 THEN {q \in Pages : q < k.next} ELSE Pages

\* While the path names the file that is copied, that is not older than the copy.
Grown(k, f) ==
    /\ \A q \in Pages : k.low[q] <= Current(f)[q]
    /\ f.journal => \A q \in Taken(k) : k.pages[q] <= 1
    /\ Accepted(Current(f)) => \A q \in Taken(k) : k.pages[q] <= Main(f)[q]

\* The copied page q will not be found again.
Gone(k, q, f) ==
    /\ f.pages[k.inode][q] # k.pages[q]
    /\ f.inode = k.inode =>
         \/ Accepted(Current(f)) /\ k.pages[q] < Main(f)[q]
         \/ ~f.journal /\ f.wal.commit = 0 /\ Main(f) = Blank /\ k.pages[q] # 0

\* The pages of a copy are one version, but for pages the second look refuses.
Agreed(k, f) ==
    \E v \in Versions : \A q \in Pages :
        /\ k.low[q] <= v
        /\ k.pages[q] = v \/ (q \notin Checked(k) /\ Gone(k, q, f))

\* The path has not been looked at again.
Early(k) == k.pass < 4 \/ (k.pass = 4 /\ k.next = 1)

Shows(k, f) ==
    /\ k.inode \in 1..f.born
    /\ f.inode = k.inode => Grown(k, f)
    /\ \/ Early(k) /\ f.inode # k.inode
       \/ /\ k.pass > 2 /\ k.wal.commit # 0 => \A q \in Pages : k.low[q] <= k.wal.commit
          /\ k.pass > 3 /\ k.journal => \A q \in Pages : k.low[q] <= 0
          /\ k.pass = 3 /\ k.wal.commit = 0 => f.journal \/ Agreed(k, f)
          /\ k.pass > 3 /\ k.wal.commit = 0 /\ ~k.journal => Agreed(k, f)

Unwritten(k, f) == f.inode = k.inode => \A q \in Taken(k) : k.pages[q] = 0

\* A copy that is made stays what it shows, whatever becomes of the files.
LEMMA GoneStays ==
    ASSUME NEW f \in Files, NEW g \in Files, NEW k \in Snapshot, g.inode # k.inode,
           g.pages[k.inode] = f.pages[k.inode], Agreed(k, f)
    PROVE  Agreed(k, g)
  BY DEF Agreed, Gone

LEMMA JournalKeeps ==
    ASSUME NEW f \in Files, NEW k \in Snapshot, f.inode = k.inode, f.journal, Agreed(k, f)
    PROVE  \A g : Agreed(k, g)
<1>1. ~Accepted(Current(f)) BY AcceptedWhen
<1>2. \A q \in Pages : ~Gone(k, q, f) BY <1>1 DEF Gone
<1> QED BY <1>2 DEF Agreed

LEMMA CopyKept ==
    ASSUME LifeIInv, files \in Files, files' \in Files, Evolves, NEW k \in Snapshot,
           Shows(k, files), Beginning => Unwritten(k, files)
    PROVE  Shows(k, files') /\ (Beginning' => Unwritten(k, files'))
<1>1. /\ files.born \in Nat /\ files'.born \in Nat /\ files.born <= files'.born
      /\ k.inode \in 1..files.born /\ k.inode \in 1..files'.born /\ k.inode \in 0..files.born
      /\ files.inode <= files.born /\ files.inode \in Nat /\ files'.inode \in Nat
  BY BornIs, FilesAssumption DEF Evolves, Shows, LifeIInv, Files
<1>2. k.pass \in 1..7 /\ \A q \in Pages : k.pages[q] \in Nat /\ k.low[q] \in Nat
  BY DEF Snapshot, Content, Versions
<1>3. CASE files.inode # k.inode
  <2>1. files'.inode # k.inode /\ files'.pages[k.inode] = files.pages[k.inode]
    BY <1>1, <1>3 DEF Evolves
  <2>2. Agreed(k, files) => Agreed(k, files') BY <2>1, GoneStays
  <2>3. k.pass = 3 => Early(k) BY DEF Early
  <2> QED BY <1>1, <1>3, <2>1, <2>2, <2>3 DEF Shows, Unwritten
<1>4. CASE files.inode = k.inode /\ files'.inode # k.inode
  <2>1. files'.pages[k.inode] = files.pages[k.inode] BY <1>1, <1>4 DEF Evolves
  <2>2. Agreed(k, files) => Agreed(k, files') BY <1>4, <2>1, GoneStays
  <2>3. k.pass = 3 => Early(k) BY DEF Early
  <2> QED BY <1>1, <1>4, <2>1, <2>2, <2>3 DEF Shows, Unwritten
<1>5. CASE files.inode = k.inode /\ files'.inode = k.inode
  <2>1. Beginning' => Beginning /\ Unwritten(k, files') BY <1>1, <1>5 DEF Evolves, Unwritten
  <2>2. /\ Grown(k, files)
        /\ k.pass > 2 /\ k.wal.commit # 0 => \A q \in Pages : k.low[q] <= k.wal.commit
        /\ k.pass > 3 /\ k.journal => \A q \in Pages : k.low[q] <= 0
        /\ k.pass = 3 /\ k.wal.commit = 0 => files.journal \/ Agreed(k, files)
        /\ k.pass > 3 /\ k.wal.commit = 0 /\ ~k.journal => Agreed(k, files)
    BY <1>5 DEF Shows
  <2>3. Taken(k) \subseteq Pages /\ (k.pass > 1 => Taken(k) = Pages) BY <1>2 DEF Taken
  <2>4. SUFFICES ASSUME files' # files
                 PROVE  /\ Grown(k, files')
                        /\ k.pass = 3 /\ k.wal.commit = 0 => files'.journal \/ Agreed(k, files')
                        /\ k.pass > 3 /\ k.wal.commit = 0 /\ ~k.journal => Agreed(k, files')
    <3>1. CASE files' = files BY <1>5, <2>1, <3>1
    <3>2. CASE files' # files BY <1>1, <1>5, <2>1, <2>2, <2>4, <3>2 DEF Shows
    <3> QED BY <3>1, <3>2
  <2>5. files.journal => Current(files) = Blank BY DEF Current, Opened
  <2>6. files'.journal => Current(files') = Blank /\ ~Accepted(Current(files'))
    BY AcceptedWhen DEF Current, Opened
  <2>7. CASE Beginning /\ files' = [files EXCEPT !.journal = TRUE]
    <3>1. files'.journal = TRUE BY <2>7 DEF Files
    <3>2. files.wal.commit = 0
      <4>1. 1 \in Pages /\ Blank[1] = 0 BY FilesAssumption DEF Pages, Blank
      <4> QED BY <2>7, <4>1 DEF LifeIInv
    <3>3. Current(files) = Blank BY <2>7, <3>2 DEF Current, Opened, LifeIInv
    <3>4. \A q \in Taken(k) : k.pages[q] = 0 BY <1>5, <2>7 DEF Unwritten
    <3>5. Grown(k, files') BY <2>2, <2>6, <3>1, <3>3, <3>4 DEF Grown
    <3>6. k.pass > 2 /\ Agreed(k, files) => Agreed(k, files')
      <4>1. k.pass > 2 => \A q \in Pages : ~Gone(k, q, files)
        BY <1>2, <1>5, <2>3, <3>3, <3>4, Contents DEF Gone
      <4> QED BY <4>1 DEF Agreed
    <3> QED BY <1>2, <2>2, <3>1, <3>5, <3>6
  <2>8. CASE files.journal /\ files'.journal
    <3>1. Grown(k, files') BY <2>2, <2>5, <2>6, <2>8 DEF Grown
    <3> QED BY <1>5, <2>2, <2>8, <3>1, JournalKeeps
  <2>9. CASE /\ files.journal /\ ~files'.journal
             /\ files.wal.commit = 0 /\ files'.wal.commit = 0
             /\ Main(files') \in {Blank, At(1)}
    <3>1. /\ \A q \in Pages : k.low[q] <= 0
          /\ \A q \in Taken(k) : k.pages[q] \in {0, 1}
      <4>1. \A q \in Pages : k.low[q] <= Blank[q] BY <2>2, <2>5, <2>9 DEF Grown
      <4>2. \A q \in Taken(k) : k.pages[q] <= 1 /\ k.pages[q] \in Nat
        BY <1>2, <2>2, <2>3, <2>9 DEF Grown
      <4> QED BY <4>1, <4>2 DEF Blank
    <3>2. Current(files') = Main(files') BY <2>9 DEF Current, Opened
    <3>3. PICK v \in {0, 1} : \A q \in Pages : Main(files')[q] = v
      BY <2>9 DEF Blank, At
    <3>4. v \in Versions BY Contents
    <3>5. v = 1 => Accepted(Current(files')) BY <3>2, <3>3 DEF Accepted
    <3>6. v = 0 => Main(files') = Blank /\ ~Accepted(Current(files'))
      <4>1. v = 0 => Main(files') # At(1)
        <5>1. 1 \in Pages /\ At(1)[1] = 1 BY FilesAssumption DEF Pages, At
        <5> QED BY <3>3, <5>1
      <4> QED BY <2>9, <3>2, <4>1, Contents
    <3>7. Grown(k, files')
      <4>1. \A q \in Pages : k.low[q] <= Current(files')[q] BY <1>2, <3>1, <3>2, <3>3
      <4>2. Accepted(Current(files')) => \A q \in Taken(k) : k.pages[q] <= Main(files')[q]
        BY <2>3, <3>1, <3>3, <3>6
      <4> QED BY <2>9, <4>1, <4>2 DEF Grown
    <3>8. k.pass = 3 => Agreed(k, files')
      <4> SUFFICES ASSUME k.pass = 3, NEW q \in Pages
                   PROVE  /\ k.low[q] <= v
                          /\ k.pages[q] = v \/ (q \notin Checked(k) /\ Gone(k, q, files'))
        BY <3>4 DEF Agreed
      <4>1. Taken(k) = Pages /\ Checked(k) = {} BY <2>3 DEF Checked
      <4>2. k.pages[q] \in {0, 1} /\ k.low[q] <= v BY <1>2, <3>1, <4>1
      <4>3. files'.pages[k.inode][q] = v BY <1>1, <1>5, <3>3 DEF Main
      <4>4. k.pages[q] # v => Gone(k, q, files')
        <5>1. CASE v = 1
          <6>1. k.pages[q] # v => k.pages[q] < Main(files')[q] BY <3>3, <4>2, <5>1
          <6> QED BY <3>5, <4>3, <5>1, <6>1 DEF Gone
        <5>2. CASE v = 0 BY <2>9, <3>6, <4>3, <5>2 DEF Gone
        <5> QED BY <5>1, <5>2
      <4> QED BY <4>1, <4>2, <4>4
    <3> QED BY <1>5, <2>2, <2>9, <3>7, <3>8, JournalKeeps
  <2>10. CASE /\ Accepted(Current(files)) /\ Accepted(Current(files'))
              /\ \A q \in Pages : /\ Main(files')[q] >= Main(files)[q]
                                  /\ Current(files')[q] >= Current(files)[q]
    <3>1. ~files.journal /\ ~files'.journal BY <2>10, AcceptedWhen
    <3>2. \A q \in Pages : /\ Main(files')[q] \in Nat /\ Main(files)[q] \in Nat
                           /\ Current(files')[q] \in Nat /\ Current(files)[q] \in Nat
      BY MainType, CurrentType DEF Content, Versions
    <3>3. Grown(k, files') BY <1>2, <2>2, <2>3, <2>10, <3>1, <3>2 DEF Grown
    <3>4. Agreed(k, files) => Agreed(k, files')
      <4>1. ASSUME NEW q \in Pages, Gone(k, q, files) PROVE Gone(k, q, files')
        <5>1. ~(files.wal.commit = 0 /\ Main(files) = Blank)
          BY <2>10, <3>1, Contents DEF Current, Opened
        <5>2. k.pages[q] < Main(files)[q] BY <1>5, <4>1, <5>1 DEF Gone
        <5>3. k.pages[q] < Main(files')[q] BY <1>2, <2>10, <3>2, <5>2
        <5>4. files'.pages[k.inode][q] = Main(files')[q] BY <1>1, <1>5 DEF Main
        <5>5. files'.pages[k.inode][q] # k.pages[q] BY <1>2, <3>2, <5>3, <5>4
        <5> QED BY <2>10, <5>3, <5>5 DEF Gone
      <4> QED BY <4>1 DEF Agreed
    <3> QED BY <2>2, <3>1, <3>3, <3>4
  <2>11. \/ Beginning /\ files' = [files EXCEPT !.journal = TRUE]
         \/ files.journal /\ files'.journal
         \/ /\ files.journal /\ ~files'.journal
            /\ files.wal.commit = 0 /\ files'.wal.commit = 0
            /\ Main(files') \in {Blank, At(1)}
         \/ /\ Accepted(Current(files)) /\ Accepted(Current(files'))
            /\ \A q \in Pages : /\ Main(files')[q] >= Main(files)[q]
                                /\ Current(files')[q] >= Current(files)[q]
    BY <1>1, <1>5, <2>4 DEF Evolves
  <2> QED BY <2>7, <2>8, <2>9, <2>10, <2>11
<1> QED BY <1>3, <1>4, <1>5

\* What has been read when the path names nothing else is no older than the copy.
LEMMA TakenIsCurrent ==
    ASSUME NEW f \in Files, NEW k \in Snapshot, FilesIInv, f = files, Grown(k, f), k.pass = 2,
           f.inode = k.inode, k.inode # 0, f.wal.commit = 0, ~f.journal
    PROVE  Agreed(k, f)
<1>1. Current(f) = Main(f) /\ Whole(Main(f)) BY DEF Current, Opened, FilesIInv
<1>2. PICK v \in Versions : Main(f) = At(v) BY <1>1 DEF Whole
<1>3. \A q \in Pages : /\ k.pages[q] \in Nat /\ k.low[q] \in Nat
                       /\ Main(f)[q] = v /\ f.pages[k.inode][q] = v
  BY <1>2 DEF Snapshot, Content, Versions, Main, At
<1>4. Taken(k) = Pages /\ Checked(k) = {} BY DEF Taken, Checked
<1> SUFFICES ASSUME NEW q \in Pages
             PROVE  /\ k.low[q] <= v
                    /\ k.pages[q] = v \/ (q \notin Checked(k) /\ Gone(k, q, f))
  BY DEF Agreed
<1>5. k.low[q] <= v BY <1>1, <1>3 DEF Grown
<1>6. CASE v = 0
  <2>1. Main(f) = Blank BY <1>2, <1>6 DEF At, Blank
  <2> QED BY <1>3, <1>4, <1>5, <1>6, <2>1 DEF Gone
<1>7. CASE v # 0
  <2>1. Accepted(Current(f)) BY <1>1, <1>2, <1>7, Contents
  <2>2. k.pages[q] <= v BY <1>3, <1>4, <2>1 DEF Grown
  <2>3. k.pages[q] = v \/ k.pages[q] < Main(f)[q]
    <3>1. v \in Nat BY DEF Versions
    <3> QED BY <1>3, <2>2, <3>1
  <2> QED BY <1>3, <1>4, <1>5, <2>1, <2>3 DEF Gone
<1> QED BY <1>6, <1>7

\* One more read.
LEMMA CopyReads ==
    ASSUME LifeIInv, FilesIInv, NEW k \in Snapshot, k.pass < 7, ~Differs(files, k),
           k.pass = 1 /\ k.next = 1 => files.inode # 0,
           k.pass > 1 \/ k.next > 1 =>
              k.inode # 0 /\ Shows(k, files) /\ (Beginning => Unwritten(k, files))
    PROVE  LET a == Advanced(Read(files, k)) IN
           Shows(a, files) /\ (Beginning => Unwritten(a, files))
<1> DEFINE r == Read(files, k)
           a == Advanced(r)
<1>1. /\ files \in Files /\ k.pass \in 1..6 /\ k.next \in 1..NumPages /\ k.next \in Pages
      /\ files.inode \in Nat /\ files.born \in Nat /\ files.inode <= files.born
      /\ NumPages \in Nat
  BY BornIs, FilesAssumption DEF FilesIInv, LifeIInv, Snapshot, Pages
<1>2. /\ r \in Snapshot /\ r.pass = k.pass /\ r.next = k.next
      /\ k.pass = 1 =>
           /\ r.inode = IF k.next = 1 THEN files.inode ELSE k.inode
           /\ r.pages = [k.pages EXCEPT ![k.next] = files.pages[r.inode][k.next]]
           /\ r.low = IF k.next = 1 THEN Current(files) ELSE k.low
      /\ k.pass = 2 => r.inode = k.inode /\ r.wal = files.wal /\ r.journal = k.journal
      /\ k.pass = 3 => r.inode = k.inode /\ r.wal = k.wal /\ r.journal = files.journal
      /\ k.pass \in {2, 3} => r.pages = k.pages /\ r.low = k.low
      /\ k.pass > 3 => r = k
  BY <1>1, ReadIs
<1> HIDE DEF r
<1>3. /\ a \in Snapshot
      /\ a.inode = r.inode /\ a.pages = r.pages /\ a.wal = r.wal /\ a.journal = r.journal
      /\ a.low = r.low
      /\ \/ /\ k.pass \in {1, 4} /\ k.next # NumPages
            /\ a.pass = k.pass /\ a.next = k.next + 1
         \/ /\ k.pass \in {1, 4} => k.next = NumPages
            /\ a.pass = k.pass + 1 /\ a.next = 1
  BY <1>2, AdvancedIs
<1> HIDE DEF a
<1>4. CASE k.pass = 1
  <2>1. Taken(a) = {q \in Pages : q < k.next} \cup {k.next}
    <3>1. CASE a.pass = 1 /\ a.next = k.next + 1
      BY <1>1, <3>1 DEF Taken, Pages
    <3>2. CASE a.pass = 2 /\ k.next = NumPages
      BY <1>1, <3>2 DEF Taken, Pages
    <3> QED BY <1>3, <1>4, <3>1, <3>2
  <2>2. Taken(k) = {q \in Pages : q < k.next} BY <1>4 DEF Taken
  <2>3. a.pages[k.next] = files.pages[a.inode][k.next]
        /\ \A q \in Taken(k) : a.pages[q] = k.pages[q]
    BY <1>1, <1>2, <1>3, <1>4, <2>2 DEF Snapshot, Content
  <2>4. a.pass \in {1, 2} /\ Early(a) BY <1>3, <1>4 DEF Early
  <2>5. a.inode \in 1..files.born /\ a.inode # 0
    BY <1>1, <1>2, <1>3, <1>4 DEF Shows
  <2>6. files.inode = a.inode => a.pages[k.next] = Main(files)[k.next]
    BY <2>3, <2>5 DEF Main
  <2>7. Main(files)[k.next] \in Nat BY <1>1, MainType DEF Content, Versions
  <2>8. files.inode = a.inode => \A q \in Pages : a.low[q] <= Current(files)[q]
    <3>1. \A q \in Pages : Current(files)[q] \in Nat
      BY <1>1, CurrentType DEF Content, Versions
    <3>2. CASE k.next = 1 BY <1>2, <1>3, <1>4, <3>1, <3>2
    <3>3. CASE k.next # 1 BY <1>1, <1>2, <1>3, <1>4, <3>3 DEF Shows, Grown
    <3> QED BY <3>2, <3>3
  <2>9. files.inode = a.inode => Grown(a, files) /\ (Beginning => Unwritten(a, files))
    <3> SUFFICES ASSUME files.inode = a.inode
                 PROVE  Grown(a, files) /\ (Beginning => Unwritten(a, files))
      OBVIOUS
    <3>1. k.next # 1 => Grown(k, files) /\ (Beginning => Unwritten(k, files))
      BY <1>1, <1>2, <1>3, <1>4 DEF Shows
    <3>2. k.next = 1 => Taken(k) = {} BY <1>1, <2>2 DEF Pages
    <3>3. files.journal => \A q \in Taken(a) : a.pages[q] <= 1
      BY <1>1, <2>1, <2>2, <2>3, <2>6, <3>1, <3>2 DEF Grown, LifeIInv
    <3>4. Accepted(Current(files)) => \A q \in Taken(a) : a.pages[q] <= Main(files)[q]
      BY <1>1, <2>1, <2>2, <2>3, <2>6, <2>7, <3>1, <3>2 DEF Grown
    <3>5. ASSUME Beginning PROVE \A q \in Taken(a) : a.pages[q] = 0
      <4>1. Main(files)[k.next] = 0 BY <1>1, <3>5 DEF LifeIInv, Blank
      <4>2. \A q \in Taken(k) : k.pages[q] = 0
        BY <1>2, <1>3, <1>4, <3>1, <3>2, <3>5 DEF Unwritten
      <4> QED BY <2>1, <2>2, <2>3, <2>6, <4>1, <4>2
    <3> QED BY <2>8, <3>3, <3>4, <3>5 DEF Grown, Unwritten
  <2> QED BY <2>4, <2>5, <2>9 DEF Shows, Unwritten, a, r
<1>5. CASE k.pass # 1
  <2>1. /\ Shows(k, files) /\ (Beginning => Unwritten(k, files)) /\ k.inode # 0
        /\ k.pass \in 2..6
    BY <1>1, <1>5
  <2>2. /\ a.inode = k.inode /\ a.pages = k.pages /\ a.low = k.low
        /\ k.pass > 2 => a.wal = k.wal
        /\ k.pass > 3 => a.journal = k.journal
    BY <1>2, <1>3, <2>1
  <2>3. a.pass > 1 /\ a.pass \in 2..7 BY <1>3, <2>1
  <2>4. Taken(a) = Pages /\ Taken(k) = Pages BY <1>5, <2>3 DEF Taken
  <2>5. /\ a.inode \in 1..files.born
        /\ files.inode = a.inode => Grown(k, files) /\ Grown(a, files)
        /\ Beginning => Unwritten(a, files)
    BY <2>1, <2>2, <2>4 DEF Shows, Grown, Unwritten
  <2>6. k.pass = 4 => files.pages[k.inode][k.next] = k.pages[k.next]
                      /\ (k.next = 1 => files.inode = k.inode)
    BY DEF Differs, Opens, MainPasses
  <2>7. CASE files.inode # k.inode /\ k.pass < 4
    <3>1. Early(a)
      BY <1>3, <2>1, <2>7 DEF Early
    <3> QED BY <2>2, <2>5, <2>7, <3>1 DEF Shows, a, r
  <2>8. CASE files.inode = k.inode \/ k.pass > 3
    <3>1. /\ k.pass > 2 /\ k.wal.commit # 0 => \A q \in Pages : k.low[q] <= k.wal.commit
          /\ k.pass > 3 /\ k.journal => \A q \in Pages : k.low[q] <= 0
          /\ k.pass = 3 /\ k.wal.commit = 0 => files.journal \/ Agreed(k, files)
          /\ k.pass > 3 /\ k.wal.commit = 0 /\ ~k.journal => Agreed(k, files)
      BY <2>1, <2>6, <2>8 DEF Shows, Early
    <3>2. CASE k.pass = 2
      <4>1. a.pass = 3 /\ a.wal = files.wal BY <1>2, <1>3, <3>2
      <4>2. files.inode = k.inode BY <2>8, <3>2
      <4>3. ASSUME files.wal.commit # 0 PROVE \A q \in Pages : a.low[q] <= files.wal.commit
        <5>1. Current(files) = At(files.wal.commit)
          BY <4>3 DEF FilesIInv, Current, Opened
        <5> QED BY <2>2, <2>5, <4>2, <5>1 DEF Grown, At
      <4>4. ASSUME files.wal.commit = 0, ~files.journal PROVE Agreed(a, files)
        <5>1. Agreed(k, files) BY <1>1, <2>1, <2>2, <2>5, <3>2, <4>2, <4>4, TakenIsCurrent
        <5>2. Checked(a) = {} BY <4>1 DEF Checked
        <5> QED BY <2>2, <5>1, <5>2 DEF Agreed, Gone
      <4> QED BY <2>5, <4>1, <4>3, <4>4 DEF Shows, a, r
    <3>3. CASE k.pass = 3
      <4>1. a.pass = 4 /\ a.next = 1 /\ a.wal = k.wal /\ a.journal = files.journal
        BY <1>2, <1>3, <3>3
      <4>2. files.inode = k.inode BY <2>8, <3>3
      <4>3. files.journal => \A q \in Pages : a.low[q] <= 0
        <5>1. files.journal => Current(files) = Blank BY DEF Current, Opened
        <5> QED BY <2>2, <2>5, <4>2, <5>1 DEF Grown, Blank
      <4>4. Agreed(k, files) => Agreed(a, files)
        <5>1. Checked(a) = {} BY <4>1 DEF Checked, Pages
        <5> QED BY <2>2, <5>1 DEF Agreed, Gone
      <4> QED BY <2>2, <2>5, <3>1, <3>3, <4>1, <4>3, <4>4 DEF Shows, a, r
    <3>4. CASE k.pass > 3
      <4>1. a.pass > 3 /\ a.wal = k.wal /\ a.journal = k.journal BY <1>3, <2>1, <2>2, <3>4
      <4>2. \A q \in Checked(a) : q \in Checked(k) \/ (k.pass = 4 /\ q = k.next)
        <5>1. CASE k.pass = 4 /\ k.next # NumPages
          <6>1. a.pass = 4 /\ a.next = k.next + 1 BY <1>3, <5>1
          <6> QED BY <1>1, <5>1, <6>1 DEF Checked, Pages
        <5>2. CASE k.pass = 4 /\ k.next = NumPages BY <1>1, <5>2 DEF Checked, Pages
        <5>3. CASE k.pass > 4 BY <2>1, <5>3 DEF Checked
        <5> QED BY <2>1, <3>4, <5>1, <5>2, <5>3
      <4>3. k.pass = 4 => ~Gone(k, k.next, files) BY <2>6 DEF Gone
      <4>4. Agreed(k, files) => Agreed(a, files)
        <5>1. \A q \in Pages : Gone(k, q, files) => Gone(a, q, files) BY <2>2 DEF Gone
        <5>2. \A q \in Checked(a) : Gone(k, q, files) => q \in Checked(k) BY <4>2, <4>3
        <5> QED BY <2>2, <5>1, <5>2 DEF Agreed
      <4>5. a.pass # 3 BY <2>3, <4>1
      <4>6. /\ a.wal.commit # 0 => \A q \in Pages : a.low[q] <= a.wal.commit
            /\ a.journal => \A q \in Pages : a.low[q] <= 0
            /\ a.wal.commit = 0 /\ ~a.journal => Agreed(a, files)
        BY <2>1, <2>2, <3>1, <3>4, <4>1, <4>4
      <4> HIDE DEF a
      <4> QED BY <2>5, <4>5, <4>6 DEF Shows, a, r
    <3> QED BY <2>1, <3>2, <3>3, <3>4
  <2> QED BY <2>1, <2>7, <2>8
<1> QED BY <1>4, <1>5

-----------------------------------------------------------------------------
(* What a copy shows: the steps.                                           *)

CopyIInv ==
    \A p \in Servers \cup Doctors : pc[p] \in {"snapshot", "validate"} =>
        /\ pc[p] = "validate" => snap[p].pass = 7
        /\ snap[p].pass > 1 \/ snap[p].next > 1 =>
             Shows(snap[p], files) /\ (Beginning => Unwritten(snap[p], files))

\* A step that leaves the files, of a process that begins nothing.
LEMMA QuietLife ==
    ASSUME LockIInv, DataIInv, LifeIInv, NEW p \in Processes, NEW l, l # "begin",
           GoTo(p, l) \/ pc' = pc, files' = files
    PROVE  LifeIInv' /\ Evolves
  BY NobodyBegins, LifeStays DEF DataIInv, FilesIInv

LEMMA LifeStep ==
    ASSUME LockIInv, DataIInv, LifeIInv, [Next]_vars
    PROVE  LifeIInv' /\ (Evolves \/ \E k \in Keepers : Restore(k))
<1>1. CASE UNCHANGED vars
  <2>1. files' = files /\ pc' = pc BY <1>1 DEF vars
  <2> QED BY <2>1, LifeStays DEF DataIInv, FilesIInv, Beginning
<1>2. ASSUME NEW p \in Processes, ReadTarget(p) \/ EnsureUnchanged(p) \/ Crash(p)
      PROVE  LifeIInv' /\ Evolves
  <2>1. files' = files BY <1>2 DEF ReadTarget, EnsureUnchanged, Crash
  <2>2. \E l \in {"instance", "shared", "exclusive", "runtime", "restore", "snapshot", "down"} :
           GoTo(p, l)
    BY <1>2 DEF ReadTarget, EnsureUnchanged, Crash, Exit, StartSnapshot
  <2> QED BY <2>1, <2>2, QuietLife
<1>3. ASSUME NEW p \in Servers \cup Doctors,
             LockShared(p) \/ ReadSource(p) \/ Validate(p) \/ Checkpoint(p)
      PROVE  LifeIInv' /\ Evolves
  <2>1. p \in Processes BY DEF Processes
  <2>2. CASE Checkpoint(p) BY <2>2, CheckpointLife
  <2>3. CASE LockShared(p) \/ ReadSource(p) \/ Validate(p)
    <3>1. files' = files BY <2>3 DEF LockShared, ReadSource, Validate
    <3>2. \/ pc' = pc
          \/ \E l \in {"unchanged", "down", "validate", "release", "closing", "dropPid",
                       "reads", "connect", "validateOpen"} : GoTo(p, l)
      BY <2>3 DEF LockShared, Exit, ReadSource, Validate, AfterFailure
    <3> QED BY <2>1, <3>1, <3>2, QuietLife
  <2> QED BY <1>3, <2>2, <2>3
<1>4. ASSUME NEW p \in Doctors \cup Keepers, Release(p) PROVE LifeIInv' /\ Evolves
  <2>1. p \in Processes /\ files' = files /\ GoTo(p, "down")
    BY <1>4 DEF Release, Exit, Processes
  <2> QED BY <2>1, QuietLife
<1>5. ASSUME NEW s \in Servers, ServerStep(s) PROVE LifeIInv' /\ Evolves
  <2>1. s \in Processes BY DEF Processes
  <2>2. CASE \/ LockInstance(s) \/ LockRuntime(s) \/ TruncatePid(s) \/ WritePid(s)
             \/ Prepare(s) \/ ValidateOpen(s)
             \/ Stop(s) \/ ClosePool(s) \/ DropPid(s) \/ Unlock(s)
    <3>1. files' = files
      BY <2>2 DEF LockInstance, LockRuntime, TruncatePid, WritePid, Prepare, ValidateOpen,
                  Stop, ClosePool, DropPid, Unlock
    <3>2. \E l \in {"maintenance", "down", "truncate", "writePid", "prepare", "create",
                    "snapshot", "serving", "closing", "dropPid", "unlock", "unlockRest"} :
             GoTo(s, l)
      BY <2>2 DEF LockInstance, LockRuntime, TruncatePid, WritePid, Prepare, ValidateOpen,
                  Stop, ClosePool, DropPid, Unlock, Exit, StartSnapshot
    <3> QED BY <2>1, <3>1, <3>2, QuietLife
  <2> QED BY <1>5, <2>2, InitialiseLife, ConnectLife, WriteFrameLife DEF ServerStep
<1>6. ASSUME NEW d \in Doctors, DoctorStep(d) PROVE LifeIInv' /\ Evolves
  <2>1. CASE ProbeReads(d) \/ ProbeRollback(d)
    <3>1. files' = files /\ \E l \in {"write", "release"} : GoTo(d, l)
      BY <2>1 DEF ProbeReads, ProbeRollback
    <3> QED BY <3>1, QuietLife DEF Processes
  <2> QED BY <1>6, <2>1, ProbeWriteLife DEF DoctorStep
<1>7. ASSUME NEW k \in Keepers, LockExclusive(k) \/ Restore(k)
      PROVE  LifeIInv' /\ (Evolves \/ Restore(k))
  <2>1. CASE LockExclusive(k)
    <3>1. files' = files /\ \E l \in {"unchanged", "down"} : GoTo(k, l)
      BY <2>1 DEF LockExclusive, Exit
    <3> QED BY <3>1, QuietLife DEF Processes
  <2> QED BY <1>7, <2>1, RestoreLife
<1> QED BY <1>1, <1>2, <1>3, <1>4, <1>5, <1>6, <1>7 DEF Next

\* Where the copy that p makes after a step comes from.
CopyStays(p) == pc'[p] = pc[p] /\ snap'[p] = snap[p]
CopyFrom(p) ==
    pc'[p] \in {"snapshot", "validate"} =>
        CopyStays(p) \/ (snap'[p] = NoSnapshot /\ pc'[p] = "snapshot")

LEMMA CopyOfOther ==
    ASSUME LockIInv, DataIInv, NEW p \in Servers \cup Doctors, NEW q \in Processes, NEW l,
           \/ pc' = pc /\ snap' = snap
           \/ /\ GoTo(q, l) /\ l \notin {"snapshot", "validate"}
              /\ snap' = snap \/ snap' = [snap EXCEPT ![q] = NoSnapshot]
    PROVE  CopyFrom(p)
<1>1. p \in Processes /\ DOMAIN snap = Servers \cup Doctors
  BY DEF Processes, DataIInv, CopiesIInv
<1>2. CASE pc' = pc /\ snap' = snap BY <1>2 DEF CopyFrom, CopyStays
<1>3. CASE /\ GoTo(q, l) /\ l \notin {"snapshot", "validate"}
           /\ snap' = snap \/ snap' = [snap EXCEPT ![q] = NoSnapshot]
  <2>1. CASE p = q
    <3>1. pc'[p] = l BY <1>1, <1>3, <2>1 DEF GoTo, LockIInv, LockTypes
    <3> QED BY <1>3, <3>1 DEF CopyFrom
  <2>2. CASE p # q
    <3>1. pc'[p] = pc[p] /\ snap'[p] = snap[p]
      BY <1>1, <1>3, <2>2 DEF GoTo, LockIInv, LockTypes
    <3> QED BY <3>1 DEF CopyFrom, CopyStays
  <2> QED BY <2>1, <2>2
<1> QED BY <1>2, <1>3

LEMMA CopyRestarts ==
    ASSUME LockIInv, DataIInv, NEW p \in Servers \cup Doctors, NEW q \in Servers \cup Doctors,
           GoTo(q, "snapshot") \/ (pc' = pc /\ pc[q] = "snapshot"),
           snap' = [snap EXCEPT ![q] = NoSnapshot]
    PROVE  CopyFrom(p)
<1>1. p \in Processes /\ q \in Processes /\ DOMAIN snap = Servers \cup Doctors
  BY DEF Processes, DataIInv, CopiesIInv
<1>2. CASE p = q
  <2>1. pc'[p] = "snapshot" BY <1>1, <1>2 DEF GoTo, LockIInv, LockTypes
  <2>2. snap'[p] = NoSnapshot BY <1>1, <1>2
  <2> QED BY <2>1, <2>2 DEF CopyFrom
<1>3. CASE p # q
  <2>1. pc'[p] = pc[p] /\ snap'[p] = snap[p]
    BY <1>1, <1>3 DEF GoTo, LockIInv, LockTypes
  <2> QED BY <2>1 DEF CopyFrom, CopyStays
<1> QED BY <1>2, <1>3

\* A read that goes on.
ReadsOn(p) ==
    /\ pc[p] = "snapshot" /\ files' = files
    /\ ~(snap[p].pass = 1 /\ Opens(snap[p]) /\ files.inode = 0) /\ ~Differs(files, snap[p])
    /\ snap'[p] = Advanced(Read(files, snap[p]))
    /\ pc'[p] = "validate" => snap'[p].pass = 7

LEMMA CopyOfReader ==
    ASSUME LockIInv, DataIInv, NEW p \in Servers \cup Doctors, NEW q \in Servers \cup Doctors,
           ReadSource(q)
    PROVE  CopyFrom(p) \/ (p = q /\ ReadsOn(p))
<1>1. /\ q \in Processes /\ p \in Processes /\ DOMAIN snap = Servers \cup Doctors
      /\ pc[q] = "snapshot" /\ files' = files
  BY DEF Processes, DataIInv, CopiesIInv, ReadSource
<1>2. CASE DropSnapshot(q) /\ (pc' = pc \/ GoTo(q, AfterFailure(q)))
  <2>1. snap' = [snap EXCEPT ![q] = NoSnapshot] BY <1>2 DEF DropSnapshot
  <2>2. CASE pc' = pc BY <1>1, <2>1, <2>2, CopyRestarts
  <2>3. CASE GoTo(q, AfterFailure(q))
    <3>1. AfterFailure(q) \notin {"snapshot", "validate"} BY DEF AfterFailure
    <3> QED BY <1>1, <2>1, <2>3, <3>1, CopyOfOther
  <2> QED BY <1>2, <2>2, <2>3
<1>3. CASE /\ ~(snap[q].pass = 1 /\ Opens(snap[q]) /\ files.inode = 0) /\ ~Differs(files, snap[q])
           /\ snap' = [snap EXCEPT ![q] = Advanced(Read(files, snap[q]))]
           /\ IF snap'[q].pass = 7 THEN GoTo(q, "validate") ELSE UNCHANGED pc
  <2>1. CASE p # q
    <3>1. pc'[p] = pc[p] BY <1>1, <1>3, <2>1 DEF GoTo, LockIInv, LockTypes
    <3>2. snap'[p] = snap[p] BY <1>1, <1>3, <2>1
    <3> QED BY <3>1, <3>2 DEF CopyFrom, CopyStays
  <2>2. CASE p = q
    <3>1. snap'[p] = Advanced(Read(files, snap[p])) BY <1>1, <1>3, <2>2
    <3>2. pc'[p] = "validate" => snap'[p].pass = 7 BY <1>1, <1>3, <2>2
    <3> QED BY <1>1, <1>3, <2>2, <3>1, <3>2 DEF ReadsOn
  <2> QED BY <2>1, <2>2
<1> QED BY <1>2, <1>3 DEF ReadSource

LEMMA CopyOrigin ==
    ASSUME LockIInv, DataIInv, [Next]_vars, NEW p \in Servers \cup Doctors
    PROVE  CopyFrom(p) \/ ReadsOn(p)
<1>1. CASE UNCHANGED vars BY <1>1 DEF vars, CopyFrom, CopyStays
<1>2. ASSUME NEW q \in Processes, ReadTarget(q) \/ EnsureUnchanged(q) \/ Crash(q)
      PROVE  CopyFrom(p)
  <2>1. CASE ReadTarget(q) BY <2>1, CopyOfOther DEF ReadTarget
  <2>2. CASE EnsureUnchanged(q)
    <3>1. CASE snap' = snap /\ \E l \in {"runtime", "restore", "down"} : GoTo(q, l)
      BY <3>1, CopyOfOther
    <3>2. CASE q \in Doctors /\ StartSnapshot(q)
      BY <3>2, CopyRestarts DEF StartSnapshot
    <3> QED BY <2>2, <3>1, <3>2 DEF EnsureUnchanged, Exit
  <2>3. CASE Crash(q)
    <3>1. GoTo(q, "down") BY <2>3 DEF Crash, Exit
    <3>2. snap' = snap \/ snap' = [snap EXCEPT ![q] = NoSnapshot]
      BY <2>3 DEF Crash, DropSnapshot
    <3> QED BY <3>1, <3>2, CopyOfOther
  <2> QED BY <1>2, <2>1, <2>2, <2>3
<1>3. ASSUME NEW q \in Servers \cup Doctors,
             LockShared(q) \/ ReadSource(q) \/ Validate(q) \/ Checkpoint(q)
      PROVE  CopyFrom(p) \/ ReadsOn(p)
  <2>1. q \in Processes BY DEF Processes
  <2>2. CASE LockShared(q)
    <3>1. snap' = snap /\ \E l \in {"unchanged", "down"} : GoTo(q, l)
      BY <2>2 DEF LockShared, Exit
    <3> QED BY <2>1, <3>1, CopyOfOther
  <2>3. CASE ReadSource(q) BY <2>3, CopyOfReader
  <2>4. CASE Validate(q)
    <3>1. /\ snap' = [snap EXCEPT ![q] = NoSnapshot]
          /\ \E l \in {"release", "closing", "dropPid", "reads", "connect", "validateOpen"} :
               GoTo(q, l)
      BY <2>4 DEF Validate, DropSnapshot, AfterFailure
    <3> QED BY <2>1, <3>1, CopyOfOther
  <2>5. CASE Checkpoint(q)
    <3>1. snap' = snap /\ pc' = pc BY <2>5 DEF Checkpoint
    <3> QED BY <2>1, <3>1, CopyOfOther
  <2> QED BY <1>3, <2>2, <2>3, <2>4, <2>5
<1>4. ASSUME NEW q \in Doctors \cup Keepers, Release(q) PROVE CopyFrom(p)
  <2>1. q \in Processes /\ snap' = snap /\ GoTo(q, "down")
    BY <1>4 DEF Release, Exit, Processes
  <2> QED BY <2>1, CopyOfOther
<1>5. ASSUME NEW s \in Servers, ServerStep(s) PROVE CopyFrom(p)
  <2>1. s \in Processes BY DEF Processes
  <2>2. CASE Prepare(s) \/ Connect(s)
    <3>1. CASE snap' = snap /\ \E l \in {"create", "dropPid"} : GoTo(s, l)
      BY <2>1, <3>1, CopyOfOther
    <3>2. CASE StartSnapshot(s) BY <3>2, CopyRestarts DEF StartSnapshot
    <3> QED BY <2>2, <3>1, <3>2 DEF Prepare, Connect
  <2>3. CASE ~(Prepare(s) \/ Connect(s))
    <3>1. snap' = snap
      BY <1>5, <2>3 DEF ServerStep, LockInstance, LockRuntime, TruncatePid, WritePid, Create,
           BeginSchema, WriteSchema, SyncDatabase, InitialisationFails, RemoveGeneration,
           ValidateOpen, WriteFrame, Stop, ClosePool, DropPid, Unlock
    <3>2. \/ pc' = pc
          \/ \E l \in {"maintenance", "down", "truncate", "writePid", "prepare", "begin",
                       "dropPid", "schema", "sync", "connect", "remove", "removeSidecars",
                       "serving", "closing", "unlock", "unlockRest"} : GoTo(s, l)
      BY <1>5, <2>3 DEF ServerStep, LockInstance, LockRuntime, TruncatePid, WritePid, Create,
           BeginSchema, WriteSchema, SyncDatabase, InitialisationFails, RemoveGeneration,
           ValidateOpen, WriteFrame, Stop, ClosePool, DropPid, Unlock, Exit
    <3> QED BY <2>1, <3>1, <3>2, CopyOfOther
  <2> QED BY <2>2, <2>3
<1>6. ASSUME NEW d \in Doctors, DoctorStep(d) PROVE CopyFrom(p)
  <2>1. /\ d \in Processes /\ snap' = snap
        /\ \E l \in {"write", "release", "rollback"} : GoTo(d, l)
    BY <1>6 DEF DoctorStep, ProbeReads, ProbeWrite, ProbeRollback, Processes
  <2> QED BY <2>1, CopyOfOther
<1>7. ASSUME NEW k \in Keepers, LockExclusive(k) \/ Restore(k) PROVE CopyFrom(p)
  <2>1. /\ k \in Processes /\ snap' = snap
        /\ \E l \in {"unchanged", "down", "release"} : GoTo(k, l)
    BY <1>7 DEF LockExclusive, Restore, Exit, Processes
  <2> QED BY <2>1, CopyOfOther
<1> QED BY <1>1, <1>2, <1>3, <1>4, <1>5, <1>6, <1>7 DEF Next

LEMMA CopyStep ==
    LockIInv /\ DataIInv /\ LifeIInv /\ CopyIInv /\ [Next]_vars => CopyIInv'
<1> SUFFICES ASSUME LockIInv, DataIInv, LifeIInv, CopyIInv, [Next]_vars,
                    NEW p \in Servers \cup Doctors, pc'[p] \in {"snapshot", "validate"}
             PROVE  /\ pc'[p] = "validate" => snap'[p].pass = 7
                    /\ snap'[p].pass > 1 \/ snap'[p].next > 1 =>
                         Shows(snap'[p], files') /\ (Beginning' => Unwritten(snap'[p], files'))
  BY DEF CopyIInv
<1>1. files \in Files /\ FilesIInv /\ CopiesIInv /\ snap[p] \in Snapshot
  BY DEF DataIInv, FilesIInv, CopiesIInv
<1>2. CASE CopyStays(p)
  <2>1. files' \in Files BY DataStep DEF DataIInv, FilesIInv
  <2>2. p \in shared
    BY <1>2 DEF CopyStays, LockIInv, ServerLocks, DoctorLocks, Sharing, InService
  <2>3. \A k \in Keepers : ~Restore(k) BY <2>2 DEF Restore, LockIInv, KeeperLocks
  <2>4. Evolves BY <2>3, LifeStep
  <2> QED BY <1>1, <1>2, <2>1, <2>4, CopyKept DEF CopyStays, CopyIInv
<1>3. CASE snap'[p] = NoSnapshot /\ pc'[p] = "snapshot"
  <2>1. ~(snap'[p].pass > 1) /\ ~(snap'[p].next > 1) BY <1>3, NoSnapshotIs
  <2> QED BY <1>3, <2>1
<1>4. CASE ReadsOn(p)
  <2>1. /\ pc[p] = "snapshot" /\ files' = files /\ ~Differs(files, snap[p])
        /\ ~(snap[p].pass = 1 /\ Opens(snap[p]) /\ files.inode = 0)
        /\ snap'[p] = Advanced(Read(files, snap[p]))
        /\ pc'[p] = "validate" => snap'[p].pass = 7
    BY <1>4 DEF ReadsOn
  <2>2. snap[p].pass < 7 /\ (snap[p].pass > 1 \/ snap[p].next > 1 => snap[p].inode # 0)
    BY <1>1, <2>1 DEF CopiesIInv
  <2>3. snap[p].pass = 1 /\ snap[p].next = 1 => files.inode # 0
    BY <2>1 DEF Opens, MainPasses
  <2>4. Shows(snap'[p], files) /\ (Beginning => Unwritten(snap'[p], files))
    BY <1>1, <2>1, <2>2, <2>3, CopyReads DEF CopyIInv
  <2>5. Beginning' => Beginning
    <3>1. p \in shared
      BY <2>1 DEF LockIInv, ServerLocks, DoctorLocks, Sharing, InService
    <3>2. \A k \in Keepers : ~Restore(k) BY <3>1 DEF Restore, LockIInv, KeeperLocks
    <3>3. Evolves BY <3>2, LifeStep
    <3>4. files.inode \in 0..files.born BY <1>1, BornIs DEF LifeIInv
    <3> QED BY <2>1, <3>3, <3>4 DEF Evolves
  <2> QED BY <2>1, <2>4, <2>5
<1> QED BY <1>2, <1>3, <1>4, CopyOrigin DEF CopyFrom

\* What a finished copy shows is one version, not older than the copy.
LEMMA ShownIsWhole ==
    ASSUME NEW f, NEW k \in Snapshot, Shows(k, f), k.pass = 7
    PROVE  Whole(Copied(k)) /\ \A q \in Pages : Copied(k)[q] >= k.low[q]
<1>1. /\ k.wal.commit # 0 => \A q \in Pages : k.low[q] <= k.wal.commit
      /\ k.journal => \A q \in Pages : k.low[q] <= 0
      /\ k.wal.commit = 0 /\ ~k.journal => Agreed(k, f)
  BY DEF Shows, Early
<1>2. /\ k.wal.commit \in Versions /\ \A q \in Pages : k.low[q] \in Nat
  BY DEF Snapshot, Wal, Content, Versions
<1>3. CASE k.journal
  <2>1. Copied(k) = Blank BY <1>3 DEF Copied, Opened
  <2> QED BY <1>1, <1>2, <1>3, <2>1, Contents DEF Blank
<1>4. CASE ~k.journal /\ k.wal.commit # 0
  <2>1. Copied(k) = At(k.wal.commit) BY <1>4 DEF Copied, Opened
  <2>2. k.wal.commit \in Nat BY <1>2 DEF Versions
  <2> QED BY <1>1, <1>2, <1>4, <2>1, <2>2, Contents DEF At
<1>5. CASE ~k.journal /\ k.wal.commit = 0
  <2>1. Copied(k) = k.pages BY <1>5 DEF Copied, Opened
  <2>2. Checked(k) = Pages BY DEF Checked
  <2>3. PICK v \in Versions : \A q \in Pages : k.low[q] <= v /\ k.pages[q] = v
    BY <1>1, <1>5, <2>2 DEF Agreed
  <2>4. k.pages = At(v) BY <2>3 DEF Snapshot, Content, At
  <2>5. v \in Nat BY DEF Versions
  <2> QED BY <1>2, <2>1, <2>3, <2>4, <2>5, Contents
<1> QED BY <1>3, <1>4, <1>5

-----------------------------------------------------------------------------
\* Whatever commits, checkpoints, first initialisations, rollbacks and removals run
\* while a server's or a doctor's copy reads the files one after the other: a copy
\* that is going to be validated is one state of the database, not older than the
\* one it was in when the copy began (snapshot_generation_once).
THEOREM CopiesAreConsistent == Spec => []SnapshotIsConsistent
<1>1. DataIInv /\ CopyIInv => SnapshotIsConsistent
  <2> SUFFICES ASSUME DataIInv, CopyIInv, NEW p \in Servers \cup Doctors, pc[p] = "validate"
               PROVE  /\ Whole(Copied(snap[p]))
                      /\ \A q \in Pages : Copied(snap[p])[q] >= snap[p].low[q]
    BY DEF SnapshotIsConsistent
  <2>1. snap[p] \in Snapshot /\ snap[p].pass = 7 BY DEF DataIInv, CopiesIInv, CopyIInv
  <2>2. Shows(snap[p], files) BY <2>1 DEF CopyIInv
  <2> QED BY <2>1, <2>2, ShownIsWhole
<1>2. Init => LockIInv /\ DataIInv /\ LifeIInv /\ CopyIInv
  <2>1. Init => CopyIInv
    <3>1. Init => \A p \in Servers \cup Doctors : pc[p] = "down" BY DEF Init, Processes
    <3> QED BY <3>1 DEF CopyIInv
  <2> QED BY <2>1, LocksInitially, DataInitially, LifeInitially
<1>3. LockIInv /\ DataIInv /\ LifeIInv /\ CopyIInv /\ [Next]_vars
        => LockIInv' /\ DataIInv' /\ LifeIInv' /\ CopyIInv'
  BY LocksStep, DataStep, LifeStep, CopyStep
<1> QED BY <1>1, <1>2, <1>3, PTL DEF Spec

-----------------------------------------------------------------------------
(* What the servers do to the database, all together: DatabaseService.     *)

Stages == [s \in Servers |-> StageAt(pc[s])]
SameData == files'.inode = files.inode /\ Current(files') = Current(files)
ServiceSteps == Service!Next \/ (Stages' = Stages /\ SameData)

LEMMA StagesAre ==
    /\ \A l : l \notin InService => StageAt(l) = "out"
    /\ \A l \in {"begin", "schema", "sync", "remove"} : StageAt(l) = "creating"
    /\ StageAt("serving") = "serving"
    /\ \A l \in {"removeSidecars", "closing", "dropPid", "unlock"} : StageAt(l) = "leaving"
    /\ \A l \in {"truncate", "writePid", "prepare", "create", "snapshot", "validate", "connect",
                 "validateOpen"} : StageAt(l) = "starting"
    /\ \A l \in InService : StageAt(l) # "out"
  BY DEF StageAt, InService, Initialising

LEMMA StageMoves ==
    ASSUME LockIInv, NEW s \in Servers, NEW l, GoTo(s, l)
    PROVE  /\ Stages' = [Stages EXCEPT ![s] = StageAt(l)]
           /\ Stages[s] = StageAt(pc[s])
<1>1. s \in Processes /\ pc' = [pc EXCEPT ![s] = l] /\ DOMAIN pc = Processes
  BY DEF Processes, GoTo, LockIInv, LockTypes
<1>2. \A t \in Servers : pc'[t] = IF t = s THEN l ELSE pc[t] BY <1>1 DEF Processes
<1>3. Stages' = [t \in Servers |-> StageAt(pc'[t])] BY DEF Stages, StageAt
<1> QED BY <1>2, <1>3 DEF Stages

\* A doctor or maintenance moves.
LEMMA StagesStay ==
    ASSUME LockIInv, NEW p \in Doctors \cup Keepers, NEW l, GoTo(p, l)
    PROVE  Stages' = Stages
<1>1. p \in Processes /\ pc' = [pc EXCEPT ![p] = l] /\ DOMAIN pc = Processes
  BY DEF Processes, GoTo, LockIInv, LockTypes
<1>2. \A t \in Servers : pc'[t] = pc[t] BY <1>1, StartupAssumption DEF Processes
<1>3. Stages' = [t \in Servers |-> StageAt(pc'[t])] BY DEF Stages, StageAt
<1> QED BY <1>2, <1>3 DEF Stages

LEMMA ServerMoves ==
    ASSUME LockIInv, NEW s \in Servers, NEW l, GoTo(s, l), SameData,
           \/ StageAt(l) = StageAt(pc[s])
           \/ pc[s] \in InService /\ StageAt(l) \in {"leaving", "out"}
    PROVE  ServiceSteps
<1>1. CASE StageAt(l) = StageAt(pc[s])
  <2>1. Stages' = Stages BY <1>1, StageMoves DEF Stages
  <2> QED BY <2>1 DEF ServiceSteps
<1>2. CASE pc[s] \in InService /\ StageAt(l) \in {"leaving", "out"}
  <2>1. Stages[s] # "out" BY <1>2, StagesAre, StageMoves
  <2>2. \/ Stages' = [Stages EXCEPT ![s] = "leaving"]
        \/ Stages' = [Stages EXCEPT ![s] = "out"]
    BY <1>2, StageMoves
  <2>3. Service!Leave(s)
    BY <2>1, <2>2 DEF Service!Leave, Service!MoveTo, Stages, SameData
  <2> QED BY <2>3 DEF ServiceSteps, Service!Next
<1> QED BY <1>1, <1>2

\* Nothing but the place of one process changes, outside of service or within a stage.
LEMMA QuietSteps ==
    ASSUME LockIInv, NEW p \in Processes,
           \/ ReadTarget(p) \/ EnsureUnchanged(p) \/ Crash(p)
           \/ p \in Servers \cup Doctors /\ (LockShared(p) \/ ReadSource(p) \/ Validate(p))
           \/ p \in Doctors \cup Keepers /\ Release(p)
           \/ p \in Servers /\ (LockInstance(p) \/ TruncatePid(p) \/ WritePid(p) \/ Prepare(p))
           \/ p \in Servers /\ (Stop(p) \/ ClosePool(p) \/ DropPid(p) \/ Unlock(p))
           \/ p \in Doctors /\ (ProbeReads(p) \/ ProbeRollback(p))
           \/ p \in Keepers /\ LockExclusive(p)
    PROVE  ServiceSteps
<1>1. SameData
  BY DEF SameData, ReadTarget, EnsureUnchanged, Crash, LockShared, ReadSource, Validate, Release,
         LockInstance, TruncatePid, WritePid, Prepare, Stop, ClosePool, DropPid, Unlock,
         ProbeReads, ProbeRollback, LockExclusive
<1>2. CASE pc' = pc
  <2>1. Stages' = Stages BY <1>2 DEF Stages, StageAt
  <2> QED BY <1>1, <2>1 DEF ServiceSteps
<1>3. CASE p \in Doctors \cup Keepers /\ pc' # pc
  <2>1. \E l : GoTo(p, l)
    BY <1>3, StartupAssumption
       DEF ReadTarget, EnsureUnchanged, Crash, Exit, LockShared, ReadSource, Validate, Release,
           ProbeReads, ProbeRollback, LockExclusive, StartSnapshot
  <2> QED BY <1>1, <1>3, <2>1, StagesStay DEF ServiceSteps
<1>4. ASSUME p \in Servers, pc' # pc PROVE ServiceSteps
  <2>1. \E l : /\ GoTo(p, l)
               /\ \/ StageAt(l) = StageAt(pc[p])
                  \/ pc[p] \in InService /\ StageAt(l) \in {"leaving", "out"}
    <3>0. p \notin Doctors /\ p \notin Keepers BY <1>4, StartupAssumption
    <3>1. /\ "down" \notin InService /\ "instance" \notin InService
          /\ "maintenance" \notin InService /\ "shared" \notin InService
          /\ "unchanged" \notin InService /\ "runtime" \notin InService
          /\ "unlockRest" \notin InService
      BY DEF InService, Initialising
    <3>2. {"snapshot", "validate", "serving", "closing", "dropPid", "unlock"} \subseteq InService
      BY DEF InService
    <3>3. CASE Crash(p)
      <4>1. GoTo(p, "down") BY <3>3 DEF Crash, Exit
      <4> QED BY <3>1, <4>1, StagesAre
    <3>4. CASE ReadTarget(p) \/ LockInstance(p) \/ LockShared(p) \/ EnsureUnchanged(p)
      <4>1. pc[p] \in {"down", "instance", "maintenance", "shared", "unchanged"}
        BY <3>4 DEF ReadTarget, LockInstance, LockShared, EnsureUnchanged
      <4>2. \E l \in {"instance", "maintenance", "unchanged", "runtime", "down"} : GoTo(p, l)
        BY <3>0, <3>4 DEF ReadTarget, LockInstance, LockShared, EnsureUnchanged, Exit
      <4> QED BY <3>1, <4>1, <4>2, StagesAre
    <3>5. CASE TruncatePid(p) \/ WritePid(p) \/ Prepare(p)
      <4>1. pc[p] \in {"truncate", "writePid", "prepare"}
        BY <3>5 DEF TruncatePid, WritePid, Prepare
      <4>2. \E l \in {"writePid", "prepare", "create", "snapshot"} : GoTo(p, l)
        BY <3>5 DEF TruncatePid, WritePid, Prepare, StartSnapshot
      <4> QED BY <4>1, <4>2, StagesAre
    <3>6. CASE ReadSource(p) \/ Validate(p)
      <4>1. pc[p] \in {"snapshot", "validate"} BY <3>6 DEF ReadSource, Validate
      <4>2. \E l \in {"validate", "closing", "dropPid", "connect", "validateOpen"} : GoTo(p, l)
        BY <1>4, <3>0, <3>6 DEF ReadSource, Validate, AfterFailure
      <4> QED BY <3>2, <4>1, <4>2, StagesAre
    <3>7. CASE Stop(p) \/ ClosePool(p) \/ DropPid(p)
      <4>1. pc[p] \in {"serving", "closing", "dropPid"} BY <3>7 DEF Stop, ClosePool, DropPid
      <4>2. \E l \in {"closing", "dropPid", "unlock"} : GoTo(p, l)
        BY <3>7 DEF Stop, ClosePool, DropPid
      <4> QED BY <3>2, <4>1, <4>2, StagesAre
    <3>8. CASE Unlock(p)
      <4>1. pc[p] \in {"unlock", "unlockRest"} BY <3>8 DEF Unlock
      <4>2. \E l \in {"unlockRest", "down"} : GoTo(p, l) BY <3>8 DEF Unlock, Exit
      <4> QED BY <3>1, <3>2, <4>1, <4>2, StagesAre
    <3> QED BY <3>0, <3>3, <3>4, <3>5, <3>6, <3>7, <3>8
  <2> QED BY <1>1, <1>4, <2>1, ServerMoves
<1> QED BY <1>2, <1>3, <1>4 DEF Processes

LEMMA EnterStep ==
    ASSUME LockIInv, NEW s \in Servers, LockRuntime(s)
    PROVE  ServiceSteps
<1>1. SameData /\ pc[s] = "runtime" /\ pc[s] \notin InService
  BY DEF LockRuntime, SameData, InService, Initialising
<1>2. CASE GoTo(s, "truncate")
  <2>1. \A t \in Servers : pc[t] \notin InService
    <3>1. s \in instance BY <1>1 DEF LockIInv, ServerLocks, Holding
    <3>2. \A t \in Servers : pc[t] \in InService => t \in instance
      BY DEF LockIInv, ServerLocks, Holding
    <3> QED BY <1>1, <3>1, <3>2 DEF LockIInv
  <2>2. \A t \in Servers : Stages[t] = "out" BY <2>1, StagesAre DEF Stages
  <2>3. Stages' = [Stages EXCEPT ![s] = "starting"] BY <1>2, StageMoves, StagesAre
  <2>4. Service!Enter(s)
    BY <1>1, <2>2, <2>3 DEF Service!Enter, Service!MoveTo, Stages, SameData
  <2> QED BY <2>4 DEF ServiceSteps, Service!Next
<1>3. CASE Exit(s)
  <2>1. GoTo(s, "down") /\ StageAt("down") = StageAt(pc[s])
    BY <1>1, <1>3, StagesAre DEF Exit, InService, Initialising
  <2> QED BY <1>1, <2>1, ServerMoves
<1> QED BY <1>2, <1>3 DEF LockRuntime

LEMMA InitialiseService ==
    ASSUME LockIInv, DataIInv, LifeIInv, NEW s \in Servers,
           \/ Create(s) \/ BeginSchema(s) \/ WriteSchema(s) \/ SyncDatabase(s)
           \/ InitialisationFails(s) \/ RemoveGeneration(s)
    PROVE  ServiceSteps
<1>1. /\ files \in Files /\ FilesIInv /\ ServerData(s) /\ files.wal \in Wal
      /\ files.inode \in 0..MaxInodes
  BY DEF DataIInv, FilesIInv, Files
<1>2. Stages[s] = StageAt(pc[s]) BY DEF Stages
<1>3. Blank = Service!State(0) /\ At(1) = Service!State(1)
  BY DEF Service!State, Blank, At
<1>4. files.inode = 0 => Current(files) = Blank
  BY <1>1 DEF FilesIInv, Current, Opened, Main
<1>5. CASE Create(s)
  <2>1. pc[s] = "create" /\ pc[s] \in InService BY <1>5 DEF Create, InService
  <2>2. CASE GoTo(s, "begin") /\ files.inode = 0 /\ files.born < MaxInodes
             /\ files' = NewFile(files, Blank)
    <3>1. /\ files'.inode # 0 /\ Main(files') = Blank /\ files'.wal = files.wal
      BY <1>1, <2>2, NewFileIs, Contents
    <3>2. Current(files') = Current(files)
      BY <1>1, <1>4, <2>2, <3>1 DEF Current, Opened, FilesIInv
    <3>3. Stages[s] = "starting" /\ Stages' = [Stages EXCEPT ![s] = "creating"]
      BY <1>2, <2>1, <2>2, StageMoves, StagesAre
    <3>4. Service!Create(s)
      BY <2>2, <3>1, <3>2, <3>3 DEF Service!Create, Service!MoveTo, Stages
    <3> QED BY <3>4 DEF ServiceSteps, Service!Next
  <2>3. CASE GoTo(s, "dropPid") /\ files' = files
    <3>1. SameData BY <2>3 DEF SameData
    <3> QED BY <2>1, <2>3, <3>1, StagesAre, ServerMoves
  <2> QED BY <1>5, <2>2, <2>3 DEF Create
<1>6. CASE BeginSchema(s)
  <2>1. pc[s] = "begin" BY <1>6 DEF BeginSchema
  <2>2. Main(files) = Blank /\ files.wal.commit = 0
    BY <1>1, <2>1 DEF LifeIInv, Beginning, ServerData, Initialising
  <2>3. files'.journal /\ files'.inode = files.inode
    BY <1>1, <1>6 DEF BeginSchema, Files
  <2>4. SameData BY <2>2, <2>3 DEF SameData, Current, Opened
  <2>5. GoTo(s, "schema") BY <1>6 DEF BeginSchema
  <2> QED BY <2>1, <2>4, <2>5, StagesAre, ServerMoves
<1>7. CASE WriteSchema(s)
  <2>1. pc[s] = "schema" /\ files.journal /\ files.inode # 0 /\ files.wal.commit = 0
    BY <1>1, <1>7 DEF WriteSchema, ServerData, Initialising
  <2>2. Current(files) = Blank BY <2>1 DEF Current, Opened
  <2>3. CASE files' = FirstPageWritten(files, 1) /\ pc' = pc
    <3>1. files'.journal /\ files'.inode = files.inode
      BY <1>1, <2>1, <2>3, FirstPageIs, Contents
    <3>2. SameData BY <2>2, <3>1 DEF SameData, Current, Opened
    <3>3. Stages' = Stages BY <2>3 DEF Stages, StageAt
    <3> QED BY <3>2, <3>3 DEF ServiceSteps
  <2>4. CASE Main(files) = At(1) /\ files' = [files EXCEPT !.journal = FALSE]
             /\ GoTo(s, "sync")
    <3>1. /\ ~files'.journal /\ files'.inode = files.inode /\ files'.wal = files.wal
          /\ files'.pages = files.pages
      BY <1>1, <2>4 DEF Files
    <3>2. Current(files') = At(1) BY <2>1, <2>4, <3>1 DEF Current, Opened, Main
    <3>3. Stages[s] = "creating" /\ Stages' = [Stages EXCEPT ![s] = "creating"]
      BY <1>2, <2>1, <2>4, StageMoves, StagesAre
    <3>4. Stages' = Stages BY <3>3 DEF Stages
    <3>5. Service!Initialise(s)
      BY <1>3, <2>1, <2>2, <3>1, <3>2, <3>3, <3>4 DEF Service!Initialise, Stages
    <3> QED BY <3>5 DEF ServiceSteps, Service!Next
  <2> QED BY <1>7, <2>3, <2>4 DEF WriteSchema
<1>8. CASE SyncDatabase(s)
  <2>1. pc[s] = "sync" /\ files' = files /\ GoTo(s, "connect") BY <1>8 DEF SyncDatabase
  <2>2. Current(files) = At(1)
    BY <1>1, <2>1 DEF ServerData, Initialising, Current, Opened
  <2>3. Stages[s] = "creating" /\ Stages' = [Stages EXCEPT ![s] = "starting"]
    BY <1>2, <2>1, StageMoves, StagesAre
  <2>4. Service!Initialised(s)
    BY <1>3, <2>1, <2>2, <2>3 DEF Service!Initialised, Service!MoveTo, Stages
  <2> QED BY <2>4 DEF ServiceSteps, Service!Next
<1>9. CASE InitialisationFails(s)
  <2>1. /\ pc[s] \in {"begin", "schema", "sync"} /\ GoTo(s, "remove")
        /\ files' = files \/ (pc[s] = "schema" /\ files' = RolledBack(files))
    BY <1>9 DEF InitialisationFails
  <2>2. SameData
    <3>1. CASE files' = files BY <3>1 DEF SameData
    <3>2. CASE pc[s] = "schema" /\ files' = RolledBack(files)
      <4>1. files.journal /\ files.inode # 0 /\ files.wal.commit = 0
        BY <1>1, <3>2 DEF ServerData, Initialising
      <4>2. /\ Main(files') = Blank /\ files'.wal = files.wal /\ ~files'.journal
            /\ files'.inode = files.inode
        BY <1>1, <3>2, <4>1, RolledBackIs
      <4> QED BY <4>1, <4>2 DEF SameData, Current, Opened
    <3> QED BY <2>1, <3>1, <3>2
  <2> QED BY <2>1, <2>2, StagesAre, ServerMoves
<1>10. CASE RemoveGeneration(s)
  <2>1. CASE /\ pc[s] = "remove" /\ files' = [files EXCEPT !.inode = 0]
             /\ GoTo(s, "removeSidecars")
    <3>1. files.wal.commit = 0 BY <1>1, <2>1 DEF ServerData, Initialising
    <3>2. files'.inode = 0 /\ files'.wal = files.wal BY <1>1, <2>1 DEF Files
    <3>3. Current(files') = Blank BY <3>1, <3>2 DEF Current, Opened, Main
    <3>4. Stages[s] = "creating" /\ Stages' = [Stages EXCEPT ![s] = "leaving"]
      BY <1>2, <2>1, StageMoves, StagesAre
    <3>5. Service!Discard(s)
      BY <1>3, <3>2, <3>3, <3>4 DEF Service!Discard, Service!MoveTo, Stages
    <3> QED BY <3>5 DEF ServiceSteps, Service!Next
  <2>2. CASE /\ pc[s] = "removeSidecars"
             /\ files' = [files EXCEPT !.wal = NoWal, !.journal = FALSE]
             /\ GoTo(s, "dropPid")
    <3>1. files.inode = 0 BY <1>1, <2>2 DEF ServerData
    <3>2. files'.inode = 0 /\ files'.wal = NoWal BY <1>1, <2>2, <3>1 DEF Files
    <3>3. SameData BY <1>4, <3>1, <3>2, Walls DEF SameData, Current, Opened, Main
    <3> QED BY <2>2, <3>3, StagesAre, ServerMoves
  <2> QED BY <1>10, <2>1, <2>2 DEF RemoveGeneration
<1> QED BY <1>5, <1>6, <1>7, <1>8, <1>9, <1>10

LEMMA OpenService ==
    ASSUME LockIInv, DataIInv, NEW s \in Servers, Connect(s) \/ ValidateOpen(s)
    PROVE  ServiceSteps
<1>1. /\ files \in Files /\ ServerData(s) /\ files.wal \in Wal
  BY DEF DataIInv, FilesIInv, Files
<1>2. CASE Connect(s)
  <2>1. pc[s] = "connect" /\ pc[s] \in InService BY <1>2 DEF Connect, InService
  <2>2. CASE files' = [files EXCEPT !.wal.tail = 0] /\ GoTo(s, "snapshot")
    <3>1. /\ files'.wal.commit = files.wal.commit /\ files'.inode = files.inode
          /\ files'.pages = files.pages /\ files'.journal = files.journal
      BY <1>1, <2>2 DEF Files, Wal
    <3>2. SameData BY <3>1 DEF SameData, Current, Opened, Main
    <3> QED BY <2>1, <2>2, <3>2, StagesAre, ServerMoves
  <2>3. CASE files' = files /\ GoTo(s, "dropPid")
    <3>1. SameData BY <2>3 DEF SameData
    <3> QED BY <2>1, <2>3, <3>1, StagesAre, ServerMoves
  <2> QED BY <1>2, <2>2, <2>3 DEF Connect, StartSnapshot
<1>3. CASE ValidateOpen(s)
  <2>1. /\ pc[s] = "validateOpen" /\ pc[s] \in InService /\ SameData
    BY <1>3 DEF ValidateOpen, InService, SameData
  <2>2. CASE GoTo(s, "serving") /\ files.inode # 0
    <3>1. Current(files) # Service!State(0)
      <4>1. Accepted(Current(files)) BY <1>1, <2>1 DEF ServerData
      <4>2. Service!State(0) = Blank BY DEF Service!State, Blank
      <4> QED BY <4>1, <4>2, Contents
    <3>2. Stages[s] = "starting" /\ Stages' = [Stages EXCEPT ![s] = "serving"]
      BY <2>1, <2>2, StageMoves, StagesAre
    <3>3. Service!Serve(s)
      BY <2>1, <2>2, <3>1, <3>2 DEF Service!Serve, Service!MoveTo, Stages, SameData
    <3> QED BY <3>3 DEF ServiceSteps, Service!Next
  <2>3. CASE GoTo(s, "closing") BY <2>1, <2>3, StagesAre, ServerMoves
  <2> QED BY <1>3, <2>2, <2>3 DEF ValidateOpen
<1> QED BY <1>2, <1>3

LEMMA CommitStep ==
    ASSUME LockIInv, DataIInv, NEW s \in Servers, WriteFrame(s)
    PROVE  ServiceSteps
<1>1. /\ files \in Files /\ FilesIInv /\ ServerData(s) /\ files.wal \in Wal
      /\ pc[s] = "serving" /\ pc' = pc
  BY DEF DataIInv, FilesIInv, Files, WriteFrame
<1>2. ~files.journal /\ Accepted(Current(files)) BY <1>1, AcceptedWhen DEF ServerData
<1>3. PICK v \in Versions : Current(files) = At(v)
  <2>1. files.wal.commit \in Versions BY <1>1 DEF Wal
  <2> QED BY <1>1, <1>2, <2>1 DEF FilesIInv, Current, Opened, Whole
<1>4. 1 \in Pages /\ Current(files)[1] = v /\ v \in Nat
  BY <1>3, FilesAssumption DEF Pages, At, Versions
<1>5. Stages' = Stages BY <1>1 DEF Stages, StageAt
<1>6. CASE files' = [files EXCEPT !.wal = [commit |-> Current(files)[1] + 1, tail |-> 0]]
  <2>1. /\ files'.inode = files.inode /\ files'.wal.commit = v + 1
        /\ files'.journal = files.journal
    BY <1>1, <1>4, <1>6 DEF Files
  <2>2. Current(files') = At(v + 1) BY <1>2, <1>4, <2>1 DEF Current, Opened
  <2>3. /\ Current(files) = Service!State(Current(files)[1])
        /\ Current(files') = Service!State(Current(files)[1] + 1)
    BY <1>3, <1>4, <2>2 DEF Service!State, At
  <2>4. Stages[s] = "serving" BY <1>1, StagesAre DEF Stages
  <2>5. Service!Commit(s)
    BY <1>4, <1>5, <2>1, <2>3, <2>4 DEF Service!Commit, Stages
  <2> QED BY <2>5 DEF ServiceSteps, Service!Next
<1>7. CASE files' = [files EXCEPT !.wal.tail = files.wal.tail + 1]
  <2>1. /\ files'.wal.commit = files.wal.commit /\ files'.inode = files.inode
        /\ files'.pages = files.pages /\ files'.journal = files.journal
    BY <1>1, <1>7 DEF Files, Wal
  <2>2. SameData BY <2>1 DEF SameData, Current, Opened, Main
  <2> QED BY <1>5, <2>2 DEF ServiceSteps
<1> QED BY <1>6, <1>7 DEF WriteFrame

\* A checkpoint, and the probe of a doctor.
LEMMA KeepsData ==
    ASSUME LockIInv, DataIInv, NEW p \in Servers \cup Doctors,
           Checkpoint(p) \/ (p \in Doctors /\ ProbeWrite(p))
    PROVE  ServiceSteps
<1>1. files \in Files /\ FilesIInv BY DEF DataIInv, FilesIInv
<1>2. CASE Checkpoint(p)
  <2>1. Kept /\ files.wal.commit # 0 /\ pc' = pc BY <1>2, CheckpointData DEF Checkpoint
  <2>2. SameData BY <1>1, <2>1 DEF FilesIInv, Kept, SameData
  <2>3. Stages' = Stages BY <2>1 DEF Stages, StageAt
  <2> QED BY <2>2, <2>3 DEF ServiceSteps
<1>3. CASE p \in Doctors /\ ProbeWrite(p)
  <2>1. SameData
    <3>1. CASE files' = files BY <3>1 DEF SameData
    <3>2. CASE files.journal /\ files.inode # 0 /\ files' = RolledBack(files)
      <4>1. /\ Main(files') = Blank /\ files'.wal = files.wal /\ ~files'.journal
            /\ files'.inode = files.inode /\ files.wal.commit = 0
        BY <1>1, <3>2, RolledBackIs DEF FilesIInv
      <4> QED BY <3>2, <4>1 DEF SameData, Current, Opened
    <3> QED BY <1>3, <3>1, <3>2 DEF ProbeWrite
  <2>2. \E l : GoTo(p, l) BY <1>3 DEF ProbeWrite
  <2>3. Stages' = Stages BY <1>3, <2>2, StagesStay
  <2> QED BY <2>1, <2>3 DEF ServiceSteps
<1> QED BY <1>2, <1>3

LEMMA ReplaceStep ==
    ASSUME LockIInv, DataIInv, LifeIInv, NEW k \in Keepers, Restore(k)
    PROVE  ServiceSteps
<1>1. files \in Files /\ GoTo(k, "release") BY DEF DataIInv, FilesIInv, Restore
<1>2. Stages' = Stages BY <1>1, StagesStay
<1>3. CASE files' = files BY <1>2, <1>3 DEF ServiceSteps, SameData
<1>4. ASSUME NEW v \in {0, 1}, files.born < MaxInodes,
             files' = [NewFile(files, At(v)) EXCEPT !.wal = NoWal, !.journal = FALSE]
      PROVE  ServiceSteps
  <2>1. /\ NewFile(files, At(v)) \in Files /\ Main(NewFile(files, At(v))) = At(v)
        /\ NewFile(files, At(v)).inode = files.born + 1
    BY <1>1, <1>4, NewFileIs, Contents DEF NewFile, Files
  <2>2. /\ files'.inode = files.born + 1 /\ Current(files') = At(v)
    BY <1>4, <2>1, Walls DEF Files, Current, Opened, Main
  <2>3. files'.inode \notin {0, files.inode} BY <1>1, <2>2, BornIs DEF LifeIInv
  <2>4. At(v) = Service!State(v) BY DEF At, Service!State
  <2>5. \A s \in Servers : Stages[s] = "out"
    <3>1. exclusive # {} BY DEF Restore, LockIInv, KeeperLocks
    <3>2. \A s \in Servers : pc[s] \notin InService
      BY <3>1 DEF LockIInv, ServerLocks, Sharing
    <3> QED BY <3>2, StagesAre DEF Stages
  <2>6. Service!Replace
    BY <1>2, <2>2, <2>3, <2>4, <2>5 DEF Service!Replace, Stages
  <2> QED BY <2>6 DEF ServiceSteps, Service!Next
<1> QED BY <1>3, <1>4 DEF Restore

LEMMA ServiceStep == LockIInv /\ DataIInv /\ LifeIInv /\ [Next]_vars => ServiceSteps
<1> SUFFICES ASSUME LockIInv, DataIInv, LifeIInv, [Next]_vars PROVE ServiceSteps
  OBVIOUS
<1>1. CASE UNCHANGED vars
  <2>1. Stages' = Stages /\ SameData BY <1>1 DEF vars, Stages, StageAt, SameData
  <2> QED BY <2>1 DEF ServiceSteps
<1>2. ASSUME NEW p \in Processes, ReadTarget(p) \/ EnsureUnchanged(p) \/ Crash(p)
      PROVE  ServiceSteps
  BY <1>2, QuietSteps
<1>3. ASSUME NEW p \in Servers \cup Doctors,
             LockShared(p) \/ ReadSource(p) \/ Validate(p) \/ Checkpoint(p)
      PROVE  ServiceSteps
  BY <1>3, QuietSteps, KeepsData DEF Processes
<1>4. ASSUME NEW p \in Doctors \cup Keepers, Release(p) PROVE ServiceSteps
  BY <1>4, QuietSteps DEF Processes
<1>5. ASSUME NEW s \in Servers, ServerStep(s) PROVE ServiceSteps
  <2>1. s \in Processes BY DEF Processes
  <2> QED BY <1>5, <2>1, QuietSteps, EnterStep, InitialiseService, OpenService, CommitStep
          DEF ServerStep
<1>6. ASSUME NEW d \in Doctors, DoctorStep(d) PROVE ServiceSteps
  BY <1>6, QuietSteps, KeepsData DEF DoctorStep, Processes
<1>7. ASSUME NEW k \in Keepers, LockExclusive(k) \/ Restore(k) PROVE ServiceSteps
  BY <1>7, QuietSteps, ReplaceStep DEF Processes
<1> QED BY <1>1, <1>2, <1>3, <1>4, <1>5, <1>6, <1>7 DEF Next

\* For any number of servers, doctors, pages and crashes: the system calls of a server's
\* start, work and end keep to the life of a database that DatabaseService promises;
\* what was committed is served by the next server, whichever way the last one ended
\* (ApplicationLock::acquire, open_pool, serve, doctor::run).
THEOREM ServersImplementService == Spec => ImplementsService
<1>1. Init => Service!Init
  <2> SUFFICES ASSUME Init PROVE Service!Init
    OBVIOUS
  <2>1. files.inode = 0 /\ Current(files) = Blank
    BY DEF Init, NoFiles, NoWal, Current, Opened, Main
  <2>2. Blank = Service!State(0) BY DEF Service!State, Blank
  <2>3. \A s \in Servers : StageAt(pc[s]) = "out"
    BY StagesAre DEF Init, Processes, InService, Initialising
  <2> QED BY <2>1, <2>2, <2>3 DEF Service!Init
<1>2. LockIInv /\ DataIInv /\ LifeIInv /\ [Next]_vars
        => [Service!Next]_<<[s \in Servers |-> StageAt(pc[s])], files.inode, Current(files)>>
  <2> SUFFICES ASSUME LockIInv, DataIInv, LifeIInv, [Next]_vars
               PROVE  \/ Service!Next
                      \/ UNCHANGED <<[s \in Servers |-> StageAt(pc[s])], files.inode,
                                     Current(files)>>
    OBVIOUS
  <2> QED BY ServiceStep DEF ServiceSteps, Stages, SameData
<1>3. Init => LockIInv /\ DataIInv /\ LifeIInv
  BY LocksInitially, DataInitially, LifeInitially
<1>4. LockIInv /\ DataIInv /\ LifeIInv /\ [Next]_vars => LockIInv' /\ DataIInv' /\ LifeIInv'
  BY LocksStep, DataStep, LifeStep
<1> QED BY <1>1, <1>2, <1>3, <1>4, PTL
        DEF Spec, ImplementsService, Service!Spec, Service!vars

-----------------------------------------------------------------------------
(* Types.                                                                  *)

LEMMA ExitTypes ==
    ASSUME TypeOK, NEW p \in Processes, Exit(p)
    PROVE  /\ instance' \in SUBSET Servers /\ shared' \in SUBSET (Servers \cup Doctors)
           /\ exclusive' \in SUBSET Keepers /\ runtime' \in [Dirs -> SUBSET Servers]
           /\ pc' \in [Processes -> Locations]
           /\ target' \in [Processes -> 0..MaxInodes]
           /\ dir' \in [Servers -> Dirs \cup {NoDir}]
<1>1. "down" \in Locations /\ 0 \in 0..MaxInodes BY FilesAssumption DEF Locations
<1>2. pc' \in [Processes -> Locations] BY <1>1 DEF TypeOK, Exit, GoTo
<1>3. target' \in [Processes -> 0..MaxInodes] BY <1>1 DEF TypeOK, Exit
<1>4. dir' \in [Servers -> Dirs \cup {NoDir}] BY DEF TypeOK, Exit
<1>5. runtime' \in [Dirs -> SUBSET Servers] BY DEF TypeOK, Exit
<1> QED BY <1>2, <1>3, <1>4, <1>5 DEF TypeOK, Exit

\* The types of what LockIInv and DataIInv leave open.
RestTypes ==
    /\ instance \in SUBSET Servers
    /\ shared \in SUBSET (Servers \cup Doctors)
    /\ exclusive \in SUBSET Keepers
    /\ runtime \in [Dirs -> SUBSET Servers]
    /\ pidFile \in [Dirs -> Servers \cup {NoPid, Truncated}]
    /\ target \in [Processes -> 0..MaxInodes]
    /\ opened \in [Servers \cup Doctors -> 0..MaxInodes]
    /\ faults \in 0..MaxFaults

LEMMA AllTypes == LockIInv /\ DataIInv /\ RestTypes => TypeOK
  BY DEF LockIInv, LockTypes, DataIInv, FilesIInv, CopiesIInv, RestTypes, TypeOK

LEMMA TypesStep == LockIInv /\ DataIInv /\ RestTypes /\ [Next]_vars => RestTypes'
<1> SUFFICES ASSUME LockIInv, DataIInv, RestTypes, [Next]_vars PROVE RestTypes'
  OBVIOUS
<1> USE DEF locks, private
<1>1. TypeOK BY AllTypes
<1>2. files.inode \in 0..MaxInodes /\ 0 \in 0..MaxInodes /\ MaxFaults \in Nat
  BY <1>1, FilesAssumption, StartupAssumption DEF TypeOK, Files
<1>3. CASE UNCHANGED vars BY <1>3 DEF vars, RestTypes
<1>4. ASSUME faults < MaxFaults, faults' = faults + 1 PROVE faults' \in 0..MaxFaults
  BY <1>2, <1>4 DEF RestTypes
<1>5. ASSUME NEW p \in Processes, ReadTarget(p) PROVE RestTypes'
  <2>1. target' \in [Processes -> 0..MaxInodes] BY <1>2, <1>5 DEF ReadTarget, RestTypes
  <2>2. faults' \in 0..MaxFaults BY <1>4, <1>5 DEF ReadTarget, RestTypes
  <2> QED BY <1>5, <2>1, <2>2 DEF ReadTarget, RestTypes
<1>6. ASSUME NEW p \in Processes, EnsureUnchanged(p) PROVE RestTypes'
  <2>1. CASE Exit(p) BY <1>1, <1>6, <2>1, ExitTypes DEF EnsureUnchanged, RestTypes
  <2>2. CASE UNCHANGED locks /\ (target' = target \/ target' = [target EXCEPT ![p] = 0])
    <3>1. target' \in [Processes -> 0..MaxInodes] BY <1>2, <2>2 DEF RestTypes
    <3> QED BY <1>6, <2>2, <3>1 DEF EnsureUnchanged, RestTypes
  <2> QED BY <1>6, <2>1, <2>2 DEF EnsureUnchanged
<1>7. ASSUME NEW p \in Processes, Crash(p) \/ Release(p) PROVE RestTypes'
  <2>1. Exit(p) /\ pidFile' = pidFile BY <1>7 DEF Crash, Release
  <2>2. opened' \in [Servers \cup Doctors -> 0..MaxInodes]
    BY <1>2, <1>7 DEF Crash, Release, RestTypes
  <2>3. faults' \in 0..MaxFaults BY <1>4, <1>7 DEF Crash, Release, RestTypes
  <2> QED BY <1>1, <2>1, <2>2, <2>3, ExitTypes DEF RestTypes
<1>8. ASSUME NEW p \in Servers \cup Doctors,
             LockShared(p) \/ ReadSource(p) \/ Validate(p) \/ Checkpoint(p)
      PROVE  RestTypes'
  <2>1. p \in Processes BY DEF Processes
  <2>2. CASE LockShared(p)
    <3>1. CASE Exit(p) BY <1>1, <2>1, <2>2, <3>1, ExitTypes DEF LockShared, RestTypes
    <3>2. CASE shared' = shared \cup {p} /\ UNCHANGED <<instance, exclusive, runtime, target, dir>>
      BY <2>2, <3>2 DEF LockShared, RestTypes
    <3> QED BY <2>2, <3>1, <3>2 DEF LockShared
  <2> QED BY <1>8, <2>2 DEF ReadSource, Validate, Checkpoint, RestTypes
<1>9. ASSUME NEW s \in Servers, ServerStep(s) PROVE RestTypes'
  <2>1. s \in Processes BY DEF Processes
  <2>2. CASE LockInstance(s)
    <3>1. CASE Exit(s) BY <1>1, <2>1, <2>2, <3>1, ExitTypes DEF LockInstance, RestTypes
    <3>2. CASE instance' = {s} /\ UNCHANGED <<shared, exclusive, runtime, target, dir>>
      BY <2>2, <3>2 DEF LockInstance, RestTypes
    <3> QED BY <2>2, <3>1, <3>2 DEF LockInstance
  <2>3. CASE LockRuntime(s)
    <3>1. CASE Exit(s) BY <1>1, <2>1, <2>3, <3>1, ExitTypes DEF LockRuntime, RestTypes
    <3>2. CASE runtime' = [runtime EXCEPT ![dir[s]] = {s}]
               /\ UNCHANGED <<instance, shared, exclusive, target, dir>>
      <4>1. runtime' \in [Dirs -> SUBSET Servers] BY <3>2 DEF RestTypes
      <4> QED BY <2>3, <3>2, <4>1 DEF LockRuntime, RestTypes
    <3> QED BY <2>3, <3>1, <3>2 DEF LockRuntime
  <2>4. CASE TruncatePid(s) \/ WritePid(s) \/ DropPid(s)
    <3>1. pidFile' \in [Dirs -> Servers \cup {NoPid, Truncated}]
      BY <2>4 DEF TruncatePid, WritePid, DropPid, RestTypes
    <3> QED BY <2>4, <3>1 DEF TruncatePid, WritePid, DropPid, RestTypes
  <2>5. CASE Connect(s) \/ ClosePool(s)
    <3>1. opened' \in [Servers \cup Doctors -> 0..MaxInodes]
      BY <1>2, <2>5 DEF Connect, ClosePool, RestTypes
    <3> QED BY <2>5, <3>1 DEF Connect, ClosePool, RestTypes
  <2>6. CASE InitialisationFails(s)
    <3>1. faults' \in 0..MaxFaults BY <1>4, <2>6 DEF InitialisationFails
    <3> QED BY <2>6, <3>1 DEF InitialisationFails, RestTypes
  <2>7. CASE \/ Prepare(s) \/ Create(s) \/ BeginSchema(s) \/ WriteSchema(s) \/ SyncDatabase(s)
             \/ RemoveGeneration(s) \/ ValidateOpen(s) \/ WriteFrame(s) \/ Stop(s)
    BY <2>7 DEF Prepare, Create, BeginSchema, WriteSchema, SyncDatabase, RemoveGeneration,
                ValidateOpen, WriteFrame, Stop, RestTypes
  <2>8. CASE Unlock(s)
    <3>1. CASE Exit(s) BY <1>1, <2>1, <2>8, <3>1, ExitTypes DEF Unlock, RestTypes
    <3>2. CASE instance' = instance \ {s} /\ UNCHANGED <<shared, exclusive, runtime, target, dir>>
      BY <2>8, <3>2 DEF Unlock, RestTypes
    <3> QED BY <2>8, <3>1, <3>2 DEF Unlock
  <2> QED BY <1>9, <2>2, <2>3, <2>4, <2>5, <2>6, <2>7, <2>8 DEF ServerStep
<1>10. ASSUME NEW d \in Doctors, DoctorStep(d) PROVE RestTypes'
  <2>1. opened' \in [Servers \cup Doctors -> 0..MaxInodes]
    BY <1>2, <1>10 DEF DoctorStep, ProbeReads, ProbeWrite, ProbeRollback, RestTypes
  <2> QED BY <1>10, <2>1 DEF DoctorStep, ProbeReads, ProbeWrite, ProbeRollback, RestTypes
<1>11. ASSUME NEW k \in Keepers, LockExclusive(k) \/ Restore(k) PROVE RestTypes'
  <2>1. k \in Processes BY DEF Processes
  <2>2. CASE LockExclusive(k)
    <3>1. CASE Exit(k) BY <1>1, <2>1, <2>2, <3>1, ExitTypes DEF LockExclusive, RestTypes
    <3>2. CASE exclusive' = {k} /\ UNCHANGED <<instance, shared, runtime, target, dir>>
      BY <2>2, <3>2 DEF LockExclusive, RestTypes
    <3> QED BY <2>2, <3>1, <3>2 DEF LockExclusive
  <2> QED BY <1>11, <2>2 DEF Restore, RestTypes
<1> QED BY <1>3, <1>5, <1>6, <1>7, <1>8, <1>9, <1>10, <1>11 DEF Next, Processes

\* Every process is at one of its places, locks are held by those who may take them,
\* and files and copies stay what the operators of DatabaseFiles are about
\* (ApplicationLock, ValidationSnapshot).
THEOREM StartupTypes == Spec => []TypeOK
<1>1. Init => RestTypes
  BY FilesAssumption, StartupAssumption DEF Init, RestTypes
<1>2. Init => LockIInv /\ DataIInv /\ RestTypes BY <1>1, LocksInitially, DataInitially
<1>3. LockIInv /\ DataIInv /\ RestTypes /\ [Next]_vars => LockIInv' /\ DataIInv' /\ RestTypes'
  BY LocksStep, DataStep, TypesStep
<1> QED BY <1>2, <1>3, AllTypes, PTL DEF Spec
=============================================================================
