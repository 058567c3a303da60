---------------------------- MODULE ServerStartup ----------------------------
(***************************************************************************)
(* Server processes, doctors and offline maintenance on one database:      *)
(* the locks and the PID file of src/src/runtime_lock.rs, the first        *)
(* initialisation and the validation of src/src/sqlite.rs, the order in    *)
(* which serve (src/src/main.rs) and doctor::run (src/src/doctor.rs)       *)
(* go through them.  A system call is an action, so processes interleave   *)
(* and crash between any two.                                              *)
(***************************************************************************)
EXTENDS DatabaseFiles

CONSTANTS
    Servers,      \* server processes, all configured with the same database
    Doctors,      \* doctor processes
    Keepers,      \* offline maintenance, which may replace the database
    Dirs,         \* runtime directories
    NoDir,        \* the directory of a server that is not running
    NoPid,        \* no PID file
    Truncated,    \* a PID file without a PID
    MaxFaults     \* bound: crashes and failed initialisations of servers, and runs
                  \* of maintenance

Processes == Servers \cup Doctors \cup Keepers

ASSUME StartupAssumption ==
    /\ Servers \cap Doctors = {} /\ Servers \cap Keepers = {} /\ Doctors \cap Keepers = {}
    /\ NoDir \notin Dirs
    /\ NoPid \notin Servers /\ Truncated \notin Servers /\ NoPid # Truncated
    /\ MaxFaults \in Nat

VARIABLES
    files,      \* the database generation at the configured path
    instance,   \* holders of the exclusive instance lock
    shared,     \* holders of the maintenance lock, shared
    exclusive,  \* holders of the maintenance lock, exclusive
    runtime,    \* holders of the exclusive lock of each runtime directory
    pidFile,    \* app.pid of each runtime directory
    pc,         \* where each process is
    target,     \* DatabaseTarget.initial_identity; 0 is None
    dir,        \* the runtime directory a server was started with
    opened,     \* the inode a process's connections have open; 0 is none
    snap,       \* a private copy being made
    faults      \* what MaxFaults bounds

locks == <<instance, shared, exclusive, runtime>>
private == <<target, dir, opened>>
vars == <<files, instance, shared, exclusive, runtime, pidFile, pc, target, dir, opened,
          snap, faults>>

-----------------------------------------------------------------------------
Initialising == {"begin", "schema", "sync", "remove", "removeSidecars"}
\* A server that has all its locks and may touch the database.
InService == {"truncate", "writePid", "prepare", "create", "snapshot", "validate", "connect",
              "validateOpen", "serving", "closing", "dropPid", "unlock"} \cup Initialising
Locations == {"down", "instance", "maintenance", "unchanged", "runtime", "unlockRest",
              "shared", "reads", "write", "rollback", "exclusive",
              "restore", "release"} \cup InService

TypeOK ==
    /\ files \in Files
    /\ instance \in SUBSET Servers
    /\ shared \in SUBSET (Servers \cup Doctors)
    /\ exclusive \in SUBSET Keepers
    /\ runtime \in [Dirs -> SUBSET Servers]
    /\ pidFile \in [Dirs -> Servers \cup {NoPid, Truncated}]
    /\ pc \in [Processes -> Locations]
    /\ target \in [Processes -> 0..MaxInodes]
    /\ dir \in [Servers -> Dirs \cup {NoDir}]
    /\ opened \in [Servers \cup Doctors -> 0..MaxInodes]
    /\ snap \in [Servers \cup Doctors -> Snapshot]
    /\ faults \in 0..MaxFaults

Init ==
    /\ files = NoFiles
    /\ instance = {} /\ shared = {} /\ exclusive = {}
    /\ runtime = [d \in Dirs |-> {}]
    /\ pidFile = [d \in Dirs |-> NoPid]
    /\ pc = [p \in Processes |-> "down"]
    /\ target = [p \in Processes |-> 0]
    /\ dir = [s \in Servers |-> NoDir]
    /\ opened = [p \in Servers \cup Doctors |-> 0]
    /\ snap = [p \in Servers \cup Doctors |-> NoSnapshot]
    /\ faults = 0

GoTo(p, l) == pc' = [pc EXCEPT ![p] = l]

\* A process ends.  Closing a File releases its flock: all that p holds.
Exit(p) ==
    /\ instance' = instance \ {p}
    /\ shared' = shared \ {p}
    /\ exclusive' = exclusive \ {p}
    /\ runtime' = [d \in Dirs |-> runtime[d] \ {p}]
    /\ target' = [target EXCEPT ![p] = 0]
    /\ dir' = IF p \in Servers THEN [dir EXCEPT ![p] = NoDir] ELSE dir
    /\ GoTo(p, "down")

-----------------------------------------------------------------------------
(* ApplicationLock::acquire.  flock is non-blocking: a lock that is taken  *)
(* ends the start, and what was acquired is released.                      *)

\* DatabaseTarget::from_url.
ReadTarget(p) ==
    /\ pc[p] = "down"
    /\ target' = [target EXCEPT ![p] = files.inode]
    /\ \/ /\ p \in Servers
          /\ GoTo(p, "instance")
          /\ UNCHANGED faults
       \/ /\ p \in Doctors
          /\ GoTo(p, "shared")
          /\ UNCHANGED faults
       \/ /\ p \in Keepers
          /\ faults < MaxFaults
          /\ faults' = faults + 1
          /\ GoTo(p, "exclusive")
    /\ UNCHANGED <<files, locks, pidFile, dir, opened, snap>>

\* Mutant of LockInstance: the lock is taken shared.
LockInstanceShared(s) ==
    /\ pc[s] = "instance"
    /\ instance' = instance \cup {s}
    /\ GoTo(s, "maintenance")
    /\ UNCHANGED <<files, shared, exclusive, runtime, pidFile, private, snap, faults>>

LockInstance(s) ==
    /\ pc[s] = "instance"
    /\ \/ /\ instance = {}
          /\ instance' = {s}
          /\ GoTo(s, "maintenance")
          /\ UNCHANGED <<shared, exclusive, runtime, target, dir>>
       \/ /\ instance # {}
          /\ Exit(s)
    /\ UNCHANGED <<files, pidFile, opened, snap, faults>>

\* The maintenance lock, shared: second lock of a server, only lock of a doctor.
LockShared(p) ==
    /\ pc[p] \in {"maintenance", "shared"}
    /\ \/ /\ exclusive = {}
          /\ shared' = shared \cup {p}
          /\ GoTo(p, "unchanged")
          /\ UNCHANGED <<instance, exclusive, runtime, target, dir>>
       \/ /\ exclusive # {}
          /\ Exit(p)
    /\ UNCHANGED <<files, pidFile, opened, snap, faults>>

\* Mutants of LockExclusive: the lock does not conflict with the servers' shared
\* lock; it is itself taken shared.
LockExclusiveBesideShared(k) ==
    /\ pc[k] = "exclusive"
    /\ exclusive' = {k}
    /\ GoTo(k, "unchanged")
    /\ UNCHANGED <<files, instance, shared, runtime, pidFile, private, snap, faults>>
LockExclusiveAsShared(k) ==
    /\ pc[k] = "exclusive"
    /\ shared' = shared \cup {k}
    /\ GoTo(k, "unchanged")
    /\ UNCHANGED <<files, instance, exclusive, runtime, pidFile, private, snap, faults>>

LockExclusive(k) ==
    /\ pc[k] = "exclusive"
    /\ \/ /\ shared \cup exclusive = {}
          /\ exclusive' = {k}
          /\ GoTo(k, "unchanged")
          /\ UNCHANGED <<instance, shared, runtime, target, dir>>
       \/ /\ shared \cup exclusive # {}
          /\ Exit(k)
    /\ UNCHANGED <<files, pidFile, opened, snap, faults>>

StartSnapshot(p) ==
    /\ snap' = [snap EXCEPT ![p] = NoSnapshot]
    /\ GoTo(p, "snapshot")

\* ValidationSnapshot is a temporary directory.
DropSnapshot(p) == snap' = [snap EXCEPT ![p] = NoSnapshot]

\* DatabaseTarget::ensure_unchanged.  A server, which may be configured with any
\* runtime directory, keeps the target; a doctor requires the file and copies it.
EnsureUnchanged(p) ==
    /\ pc[p] = "unchanged"
    /\ LET same == files.inode = target[p] IN
       \/ /\ same /\ p \in Servers
          /\ GoTo(p, "runtime")
          /\ \E d \in Dirs : dir' = [dir EXCEPT ![p] = d]
          /\ UNCHANGED <<locks, target, snap>>
       \/ /\ same /\ p \in Keepers
          /\ GoTo(p, "restore")
          /\ target' = [target EXCEPT ![p] = 0]
          /\ UNCHANGED <<locks, dir, snap>>
       \/ /\ same /\ p \in Doctors /\ files.inode # 0
          /\ StartSnapshot(p)
          /\ target' = [target EXCEPT ![p] = 0]
          /\ UNCHANGED <<locks, dir>>
       \/ /\ ~same \/ (p \in Doctors /\ files.inode = 0)
          /\ Exit(p)
          /\ UNCHANGED snap
    /\ UNCHANGED <<files, pidFile, opened, faults>>

LockRuntime(s) ==
    /\ pc[s] = "runtime"
    /\ \/ /\ runtime[dir[s]] = {}
          /\ runtime' = [runtime EXCEPT ![dir[s]] = {s}]
          /\ GoTo(s, "truncate")
          /\ UNCHANGED <<instance, shared, exclusive, target, dir>>
       \/ /\ runtime[dir[s]] # {}
          /\ Exit(s)
    /\ UNCHANGED <<files, pidFile, opened, snap, faults>>

\* Mutant of TruncatePid: a PID file that is there is kept.
TruncatePidIfAbsent(s) ==
    /\ pc[s] = "truncate"
    /\ \/ /\ pidFile[dir[s]] = NoPid
          /\ pidFile' = [pidFile EXCEPT ![dir[s]] = Truncated]
          /\ GoTo(s, "writePid")
       \/ /\ pidFile[dir[s]] # NoPid
          /\ GoTo(s, "prepare")
          /\ UNCHANGED pidFile
    /\ UNCHANGED <<files, locks, private, snap, faults>>

\* write_pid: set_len(0), then the PID.
TruncatePid(s) ==
    /\ pc[s] = "truncate"
    /\ pidFile' = [pidFile EXCEPT ![dir[s]] = Truncated]
    /\ GoTo(s, "writePid")
    /\ UNCHANGED <<files, locks, private, snap, faults>>

WritePid(s) ==
    /\ pc[s] = "writePid"
    /\ pidFile' = [pidFile EXCEPT ![dir[s]] = s]
    /\ GoTo(s, "prepare")
    /\ UNCHANGED <<files, locks, private, snap, faults>>

-----------------------------------------------------------------------------
(* open_pool: prepare_current_database, initialize_current_database.       *)

Prepare(s) ==
    /\ pc[s] = "prepare"
    /\ \/ /\ files.inode = 0
          /\ GoTo(s, "create")
          /\ UNCHANGED snap
       \/ /\ files.inode # 0
          /\ StartSnapshot(s)
    /\ UNCHANGED <<files, locks, pidFile, private, faults>>

\* create_new refuses a file that appeared since; nothing is cleaned up then.
Create(s) ==
    /\ pc[s] = "create"
    /\ \/ /\ files.inode = 0
          /\ files.born < MaxInodes
          /\ files' = NewFile(files, Blank)
          /\ GoTo(s, "begin")
       \/ /\ files.inode # 0
          /\ GoTo(s, "dropPid")
          /\ UNCHANGED files
    /\ UNCHANGED <<locks, pidFile, private, snap, faults>>

\* BEGIN IMMEDIATE ... COMMIT in the rollback-journal mode of a new file: the
\* journal, then the pages, then the journal's deletion, which commits.
BeginSchema(s) ==
    /\ pc[s] = "begin"
    /\ files' = [files EXCEPT !.journal = TRUE]
    /\ GoTo(s, "schema")
    /\ UNCHANGED <<locks, pidFile, private, snap, faults>>

WriteSchema(s) ==
    /\ pc[s] = "schema"
    /\ \/ /\ Main(files) # At(1)
          /\ files' = FirstPageWritten(files, 1)
          /\ UNCHANGED pc
       \/ /\ Main(files) = At(1)
          /\ files' = [files EXCEPT !.journal = FALSE]
          /\ GoTo(s, "sync")
    /\ UNCHANGED <<locks, pidFile, private, snap, faults>>

SyncDatabase(s) ==
    /\ pc[s] = "sync"
    /\ GoTo(s, "connect")
    /\ UNCHANGED <<files, locks, pidFile, private, snap, faults>>

RolledBack(f) == [Written(f, Blank) EXCEPT !.journal = FALSE]

\* Any error: ROLLBACK, whose own error is ignored, then the files of the
\* generation are removed one by one.
InitialisationFails(s) ==
    /\ pc[s] \in {"begin", "schema", "sync"}
    /\ faults < MaxFaults
    /\ files' \in IF pc[s] = "schema" THEN {files, RolledBack(files)} ELSE {files}
    /\ faults' = faults + 1
    /\ GoTo(s, "remove")
    /\ UNCHANGED <<locks, pidFile, private, snap>>

RemoveGeneration(s) ==
    /\ \/ /\ pc[s] = "remove"
          /\ files' = [files EXCEPT !.inode = 0]
          /\ GoTo(s, "removeSidecars")
       \/ /\ pc[s] = "removeSidecars"
          /\ files' = [files EXCEPT !.wal = NoWal, !.journal = FALSE]
          /\ GoTo(s, "dropPid")
    /\ UNCHANGED <<locks, pidFile, private, snap, faults>>

-----------------------------------------------------------------------------
(* validate_current_database.                                              *)

\* A server that fails closes its pool, if it has one, and drops its lock.
AfterFailure(p) ==
    IF p \in Doctors THEN "release" ELSE IF opened[p] # 0 THEN "closing" ELSE "dropPid"

\* One read of snapshot_generation_once.  A main file that is gone when the copy
\* starts cannot be opened.  After a difference the copy starts over or, when that was
\* the last of four attempts, fails; the number is left open.
ReadSource(p) ==
    /\ pc[p] = "snapshot"
    /\ LET gone == snap[p].pass = 1 /\ Opens(snap[p]) /\ files.inode = 0
           changed == Differs(files, snap[p])
       IN  \/ /\ ~gone /\ ~changed
              /\ snap' = [snap EXCEPT ![p] = Advanced(Read(files, @))]
              /\ IF snap'[p].pass = 7 THEN GoTo(p, "validate") ELSE UNCHANGED pc
           \/ /\ changed
              /\ DropSnapshot(p)
              /\ UNCHANGED pc
           \/ /\ gone \/ changed
              /\ DropSnapshot(p)
              /\ GoTo(p, AfterFailure(p))
    /\ UNCHANGED <<files, locks, pidFile, private, faults>>

\* Mutant of Validate: whatever was copied is accepted.
ValidateAnything(p) ==
    /\ pc[p] = "validate"
    /\ GoTo(p, IF p \in Doctors THEN "reads"
               ELSE IF opened[p] = 0 THEN "connect" ELSE "validateOpen")
    /\ DropSnapshot(p)
    /\ UNCHANGED <<files, locks, pidFile, private, faults>>

\* A server validates before it opens its pool and again afterwards.
Validate(p) ==
    /\ pc[p] = "validate"
    /\ GoTo(p, IF ~Accepted(Copied(snap[p])) THEN AfterFailure(p)
               ELSE IF p \in Doctors THEN "reads"
               ELSE IF opened[p] = 0 THEN "connect" ELSE "validateOpen")
    /\ DropSnapshot(p)
    /\ UNCHANGED <<files, locks, pidFile, private, faults>>

\* Mutant of Connect: sidecar files that a dead server left are removed first.
ConnectWithoutLog(s) ==
    /\ pc[s] = "connect"
    /\ files.inode # 0
    /\ opened' = [opened EXCEPT ![s] = files.inode]
    /\ files' = [files EXCEPT !.wal = NoWal]
    /\ StartSnapshot(s)
    /\ UNCHANGED <<locks, pidFile, target, dir, faults>>

\* connect_with, create_if_missing(false): recovery drops what was never committed.
Connect(s) ==
    /\ pc[s] = "connect"
    /\ \/ /\ files.inode # 0
          /\ opened' = [opened EXCEPT ![s] = files.inode]
          /\ files' = [files EXCEPT !.wal.tail = 0]
          /\ StartSnapshot(s)
       \/ /\ files.inode = 0
          /\ GoTo(s, "dropPid")
          /\ UNCHANGED <<files, opened, snap>>
    /\ UNCHANGED <<locks, pidFile, target, dir, faults>>

ValidateOpen(s) ==
    /\ pc[s] = "validateOpen"
    /\ GoTo(s, IF files.inode # 0 /\ (target[s] # 0 => files.inode = target[s])
               THEN "serving" ELSE "closing")
    /\ UNCHANGED <<files, locks, pidFile, private, snap, faults>>

-----------------------------------------------------------------------------
(* SQLite in WAL mode (external): frames, commits, checkpoints.            *)

\* The WRITE lock: a doctor's probe keeps it until its ROLLBACK.
WriteLocked == \E d \in Doctors : pc[d] = "rollback"

\* The frame of one page; the last one carries the commit.
WriteFrame(s) ==
    /\ pc[s] = "serving"
    /\ ~WriteLocked
    /\ Current(files)[1] < MaxVersion
    /\ \/ /\ files.wal.tail = NumPages - 1
          /\ files' = [files EXCEPT !.wal = [commit |-> Current(files)[1] + 1, tail |-> 0]]
       \/ /\ files.wal.tail < NumPages - 1
          /\ files' = [files EXCEPT !.wal.tail = files.wal.tail + 1]
    /\ UNCHANGED <<locks, pidFile, pc, private, snap, faults>>

\* A page is copied back; when all are, a writer or the last connection starts -wal anew.
Checkpoint(p) ==
    /\ p \in Servers => pc[p] \in {"serving", "closing"}
    /\ p \in Doctors => pc[p] \in {"release"}
    /\ opened[p] = files.inode /\ files.inode # 0
    /\ files.wal.commit # 0
    /\ \/ /\ Main(files) # At(files.wal.commit)
          /\ files' = FirstPageWritten(files, files.wal.commit)
       \/ /\ Main(files) = At(files.wal.commit) /\ files.wal.tail = 0
          /\ files' = [files EXCEPT !.wal = NoWal]
    /\ UNCHANGED <<locks, pidFile, pc, private, snap, faults>>

-----------------------------------------------------------------------------
(* The end of serve: the pool is dropped before ApplicationLock.           *)

Stop(s) ==
    /\ pc[s] = "serving"
    /\ GoTo(s, "closing")
    /\ UNCHANGED <<files, locks, pidFile, private, snap, faults>>

ClosePool(s) ==
    /\ pc[s] = "closing"
    /\ opened' = [opened EXCEPT ![s] = 0]
    /\ GoTo(s, "dropPid")
    /\ UNCHANGED <<files, locks, pidFile, target, dir, snap, faults>>

\* Drop: the PID file is removed if it is ours, then the locks go in field order.
DropPid(s) ==
    /\ pc[s] = "dropPid"
    /\ pidFile' = IF pidFile[dir[s]] = s THEN [pidFile EXCEPT ![dir[s]] = NoPid] ELSE pidFile
    /\ GoTo(s, "unlock")
    /\ UNCHANGED <<files, locks, private, snap, faults>>

Unlock(s) ==
    /\ \/ /\ pc[s] = "unlock"
          /\ instance' = instance \ {s}
          /\ GoTo(s, "unlockRest")
          /\ UNCHANGED <<shared, exclusive, runtime, target, dir>>
       \/ /\ pc[s] = "unlockRest"
          /\ Exit(s)
    /\ UNCHANGED <<files, pidFile, opened, snap, faults>>

-----------------------------------------------------------------------------
(* The rest of doctor::run, on the live database.                          *)

\* integrity_and_foreign_key_check: a read-only connection cannot roll a hot journal
\* back and fails.
IntegrityHolds == files.inode # 0 /\ ~files.journal

\* That check, then verify_credentials: a database that is not a current one has no
\* table cameras, and the credentials may also be wrong.
ProbeReads(d) ==
    /\ pc[d] = "reads"
    /\ \/ /\ IntegrityHolds /\ Accepted(Current(files))
          /\ GoTo(d, "write")
       \/ GoTo(d, "release")
    /\ UNCHANGED <<files, locks, pidFile, private, snap, faults>>

\* database_write_probe: BEGIN IMMEDIATE and an INSERT; a writer that does not
\* finish in time, or a missing table, fails it.  Opening rolls a hot journal back.
ProbeWrite(d) ==
    /\ pc[d] = "write"
    /\ files' = IF /\ files.journal /\ files.inode # 0
                   /\ \A s \in Servers : pc[s] # "schema"
                THEN RolledBack(files) ELSE files
    /\ \/ /\ files.inode # 0 /\ files.wal.tail = 0 /\ ~WriteLocked
          /\ Accepted(Current(files))
          /\ opened' = [opened EXCEPT ![d] = files.inode]
          /\ GoTo(d, "rollback")
       \/ /\ GoTo(d, "release")
          /\ UNCHANGED opened
    /\ UNCHANGED <<locks, pidFile, target, dir, snap, faults>>

\* What follows, the companion's contract, the recordings directory and the
\* readiness probes, changes nothing here.
ProbeRollback(d) ==
    /\ pc[d] = "rollback"
    /\ GoTo(d, "release")
    /\ UNCHANGED <<files, locks, pidFile, private, snap, faults>>

\* The end of a doctor or of maintenance.
Release(p) ==
    /\ pc[p] = "release"
    /\ Exit(p)
    /\ opened' = IF p \in Doctors THEN [opened EXCEPT ![p] = 0] ELSE opened
    /\ UNCHANGED <<files, pidFile, snap, faults>>

\* Maintenance (external): another generation takes the place of the database,
\* a current one or one that is not.
Restore(k) ==
    /\ pc[k] = "restore"
    /\ \/ /\ files.born < MaxInodes
          /\ \E v \in {0, 1} : files' = [NewFile(files, At(v)) EXCEPT !.wal = NoWal,
                                                                   !.journal = FALSE]
       \/ UNCHANGED files
    /\ GoTo(k, "release")
    /\ UNCHANGED <<locks, pidFile, private, snap, faults>>

\* The kernel closes a dead process's files; what it wrote stays.  Only a server
\* in service is in the middle of anything.
Crash(p) ==
    /\ pc[p] # "down"
    /\ IF pc[p] \in InService
       THEN /\ faults < MaxFaults
            /\ faults' = faults + 1
       ELSE UNCHANGED faults
    /\ Exit(p)
    /\ IF p \in Keepers
       THEN UNCHANGED <<opened, snap>>
       ELSE /\ opened' = [opened EXCEPT ![p] = 0]
            /\ DropSnapshot(p)
    /\ UNCHANGED <<files, pidFile>>

-----------------------------------------------------------------------------
ServerStep(s) ==
    \/ LockInstance(s) \/ LockRuntime(s) \/ TruncatePid(s) \/ WritePid(s)
    \/ Prepare(s) \/ Create(s) \/ BeginSchema(s) \/ WriteSchema(s) \/ SyncDatabase(s)
    \/ InitialisationFails(s) \/ RemoveGeneration(s)
    \/ Connect(s) \/ ValidateOpen(s) \/ WriteFrame(s)
    \/ Stop(s) \/ ClosePool(s) \/ DropPid(s) \/ Unlock(s)

DoctorStep(d) == ProbeReads(d) \/ ProbeWrite(d) \/ ProbeRollback(d)

Next ==
    \/ \E p \in Processes : ReadTarget(p) \/ EnsureUnchanged(p) \/ Crash(p)
    \/ \E p \in Servers \cup Doctors : LockShared(p) \/ ReadSource(p) \/ Validate(p) \/ Checkpoint(p)
    \/ \E p \in Doctors \cup Keepers : Release(p)
    \/ \E s \in Servers : ServerStep(s)
    \/ \E d \in Doctors : DoctorStep(d)
    \/ \E k \in Keepers : LockExclusive(k) \/ Restore(k)

Spec == Init /\ [][Next]_vars

-----------------------------------------------------------------------------
(* Properties.                                                             *)

\* Whatever runtime directories the servers were given, at most one of them is
\* past its locks at a time, and maintenance replaces the database only while no
\* server is and no doctor is at work (ApplicationLock, DatabaseMaintenanceLock).
ServiceIsExclusive ==
    /\ \A s, t \in Servers : pc[s] \in InService /\ pc[t] \in InService => s = t
    /\ \A k \in Keepers : pc[k] = "restore" =>
         /\ \A s \in Servers : pc[s] \notin InService
         /\ \A p \in Servers \cup Doctors : opened[p] = 0 /\ pc[p] # "snapshot"

\* A private copy that is going to be validated holds one state the database was
\* in, not older than the one it was in when the copy began, whatever commits and
\* checkpoints ran while the files were copied one after the other
\* (snapshot_generation_once).
SnapshotIsConsistent ==
    \A p \in Servers \cup Doctors : pc[p] = "validate" =>
        LET copy == Copied(snap[p]) IN
        /\ Whole(copy)
        /\ \A q \in Pages : copy[q] >= snap[p].low[q]

\* A serving server has open the database that the configured path names, and
\* that database went through a complete initialisation: one that was interrupted
\* by a crash or an error is never served (open_pool, validate_open_database).
ServedIsNamedAndComplete ==
    \A s \in Servers : pc[s] = "serving" =>
        /\ opened[s] = files.inode /\ files.inode # 0
        /\ Whole(Current(files)) /\ Accepted(Current(files))

\* The PID file of a serving server's runtime directory names that server,
\* whatever servers were refused, stopped or died there before (write_pid, Drop).
PidFileNamesServer ==
    \A s \in Servers : pc[s] = "serving" => pidFile[dir[s]] = s

\* While a server serves, no process replaces its database or takes a committed
\* transaction from it: a doctor's copy, probe and checkpoint change nothing that
\* is read, and another server's failed initialisation removes nothing.
ServedDataIsKept ==
    [][\A s \in Servers : pc[s] = "serving" /\ pc'[s] = "serving" =>
           /\ files'.inode = files.inode
           /\ \A q \in Pages : Current(files')[q] >= Current(files)[q]]_vars

\* What a server at l has to do with the database, in the terms of DatabaseService.
StageAt(l) ==
    CASE l \notin InService -> "out"
      [] l \in {"begin", "schema", "sync", "remove"} -> "creating"
      [] l = "serving" -> "serving"
      [] l \in {"removeSidecars", "closing", "dropPid", "unlock"} -> "leaving"
      [] OTHER -> "starting"

Service == INSTANCE DatabaseService WITH
    stage <- [s \in Servers |-> StageAt(pc[s])], named <- files.inode, data <- Current(files)

\* System call by system call, with crashes, failed initialisations, doctors and
\* maintenance between them, servers use the database as DatabaseService promises: what
\* one of them committed is what the next one serves (serve, open_pool, doctor::run).
ImplementsService == Service!Spec
=============================================================================
