------------------------ MODULE MediaReconciliation ------------------------
(***************************************************************************)
(* The media reconciler of Sentinel Monitor: camera requests commit a      *)
(* desired state and an operation in one SQLite transaction, and a         *)
(* background pass, fenced by a global lease and by a lease on the         *)
(* operation, drives the MediaMTX path configuration to it.  Every         *)
(* database transaction, every single SQL read and every HTTP exchange of  *)
(* src/src/reconciliation.rs is one action, so that everything the code    *)
(* can be interleaved with happens between them.                           *)
(*                                                                         *)
(* A worker is a server process.  The deployment runs one (the instance    *)
(* lock of runtime_lock.rs); the leases are written for several.           *)
(***************************************************************************)
EXTENDS OperationStore

CONSTANTS
    Workers,     \* server processes, each running one reconcile_loop
    Sources,     \* RTSP sources (URL with its credentials; the code compares digests)
    NoSource,    \* no sub stream configured
    Absent,      \* a path MediaMTX does not have
    Configs,     \* camera configurations that requests may commit
    MaxFaults,   \* bound: refused or unanswered requests, MediaMTX restarts, crashes
    MaxStalls    \* bound: leases that run out under a worker that is still alive

Profiles == {"main", "sub"}

ASSUME ModelAssumption ==
    /\ Workers # {}
    /\ NoSource \notin Sources
    /\ Absent \notin [source : Sources \cup {NoSource}, record : BOOLEAN]
    /\ Configs # {}
    /\ Configs \subseteq [main : Sources, sub : Sources \cup {NoSource},
                          enabled : BOOLEAN, record : BOOLEAN]
    /\ MaxFaults \in Nat
    /\ MaxStalls \in Nat

VARIABLES
    cam,        \* cameras: the row's state and its configuration
    status,     \* cameras.status (status_loop is not part of this module)
    desired,    \* media_desired_states; generation 0 is "no row"
    ops,        \* _sarmg_operations, in creation order
    created,    \* number of operations enqueued so far
    lease,      \* media_reconciler_leases, the singleton
    actual,     \* media_actual_paths; gen 0 is a NULL applied_generation
    media,      \* MediaMTX: the configuration of each path
    inflight,   \* the HTTP request a worker is awaiting
    orphans,    \* requests nobody awaits any more that MediaMTX may still execute
    pc,         \* where each worker is
    me,         \* the lease owner a worker drew for its pass
    job,        \* what a worker holds about the operation it claimed
    obs,        \* what a worker holds while it observes MediaMTX
    committed,  \* history: what each committed generation asks of MediaMTX
    faults, stalls

catalog == <<cam, desired, committed>>
store == <<ops, created>>
mediaSide == <<media, inflight, orphans>>
bounds == <<faults, stalls>>
vars == <<cam, status, desired, ops, created, lease, actual, media, inflight,
          orphans, pc, me, job, obs, committed, faults, stalls>>

-----------------------------------------------------------------------------
(* Types.                                                                  *)

Content == [source : Sources \cup {NoSource}, record : BOOLEAN] \cup {Absent}
Paths == [Profiles -> Content]
Desired == [gen : Gens, present : BOOLEAN, sub : BOOLEAN, record : BOOLEAN]
Lease == [owner : Owners \cup {NoOwner}, live : BOOLEAN]

Observing == {"inventory", "desired", "cameras", "persistMain", "persistSub", "drift", "enqueue"}
Working == {"acquire", "renew", "claim", "check", "renewClaim", "verify", "load",
            "supersede", "camera", "main", "mainWait", "sub", "subWait", "success",
            "failure", "abandon", "observe", "renewAgain", "claimAgain", "release",
            "releaseMore"} \cup Observing
Locations == {"down", "idle"} \cup Working

Outcomes == {"none", "refused", "unknown"}
Job == [op : 0..MaxOps, desired : Desired, config : Configs, fresh : BOOLEAN,
        outcome : Outcomes]
Request == [op : OpIds, camera : Cameras, profile : Profiles, content : Content]
Exchange == [st : {"none", "sent", "ok", "refused", "lost"}, profile : Profiles,
             content : Content]
Observation == [media   : [Cameras -> Paths],
                desired : [Cameras -> Desired],
                todo    : SUBSET Cameras,
                camera  : Cameras,
                match   : [Profiles -> BOOLEAN],
                since   : SUBSET OpIds,
                newer   : SUBSET (Cameras \X Profiles),
                older   : SUBSET Workers]

NoDesired == [gen |-> 0, present |-> FALSE, sub |-> FALSE, record |-> FALSE]
NoPaths == [p \in Profiles |-> Absent]
NoRow == [content |-> Absent, gen |-> 0]
NoJob == [op |-> 0, desired |-> NoDesired, config |-> CHOOSE k \in Configs : TRUE,
          fresh |-> FALSE, outcome |-> "none"]
NoExchange == [st |-> "none", profile |-> "main", content |-> Absent]
NoObs == [media |-> [c \in Cameras |-> NoPaths],
          desired |-> [c \in Cameras |-> NoDesired],
          todo |-> {}, camera |-> CHOOSE c \in Cameras : TRUE,
          match |-> [p \in Profiles |-> FALSE],
          since |-> {}, newer |-> {}, older |-> {}]
FreeLease == [owner |-> NoOwner, live |-> FALSE]

TypeOK ==
    /\ cam \in [Cameras -> [state : {"none", "live", "deleted"}, config : Configs]]
    /\ status \in [Cameras -> {"pending", "disabled", "error"}]
    /\ desired \in [Cameras -> Desired]
    /\ ops \in [OpIds -> OpType]
    /\ created \in 0..MaxOps
    /\ lease \in Lease
    /\ actual \in [Cameras -> [Profiles -> [content : Content, gen : Gens]]]
    /\ media \in [Cameras -> Paths]
    /\ inflight \in [Workers -> Exchange]
    /\ orphans \in SUBSET Request
    /\ pc \in [Workers -> Locations]
    /\ me \in [Workers -> Owners \cup {NoOwner}]
    /\ job \in [Workers -> Job]
    /\ obs \in [Workers -> Observation]
    /\ committed \in [Cameras -> [1..MaxGen -> Paths]]
    /\ faults \in 0..MaxFaults
    /\ stalls \in 0..MaxStalls

Init ==
    /\ cam = [c \in Cameras |-> [state |-> "none", config |-> CHOOSE k \in Configs : TRUE]]
    /\ status = [c \in Cameras |-> "pending"]
    /\ desired = [c \in Cameras |-> NoDesired]
    /\ ops = [o \in OpIds |-> NoOp]
    /\ created = 0
    /\ lease = FreeLease
    /\ actual = [c \in Cameras |-> [p \in Profiles |-> NoRow]]
    /\ media = [c \in Cameras |-> NoPaths]
    /\ inflight = [w \in Workers |-> NoExchange]
    /\ orphans = {}
    /\ pc = [w \in Workers |-> "down"]
    /\ me = [w \in Workers |-> NoOwner]
    /\ job = [w \in Workers |-> NoJob]
    /\ obs = [w \in Workers |-> NoObs]
    /\ committed = [c \in Cameras |-> [g \in 1..MaxGen |-> NoPaths]]
    /\ faults = 0
    /\ stalls = 0

-----------------------------------------------------------------------------
(* What a desired state asks of MediaMTX, given the camera row it is read  *)
(* with.  sourceOnDemand is always the negation of record on the main path *)
(* and always TRUE on the sub path, so record stands for both flags.       *)

Expected(d, k) ==
    [p \in Profiles |->
        CASE ~d.present -> Absent
          [] d.present /\ p = "main" -> [source |-> k.main, record |-> d.record]
          [] d.present /\ p = "sub" ->
                IF d.sub /\ k.sub # NoSource
                THEN [source |-> k.sub, record |-> FALSE] ELSE Absent]

ShouldExist(d) == [p \in Profiles |-> d.present /\ (p = "main" \/ d.sub)]

\* Mutant of Matches: only the presence of a path is compared.
MatchesByPresence(found, d, k) ==
    [p \in Profiles |-> (found[p] # Absent) = ShouldExist(d)[p]]

\* Mutant of Matches: a path that should not exist is not looked for.
MatchesIfWanted(found, d, k) ==
    [p \in Profiles |-> ShouldExist(d)[p] => found[p] = Expected(d, k)[p]]

\* config_matches: a path that should exist but has no expected configuration
\* (desired row and camera row read apart) never matches.
Matches(found, d, k) ==
    [p \in Profiles |->
        IF ShouldExist(d)[p]
        THEN Expected(d, k)[p] # Absent /\ found[p] = Expected(d, k)[p]
        ELSE found[p] = Absent]

\* What finish_success records: presence follows the desired row alone, and a
\* present path without a source has a NULL digest.
Recorded(d, k) ==
    [p \in Profiles |->
        IF ~ShouldExist(d)[p] THEN Absent
        ELSE IF p = "main" THEN [source |-> k.main, record |-> d.record]
        ELSE [source |-> k.sub, record |-> FALSE]]

-----------------------------------------------------------------------------
(* Requests.  A request commits everything in one transaction.             *)

ApiUp == \E w \in Workers : pc[w] # "down"

Enqueue(c, g) ==
    /\ created < MaxOps
    /\ created' = created + 1
    /\ ops' = [ops EXCEPT ![created + 1] = NewOp(c, g)]

\* The sub path and record flag of an absent camera are never read; they are
\* left FALSE so that a stale camera row given to delete_camera adds no state.
QueueCameraChange(c, k, present) ==
    LET g == desired[c].gen + 1
        d == [gen |-> g, present |-> present, sub |-> present /\ k.sub # NoSource,
              record |-> present /\ k.record]
    IN  /\ g <= MaxGen
        /\ desired' = [desired EXCEPT ![c] = d]
        /\ committed' = [committed EXCEPT ![c][g] = Expected(d, k)]
        /\ Enqueue(c, g)

CreateCamera(c, k) ==
    /\ ApiUp
    /\ cam[c].state = "none"
    /\ cam' = [cam EXCEPT ![c] = [state |-> "live", config |-> k]]
    /\ QueueCameraChange(c, k, k.enabled)
    /\ UNCHANGED <<status, lease, actual, mediaSide, pc, me, job, obs, bounds>>

\* update_camera merges the request into a row it read before its transaction:
\* any configuration may be the outcome.  A deleted row is not updated.
UpdateCamera(c, k) ==
    /\ ApiUp
    /\ cam[c].state = "live"
    /\ cam' = [cam EXCEPT ![c].config = k]
    /\ status' = [status EXCEPT ![c] = IF k.enabled THEN "pending" ELSE "disabled"]
    /\ QueueCameraChange(c, k, k.enabled)
    /\ UNCHANGED <<lease, actual, mediaSide, pc, me, job, obs, bounds>>

\* delete_camera loads the row before its transaction and does not look at the
\* row count of its UPDATE: of two concurrent deletions the second commits a
\* generation too, without touching the row.
DeleteCamera(c) ==
    /\ ApiUp
    /\ cam[c].state # "none"
    /\ cam' = [cam EXCEPT ![c].state = "deleted"]
    /\ status' = IF cam[c].state = "live"
                 THEN [status EXCEPT ![c] = "disabled"] ELSE status
    /\ QueueCameraChange(c, cam[c].config, FALSE)
    /\ UNCHANGED <<lease, actual, mediaSide, pc, me, job, obs, bounds>>

ResolveOperation(o, resolution) ==
    /\ ApiUp
    /\ Resolvable(ops[o], resolution)
    /\ ops' = [ops EXCEPT ![o] = Resolved(@, resolution)]
    /\ UNCHANGED <<catalog, status, created, lease, actual, mediaSide, pc, me, job,
                   obs, bounds>>

-----------------------------------------------------------------------------
(* Processes.                                                              *)

Goto(w, l) == pc' = [pc EXCEPT ![w] = l]

\* serve: every operation found running was interrupted, whatever its lease.
Start(w) ==
    /\ pc[w] = "down"
    /\ ops' = RecoverRunning(ops)
    /\ Goto(w, "idle")
    /\ UNCHANGED <<catalog, status, created, lease, actual, mediaSide, me, job, obs,
                   bounds>>

\* The request a dying process was awaiting may still be executed.
Orphaned(w) ==
    IF inflight[w].st = "sent"
    THEN orphans \cup {[op |-> job[w].op, camera |-> ops[job[w].op].camera,
                        profile |-> inflight[w].profile, content |-> inflight[w].content]}
    ELSE orphans

Crash(w) ==
    /\ pc[w] # "down"
    /\ faults < MaxFaults
    /\ faults' = faults + 1
    /\ Goto(w, "down")
    /\ orphans' = Orphaned(w)
    /\ inflight' = [inflight EXCEPT ![w] = NoExchange]
    /\ me' = [me EXCEPT ![w] = NoOwner]
    /\ job' = [job EXCEPT ![w] = NoJob]
    /\ obs' = [obs EXCEPT ![w] = NoObs]
    /\ UNCHANGED <<catalog, status, store, lease, actual, media, stalls>>

-----------------------------------------------------------------------------
(* A pass: the global lease, then one claim, or an observation of MediaMTX *)
(* and another claim.                                                      *)

\* reconcile_available, on each tick of reconcile_loop.
BeginCycle(w) ==
    /\ pc[w] = "idle"
    /\ ops' = RecoverExpired(ops)
    /\ Goto(w, "acquire")
    /\ UNCHANGED <<catalog, status, created, lease, actual, mediaSide, me, job, obs,
                   bounds>>

UsedOwners == {lease.owner} \cup {me[w] : w \in Workers} \cup {ops[o].owner : o \in OpIds}

\* Mutant of MayAcquire: the expiry of the current lease is not looked at.
MayAcquireAnyLease == lease.owner = NoOwner \/ lease.owner \in Owners

\* acquire_reconciler_lease refuses a lease that has not run out.
MayAcquire == lease.owner = NoOwner \/ ~lease.live

Acquire(w) ==
    /\ pc[w] = "acquire"
    /\ MayAcquire
    /\ Owners \ UsedOwners # {}
    /\ LET owner == CHOOSE x \in Owners \ UsedOwners : TRUE
       IN  /\ lease' = [owner |-> owner, live |-> TRUE]
           /\ me' = [me EXCEPT ![w] = owner]
    /\ Goto(w, "renew")
    /\ UNCHANGED <<catalog, status, store, actual, mediaSide, job, obs, bounds>>

LeaseBusy(w) ==
    /\ pc[w] = "acquire"
    /\ ~MayAcquire
    /\ Goto(w, "idle")
    /\ UNCHANGED <<catalog, status, store, lease, actual, mediaSide, me, job, obs, bounds>>

HoldsLease(w) == lease.owner = me[w] /\ lease.live

\* A renewal moves the deadline of a lease that is still live: it stays live.
RenewGlobal(w) ==
    /\ pc[w] \in {"renew", "renewAgain"}
    /\ Goto(w, CASE ~HoldsLease(w) -> "release"
                 [] HoldsLease(w) /\ pc[w] = "renew" -> "claim"
                 [] HoldsLease(w) /\ pc[w] = "renewAgain" -> "claimAgain")
    /\ UNCHANGED <<catalog, status, store, lease, actual, mediaSide, me, job, obs, bounds>>

\* claim_next_operation takes "now" before it waits for the write lock, so it
\* may claim under a lease that has run out in between; one that was taken over
\* or released has another owner.
Claim(w, o) ==
    /\ pc[w] \in {"claim", "claimAgain"}
    /\ lease.owner = me[w]
    /\ Claimable(ops, o)
    /\ ops' = [ops EXCEPT ![o] = Claimed(@, me[w])]
    /\ job' = [job EXCEPT ![w].op = o]
    /\ Goto(w, "check")
    /\ UNCHANGED <<catalog, status, created, lease, actual, mediaSide, me, obs, bounds>>

ClaimNothing(w) ==
    /\ pc[w] \in {"claim", "claimAgain"}
    /\ lease.owner = me[w]
    /\ \A o \in OpIds : ~Claimable(ops, o)
    /\ Goto(w, IF pc[w] = "claim" THEN "observe" ELSE "release")
    /\ UNCHANGED <<catalog, status, store, lease, actual, mediaSide, me, job, obs, bounds>>

ClaimLost(w) ==
    /\ pc[w] \in {"claim", "claimAgain"}
    /\ ~HoldsLease(w)
    /\ Goto(w, "release")
    /\ UNCHANGED <<catalog, status, store, lease, actual, mediaSide, me, job, obs, bounds>>

\* release_reconciler_lease frees the lease only of its own owner, after a pass
\* that ended well and after one that failed. A pass that processed an operation
\* is followed by another one until reconcile_available has run 64 of them.
Release(w) ==
    /\ pc[w] \in {"release", "releaseMore"}
    /\ lease' = IF lease.owner = me[w] THEN FreeLease ELSE lease
    /\ me' = [me EXCEPT ![w] = NoOwner]
    /\ job' = [job EXCEPT ![w] = NoJob]
    /\ obs' = [obs EXCEPT ![w] = NoObs]
    /\ \/ Goto(w, "idle")
       \/ pc[w] = "releaseMore" /\ Goto(w, "acquire")
    /\ UNCHANGED <<catalog, status, store, actual, mediaSide, bounds>>

-----------------------------------------------------------------------------
(* Applying a claimed operation.                                           *)

\* apply_claimed_operation: a claim that has changed hands is left alone.
CheckClaim(w) ==
    /\ pc[w] = "check"
    /\ Goto(w, IF ops[job[w].op].owner = me[w] THEN "renewClaim" ELSE "release")
    /\ UNCHANGED <<catalog, status, store, lease, actual, mediaSide, me, job, obs, bounds>>

\* renew_claimed_leases: the transaction renews the global lease only, and its
\* "now" is what the operation lease is compared with afterwards.
RenewClaim(w) ==
    /\ pc[w] = "renewClaim"
    /\ job' = [job EXCEPT ![w].fresh = ops[job[w].op].live]
    /\ Goto(w, IF HoldsLease(w) THEN "verify" ELSE "abandon")
    /\ UNCHANGED <<catalog, status, store, lease, actual, mediaSide, me, obs, bounds>>

VerifyClaim(w) ==
    /\ pc[w] = "verify"
    /\ LET op == ops[job[w].op]
       IN  Goto(w, IF op.state = "running" /\ op.owner = me[w] /\ job[w].fresh
                   THEN "load" ELSE "abandon")
    /\ job' = [job EXCEPT ![w].fresh = FALSE]
    /\ UNCHANGED <<catalog, status, store, lease, actual, mediaSide, me, obs, bounds>>

\* Mutant of LoadDesired: the operation's generation is not compared.
LoadDesiredUnchecked(w) ==
    /\ pc[w] = "load"
    /\ job' = [job EXCEPT ![w].desired = desired[ops[job[w].op].camera]]
    /\ Goto(w, "camera")
    /\ UNCHANGED <<catalog, status, store, lease, actual, mediaSide, me, obs, bounds>>

\* apply_claimed_operation_inner: an operation of a generation that was replaced
\* is superseded without being applied.
LoadDesired(w) ==
    /\ pc[w] = "load"
    /\ LET op == ops[job[w].op]
       IN  /\ job' = [job EXCEPT ![w].desired = desired[op.camera]]
           /\ Goto(w, IF desired[op.camera].gen = op.gen THEN "camera" ELSE "supersede")
    /\ UNCHANGED <<catalog, status, store, lease, actual, mediaSide, me, obs, bounds>>

LoadCamera(w) ==
    /\ pc[w] = "camera"
    /\ job' = [job EXCEPT ![w].config = cam[ops[job[w].op].camera].config]
    /\ Goto(w, "main")
    /\ UNCHANGED <<catalog, status, store, lease, actual, mediaSide, me, obs, bounds>>

\* apply_desired: the main path, then the sub path, each one exchange (the GET
\* that chooses between PATCH and POST changes nothing).
Profile(w) == IF pc[w] \in {"main", "mainWait"} THEN "main" ELSE "sub"

SendRequest(w) ==
    /\ pc[w] \in {"main", "sub"}
    /\ inflight' = [inflight EXCEPT ![w] =
                      [st |-> "sent", profile |-> Profile(w),
                       content |-> Expected(job[w].desired, job[w].config)[Profile(w)]]]
    /\ Goto(w, IF pc[w] = "main" THEN "mainWait" ELSE "subWait")
    /\ UNCHANGED <<catalog, status, store, lease, actual, media, orphans, me, job, obs,
                   bounds>>

\* Mutant of ReceiveAnswer: whatever the answer, the request counts as done.
ReceiveAnyAnswer(w) ==
    /\ pc[w] \in {"mainWait", "subWait"}
    /\ inflight[w].st \notin {"none", "sent"}
    /\ inflight' = [inflight EXCEPT ![w] = NoExchange]
    /\ Goto(w, IF pc[w] = "mainWait" THEN "sub" ELSE "success")
    /\ UNCHANGED <<catalog, status, store, lease, actual, media, orphans, me, job, obs,
                   bounds>>

\* The answer: success, a status other than 2xx, or a broken connection.
ReceiveAnswer(w) ==
    /\ pc[w] \in {"mainWait", "subWait"}
    /\ inflight[w].st \in {"ok", "refused", "lost"}
    /\ inflight' = [inflight EXCEPT ![w] = NoExchange]
    /\ job' = [job EXCEPT ![w].outcome = CASE inflight[w].st = "ok" -> "none"
                                           [] inflight[w].st = "refused" -> "refused"
                                           [] inflight[w].st = "lost" -> "unknown"]
    /\ Goto(w, CASE inflight[w].st # "ok" -> "failure"
                 [] inflight[w].st = "ok" /\ pc[w] = "mainWait" -> "sub"
                 [] inflight[w].st = "ok" /\ pc[w] = "subWait" -> "success")
    /\ UNCHANGED <<catalog, status, store, lease, actual, media, orphans, me, obs, bounds>>

\* reqwest gives up after request_timeout; the request may have been executed,
\* or may still be.
RequestTimesOut(w) ==
    /\ pc[w] \in {"mainWait", "subWait"}
    /\ faults < MaxFaults
    /\ faults' = faults + 1
    /\ orphans' = Orphaned(w)
    /\ inflight' = [inflight EXCEPT ![w] = NoExchange]
    /\ job' = [job EXCEPT ![w].outcome = "unknown"]
    /\ Goto(w, "failure")
    /\ UNCHANGED <<catalog, status, store, lease, actual, media, me, obs, stalls>>

-----------------------------------------------------------------------------
(* Completion: one transaction, in which complete_owned_in requires both   *)
(* leases.  If it fails, nothing is written and the claim is abandoned.    *)

\* Mutants of Fenced: one of the two leases is not required.
FencedByClaimAlone(w) == OwnedBy(ops[job[w].op], me[w])
FencedByLeaseAlone(w) == HoldsLease(w)

Fenced(w) == HoldsLease(w) /\ OwnedBy(ops[job[w].op], me[w])

\* What an observation in progress must know of a later write: observed_at of
\* the rows and updated_at of the operation lie after its start.
Overtakes(o, rows) ==
    [v \in Workers |-> IF pc[v] \in Observing
                       THEN [obs[v] EXCEPT !.since = @ \cup {o}, !.newer = @ \cup rows]
                       ELSE obs[v]]

CompleteSuperseded(w, result) ==
    /\ ops' = [ops EXCEPT ![job[w].op] = Succeed(@, result)]
    /\ obs' = Overtakes(job[w].op, {})
    /\ UNCHANGED <<status, actual>>

FinishSuperseded(w) ==
    /\ pc[w] = "supersede"
    /\ Fenced(w)
    /\ CompleteSuperseded(w, "superseded")
    /\ Goto(w, "releaseMore")
    /\ UNCHANGED <<catalog, created, lease, mediaSide, me, job, bounds>>

\* Mutant of StillCurrent: finish_success does not look at the generation again.
StillCurrentAssumed(w) == job[w].op # 0

\* finish_success looks at the generation again: a newer request committed
\* meanwhile means that what was applied is not what is wanted.
StillCurrent(w) == desired[ops[job[w].op].camera].gen = job[w].desired.gen

FinishSuccess(w) ==
    /\ pc[w] = "success"
    /\ Fenced(w)
    /\ LET o == job[w].op
           c == ops[o].camera
           applied == Recorded(job[w].desired, job[w].config)
       IN  IF ~StillCurrent(w)
           THEN CompleteSuperseded(w, "superseded_after_apply")
           ELSE /\ actual' = [actual EXCEPT ![c] =
                      [p \in Profiles |-> [content |-> applied[p],
                                           gen |-> job[w].desired.gen]]]
                /\ status' = [status EXCEPT ![c] =
                      IF cam[c].state = "live" /\ cam[c].config.enabled
                      THEN "pending" ELSE "disabled"]
                /\ ops' = [ops EXCEPT ![o] = Succeed(@, "converged")]
                /\ obs' = Overtakes(o, {c} \X Profiles)
    /\ Goto(w, "releaseMore")
    /\ UNCHANGED <<catalog, created, lease, mediaSide, me, job, bounds>>

\* Mutant of Failed: an outcome that is not known is retried like a refusal.
FailedAndRetried(op, outcome) == Fail(op, outcome # "none")

\* sanitized_failure: an outcome that could not be determined is never retried.
\* A definitive failure needs a stored URL or credential that is invalid, which
\* the requests and the check at the start of each pass exclude.
Failed(op, outcome) ==
    IF outcome = "unknown" THEN MarkIndeterminate(op) ELSE Fail(op, TRUE)

\* Mutant of ShowsError: the error is shown whatever the generation.
ShowsErrorAlways(op) == op.gen > 0

\* The camera shows an error only if the failed operation is of the current
\* generation.
ShowsError(op) == desired[op.camera].gen = op.gen

FinishFailure(w) ==
    /\ pc[w] = "failure"
    /\ Fenced(w)
    /\ LET o == job[w].op
       IN  /\ status' = IF ShowsError(ops[o])
                        THEN [status EXCEPT ![ops[o].camera] = "error"] ELSE status
           /\ ops' = [ops EXCEPT ![o] = Failed(@, job[w].outcome)]
    /\ Goto(w, "releaseMore")
    /\ UNCHANGED <<catalog, created, lease, actual, mediaSide, me, job, obs, bounds>>

FinishRefused(w) ==
    /\ pc[w] \in {"supersede", "success", "failure"}
    /\ ~Fenced(w)
    /\ Goto(w, "abandon")
    /\ UNCHANGED <<catalog, status, store, lease, actual, mediaSide, me, job, obs, bounds>>

\* Local failure after remote effects is ambiguous: the claim becomes unknown.
Abandon(w) ==
    /\ pc[w] = "abandon"
    /\ ops' = [ops EXCEPT ![job[w].op] = AbandonClaim(@, me[w])]
    /\ Goto(w, "release")
    /\ UNCHANGED <<catalog, status, created, lease, actual, mediaSide, me, job, obs,
                   bounds>>

-----------------------------------------------------------------------------
(* Observing MediaMTX and scheduling drift.                                *)

\* observation_started_at: the observations already in progress are older.
StartObservation(w) ==
    /\ pc[w] = "observe"
    /\ obs' = [v \in Workers |->
                 IF v = w
                 THEN [NoObs EXCEPT !.older = {u \in Workers : pc[u] \in Observing}]
                 ELSE [obs[v] EXCEPT !.older = @ \ {w}]]
    /\ Goto(w, "inventory")
    /\ UNCHANGED <<catalog, status, store, lease, actual, mediaSide, me, job, bounds>>

\* The inventory of path configurations (the one of runtime states, which is
\* taken next, has no part in the comparison).
Observe(w) ==
    /\ pc[w] = "inventory"
    /\ obs' = [obs EXCEPT ![w].media = media]
    /\ Goto(w, "desired")
    /\ UNCHANGED <<catalog, status, store, lease, actual, mediaSide, me, job, bounds>>

ObserveFails(w) ==
    /\ pc[w] = "inventory"
    /\ faults < MaxFaults
    /\ faults' = faults + 1
    /\ Goto(w, "release")
    /\ UNCHANGED <<catalog, status, store, lease, actual, mediaSide, me, job, obs, stalls>>

LoadDesiredStates(w) ==
    /\ pc[w] = "desired"
    /\ obs' = [obs EXCEPT ![w].desired = desired,
                          ![w].todo = {c \in Cameras : desired[c].gen # 0}]
    /\ Goto(w, "cameras")
    /\ UNCHANGED <<catalog, status, store, lease, actual, mediaSide, me, job, bounds>>

\* The camera row is read after, and apart from, its desired state.
CompareCamera(w, c) ==
    /\ pc[w] = "cameras"
    /\ c \in obs[w].todo
    /\ obs' = [obs EXCEPT
                 ![w].todo = @ \ {c},
                 ![w].camera = c,
                 ![w].match = Matches(obs[w].media[c], obs[w].desired[c], cam[c].config)]
    /\ Goto(w, "persistMain")
    /\ UNCHANGED <<catalog, status, store, lease, actual, mediaSide, me, job, bounds>>

ObservationDone(w) ==
    /\ pc[w] = "cameras"
    /\ obs[w].todo = {}
    /\ obs' = [obs EXCEPT ![w] = NoObs]
    /\ Goto(w, "renewAgain")
    /\ UNCHANGED <<catalog, status, store, lease, actual, mediaSide, me, job, bounds>>

\* Mutant of AppliedGeneration: the generation is that of the row as it is by now.
AppliedGenerationByNow(w, p) ==
    IF obs[w].match[p] THEN desired[obs[w].camera].gen ELSE 0

\* A path that matches is recorded with the generation it was compared with.
AppliedGeneration(w, p) ==
    IF obs[w].match[p] THEN obs[w].desired[obs[w].camera].gen ELSE 0

\* persist_observed_path leaves a row with a later observed_at alone. It is not
\* fenced by the lease.
PersistObserved(w) ==
    /\ pc[w] \in {"persistMain", "persistSub"}
    /\ LET c == obs[w].camera
           p == IF pc[w] = "persistMain" THEN "main" ELSE "sub"
       IN  IF <<c, p>> \in obs[w].newer
           THEN UNCHANGED <<actual, obs>>
           ELSE /\ actual' = [actual EXCEPT ![c][p] =
                      [content |-> obs[w].media[c][p],
                       gen |-> AppliedGeneration(w, p)]]
                /\ obs' = [v \in Workers |->
                             IF v \in obs[w].older /\ pc[v] \in Observing
                             THEN [obs[v] EXCEPT !.newer = @ \cup {<<c, p>>}]
                             ELSE obs[v]]
    /\ Goto(w, CASE pc[w] = "persistMain" -> "persistSub"
                 [] pc[w] = "persistSub" /\ \A p \in Profiles : obs[w].match[p] -> "cameras"
                 [] pc[w] = "persistSub" /\ \E p \in Profiles : ~obs[w].match[p] -> "drift")
    /\ UNCHANGED <<catalog, status, store, lease, mediaSide, me, job, bounds>>

\* Mutant of BlocksDrift: any operation of the generation blocks another one.
BlocksDriftForever(latest, g, since) == latest # 0 /\ ops[latest].gen = g

\* ensure_drift_operation asks only the latest operation of the camera.
BlocksDrift(latest, g, since) ==
    /\ latest # 0
    /\ ops[latest].gen = g
    /\ \/ ops[latest].state \in {"pending", "running", "unknown", "failed", "dead_letter"}
       \/ ops[latest].state = "succeeded" /\ latest \in since

CheckDrift(w) ==
    /\ pc[w] = "drift"
    /\ LET c == obs[w].camera
       IN  Goto(w, IF BlocksDrift(LatestFor(ops, c), obs[w].desired[c].gen, obs[w].since)
                   THEN "cameras" ELSE "enqueue")
    /\ UNCHANGED <<catalog, status, store, lease, actual, mediaSide, me, job, obs, bounds>>

EnqueueDrift(w) ==
    /\ pc[w] = "enqueue"
    /\ LET c == obs[w].camera IN Enqueue(c, obs[w].desired[c].gen)
    /\ Goto(w, "cameras")
    /\ UNCHANGED <<catalog, status, lease, actual, mediaSide, me, job, obs, bounds>>

-----------------------------------------------------------------------------
(* MediaMTX (external): executes or refuses a request, restarts with none  *)
(* of the paths that were configured through its API.                      *)

MediaExecutes(w) ==
    /\ inflight[w].st = "sent"
    /\ media' = [media EXCEPT ![ops[job[w].op].camera][inflight[w].profile] =
                   inflight[w].content]
    /\ inflight' = [inflight EXCEPT ![w].st = "ok"]
    /\ UNCHANGED <<catalog, status, store, lease, actual, orphans, pc, me, job, obs, bounds>>

MediaRefuses(w) ==
    /\ inflight[w].st = "sent"
    /\ faults < MaxFaults
    /\ faults' = faults + 1
    /\ inflight' = [inflight EXCEPT ![w].st = "refused"]
    /\ UNCHANGED <<catalog, status, store, lease, actual, media, orphans, pc, me, job, obs,
                   stalls>>

MediaExecutesLate(r) ==
    /\ r \in orphans
    /\ media' = [media EXCEPT ![r.camera][r.profile] = r.content]
    /\ orphans' = orphans \ {r}
    /\ UNCHANGED <<catalog, status, store, lease, actual, inflight, pc, me, job, obs, bounds>>

MediaRestarts ==
    /\ faults < MaxFaults
    /\ faults' = faults + 1
    /\ media' = [c \in Cameras |-> NoPaths]
    /\ orphans' = {}
    /\ inflight' = [w \in Workers |-> IF inflight[w].st = "sent"
                                      THEN [inflight[w] EXCEPT !.st = "lost"]
                                      ELSE inflight[w]]
    /\ UNCHANGED <<catalog, status, store, lease, actual, pc, me, job, obs, stalls>>

-----------------------------------------------------------------------------
(* Time.  A lease whose owner is gone runs out; that one runs out under a  *)
(* worker that is alive takes a pause longer than the request budget of    *)
(* lease_deadline.                                                         *)

Attended(owner) == \E w \in Workers : me[w] = owner

RunsOut(owner) ==
    IF Attended(owner) THEN stalls < MaxStalls /\ stalls' = stalls + 1
    ELSE UNCHANGED stalls

LeaseRunsOut ==
    /\ lease.live
    /\ RunsOut(lease.owner)
    /\ lease' = [lease EXCEPT !.live = FALSE]
    /\ UNCHANGED <<catalog, status, store, actual, mediaSide, pc, me, job, obs, faults>>

ClaimRunsOut(o) ==
    /\ ops[o].live
    /\ RunsOut(ops[o].owner)
    /\ ops' = [ops EXCEPT ![o].live = FALSE]
    /\ UNCHANGED <<catalog, status, created, lease, actual, mediaSide, pc, me, job, obs,
                   faults>>

RetryComesDue(o) ==
    /\ ops[o].state = "pending"
    /\ ~ops[o].due
    /\ ops' = [ops EXCEPT ![o].due = TRUE]
    /\ UNCHANGED <<catalog, status, created, lease, actual, mediaSide, pc, me, job, obs,
                   bounds>>

-----------------------------------------------------------------------------
(* What a worker does by itself, what the world does to it, and the whole. *)

Step(w) ==
    \/ BeginCycle(w)
    \/ Acquire(w) \/ LeaseBusy(w) \/ RenewGlobal(w)
    \/ (\E o \in OpIds : Claim(w, o)) \/ ClaimNothing(w) \/ ClaimLost(w)
    \/ CheckClaim(w) \/ RenewClaim(w) \/ VerifyClaim(w)
    \/ LoadDesired(w) \/ LoadCamera(w) \/ SendRequest(w) \/ ReceiveAnswer(w)
    \/ FinishSuperseded(w) \/ FinishSuccess(w) \/ FinishFailure(w)
    \/ FinishRefused(w) \/ Abandon(w) \/ Release(w)
    \/ StartObservation(w) \/ Observe(w) \/ LoadDesiredStates(w) \/ ObservationDone(w)
    \/ (\E c \in Cameras : CompareCamera(w, c))
    \/ PersistObserved(w) \/ CheckDrift(w) \/ EnqueueDrift(w)

Requests ==
    \/ \E c \in Cameras, k \in Configs : CreateCamera(c, k) \/ UpdateCamera(c, k)
    \/ \E c \in Cameras : DeleteCamera(c)
    \/ \E o \in OpIds, r \in Resolutions : ResolveOperation(o, r)

Media ==
    \/ \E w \in Workers : MediaExecutes(w) \/ MediaRefuses(w)
    \/ \E r \in orphans : MediaExecutesLate(r)
    \/ MediaRestarts

Time ==
    \/ LeaseRunsOut
    \/ \E o \in OpIds : ClaimRunsOut(o) \/ RetryComesDue(o)

Trouble == \E w \in Workers : Crash(w) \/ RequestTimesOut(w) \/ ObserveFails(w)

Next ==
    \/ \E w \in Workers : Start(w) \/ Step(w)
    \/ Requests \/ Media \/ Time \/ Trouble

Spec == Init /\ [][Next]_vars

\* A server is restarted, its loop is scheduled, MediaMTX answers, time passes,
\* and an administrator settles what needs a decision.  Nothing makes requests,
\* faults or stalls happen.
Fairness ==
    /\ \A w \in Workers : WF_vars(Start(w)) /\ WF_vars(Step(w)) /\ WF_vars(MediaExecutes(w))
    /\ WF_vars(~Attended(lease.owner) /\ LeaseRunsOut)
    /\ \A o \in OpIds : /\ WF_vars(~Attended(ops[o].owner) /\ ClaimRunsOut(o))
                        /\ WF_vars(RetryComesDue(o))
                        /\ WF_vars(ResolveOperation(o, "confirmed"))

FairSpec == Spec /\ Fairness

-----------------------------------------------------------------------------
(* Properties.                                                             *)

\* An attempt is completed (succeeded, failed, dead-lettered or sent back to
\* wait for a retry) only while the worker that claimed it holds both leases,
\* unexpired: complete_owned_in fences every worker that lost either.
FencedCompletion ==
    [][\A o \in OpIds :
          /\ ops[o].state = "running"
          /\ ops'[o].state \notin {"running", "unknown"}
          => ops[o].live /\ lease.live /\ lease.owner = ops[o].owner]_vars

OpenStates == {"running", "unknown", "dead_letter", "resolved"}

\* A request whose effect on MediaMTX is still open never belongs to an
\* operation that is reported as settled or offered for a retry: after a lost
\* answer, a crash or an abandoned claim it is unknown until somebody decides.
OpenEffectIsNeverReported == \A r \in orphans : ops[r.op].state \in OpenStates

\* When an operation is reported converged, it is of the current generation and
\* what is recorded as applied is what the request that committed the generation
\* asked for, although the desired row, the camera row and the completion are
\* read and written at different times.
ConvergedMeansCommitted ==
    [][\A o \in OpIds :
          /\ ops[o].result = "none"
          /\ ops'[o].result = "converged"
          => /\ ops[o].gen = desired[ops[o].camera].gen
             /\ \A p \in Profiles :
                   actual'[ops[o].camera][p] =
                     [content |-> committed[ops[o].camera][ops[o].gen][p],
                      gen |-> ops[o].gen]]_vars

\* A recorded path that carries the camera's current generation shows what that
\* generation asks for: neither an observation that read the desired row and the
\* camera row apart, nor a late one, may claim otherwise.
AppliedGenerationIsHonest ==
    \A c \in Cameras, p \in Profiles :
        actual[c][p].gen # 0 /\ actual[c][p].gen = desired[c].gen =>
            actual[c][p].content = committed[c][desired[c].gen][p]

\* A camera that exists shows "error" only because of an operation of the
\* generation it now has, never because of one it has since replaced.
ErrorIsOfCurrentGeneration ==
    \A c \in Cameras :
        cam[c].state = "live" /\ status[c] = "error" =>
            \E o \in OpIds : /\ ops[o].camera = c
                             /\ ops[o].gen = desired[c].gen
                             /\ ops[o].attempt > 0

\* As long as no lease has run out under a live worker, workers exclude each
\* other: between acquiring the global lease and releasing it there is one.
InPass(w) == me[w] # NoOwner

ExclusivePass ==
    stalls = 0 => \A v, w \in Workers : InPass(v) /\ InPass(w) => v = w

\* The life of every operation, as OperationLifecycle promises it.
Lifecycle == INSTANCE OperationLifecycle WITH
    Ops <- OpIds,
    Targets <- Cameras,
    life <- [o \in OpIds |-> [target |-> ops[o].camera, state |-> ops[o].state,
                              attempt |-> ops[o].attempt]]

LifecycleSpec == Lifecycle!Spec

\* Once requests and faults have stopped, MediaMTX ends up, and stays, with what
\* the last committed generation of every camera asks for.
Converged ==
    \A c \in Cameras :
        desired[c].gen # 0 => media[c] = committed[c][desired[c].gen]

EventuallyConverged == <>[]Converged

-----------------------------------------------------------------------------
(* What makes the properties inductive (see MediaReconciliationProofs).    *)

\* Where a worker is busy with the operation it claimed, and those of them where
\* it has read the desired row, and the camera row.
Claiming == {"check", "renewClaim", "verify", "load", "supersede", "camera", "main",
             "mainWait", "sub", "subWait", "success", "failure", "abandon", "releaseMore"}
ReadDesired == {"camera", "main", "mainWait", "sub", "subWait", "success"}
ReadCamera == ReadDesired \ {"camera"}

\* An operation that may be attempted again has attempts left, rows are inserted
\* in order, and each is of a generation that was committed.
OperationsAreAccounted ==
    \A o \in OpIds : /\ ops[o].state = "pending" => ops[o].attempt < MaxAttempts
                     /\ o > created <=> ops[o].state = "absent"
                     /\ ops[o].state # "absent" => ops[o].gen # 0

\* A worker in a pass has an owner, one that applies an operation has one, and a
\* request is under way only while it is awaited.
WorkersAreAccounted ==
    \A w \in Workers :
        /\ me[w] = NoOwner <=> pc[w] \in {"down", "idle", "acquire"}
        /\ pc[w] \in Claiming => job[w].op # 0 /\ job[w].op <= created
        /\ inflight[w].st # "none" => pc[w] \in {"mainWait", "subWait"}

\* An observation looks only at cameras that have a desired state.
Persisting == {"persistMain", "persistSub", "drift", "enqueue"}
ObservationsAreAccounted ==
    \A w \in Workers :
        /\ \A c \in obs[w].todo : obs[w].desired[c].gen # 0
        /\ pc[w] \in Persisting => obs[w].desired[obs[w].camera].gen # 0

WorkIsAccounted ==
    OperationsAreAccounted /\ WorkersAreAccounted /\ ObservationsAreAccounted

\* The history records what the current desired row and camera row ask for.
HistoryIsCurrent ==
    \A c \in Cameras : desired[c].gen # 0 =>
        /\ committed[c][desired[c].gen] = Expected(desired[c], cam[c].config)
        /\ desired[c].sub => cam[c].config.sub # NoSource

\* As long as the generation a worker read is the current one, so is all it read.
SnapshotIsCurrent ==
    \A w \in Workers :
        /\ pc[w] \in ReadDesired =>
              /\ job[w].desired.gen # 0
              /\ job[w].desired.gen = ops[job[w].op].gen
              /\ job[w].desired.gen <= desired[ops[job[w].op].camera].gen
              /\ job[w].desired.gen = desired[ops[job[w].op].camera].gen =>
                    job[w].desired = desired[ops[job[w].op].camera]
        /\ /\ pc[w] \in ReadCamera
           /\ job[w].desired.gen = desired[ops[job[w].op].camera].gen
           => job[w].config = cam[ops[job[w].op].camera].config

\* The inductive invariant: whatever a worker is about to apply or record is that
\* of the current generation, desired row and camera row both, or of one replaced
\* in the meantime, which its number gives away.
IInv == TypeOK /\ WorkIsAccounted /\ HistoryIsCurrent /\ SnapshotIsCurrent

\* Where a worker may still write something about its claim, and where it may
\* still complete it.
Holding == Claiming \ {"releaseMore"}
Applying == Holding \ {"abandon"}

\* An owner is one worker, and a claim that is still running is that of its worker.
ClaimsAreHeld ==
    /\ \A v, w \in Workers : InPass(v) /\ me[v] = me[w] => v = w
    /\ \A w \in Workers : pc[w] \in Holding =>
          /\ ops[job[w].op].state \in OpenStates
          /\ ops[job[w].op].state = "running" => ops[job[w].op].owner = me[w]

\* Whoever could still complete the operation of a request that was left behind
\* has given that request up.
EffectsAreGivenUp ==
    \A r \in orphans, v \in Workers :
        /\ ops[r.op].state = "running"
        /\ job[v].op = r.op
        /\ pc[v] \in Applying
        => pc[v] = "failure" /\ job[v].outcome = "unknown"

\* The inductive invariant behind OpenEffectIsNeverReported.
EffectIInv ==
    /\ TypeOK /\ WorkIsAccounted
    /\ ClaimsAreHeld /\ EffectsAreGivenUp /\ OpenEffectIsNeverReported

\* An observation holds what is desired now, or what has been replaced since; and
\* what it found to match a generation that is still current is what that
\* generation was committed with.
ObservationIsCurrent ==
    \A w \in Workers :
        /\ pc[w] \in {"cameras"} \cup Persisting => \A c \in Cameras :
              /\ obs[w].desired[c].gen <= desired[c].gen
              /\ obs[w].desired[c].gen = desired[c].gen => obs[w].desired[c] = desired[c]
        /\ /\ pc[w] \in {"persistMain", "persistSub"}
           /\ obs[w].desired[obs[w].camera].gen = desired[obs[w].camera].gen
           => \A p \in Profiles : obs[w].match[p] =>
                 obs[w].media[obs[w].camera][p] =
                    committed[obs[w].camera][desired[obs[w].camera].gen][p]

\* No generation is recorded as applied before it is committed.
AppliedIsCommitted ==
    \A c \in Cameras, p \in Profiles : actual[c][p].gen <= desired[c].gen

\* The inductive invariant behind AppliedGenerationIsHonest.
ObservationIInv ==
    IInv /\ ObservationIsCurrent /\ AppliedIsCommitted /\ AppliedGenerationIsHonest

-----------------------------------------------------------------------------
(* Statements of the documentation that the code does not keep.            *)

\* docs/feature-inventory-and-tradeoffs.md, SEN-O-007: starting marks unknown
\* only the running operations whose lease has expired.
RecoveryKeepsLiveClaims ==
    [][\A w \in Workers, o \in OpIds :
          /\ pc[w] = "down"
          /\ pc'[w] = "idle"
          /\ ops[o].state = "running"
          /\ ops'[o].state = "unknown"
          => ~ops[o].live]_vars

\* docs/feature-inventory-and-tradeoffs.md, SEN-O-004: a camera never has two
\* active operations of one generation.
OneActiveOperationPerGeneration ==
    \A o, q \in OpIds :
        /\ ops[o].state \in {"pending", "running"}
        /\ ops[q].state \in {"pending", "running"}
        /\ ops[o].camera = ops[q].camera
        /\ ops[o].gen = ops[q].gen
        => o = q
=============================================================================
