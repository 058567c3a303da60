--------------------------- MODULE MediaServingProofs ---------------------------
(***************************************************************************)
(* What is reported and what is recorded is what MediaMTX has, unless it   *)
(* was changed behind the reconciler's back.  MediaMTX refuses nothing, so *)
(* that it is not changed by another worker follows from the store alone:  *)
(* a camera has one claim, a claim has one worker, and a pass excludes     *)
(* others as long as leases last.                                          *)
(***************************************************************************)
EXTENDS MediaServing, MediaOperationProofs

-----------------------------------------------------------------------------
(* A step of MediaServing is one of MediaReconciliation.                   *)

\* The history adds nothing to the behaviours of the reconciler.
LEMMA ServingStep ==
    ASSUME [ServingNext]_servingVars
    PROVE  [Next]_vars
  BY DEF ServingNext, Executes, ExecutesLate, Restarts, Others, Next, Media, servingVars

\* Every other step leaves MediaMTX as it is.
LEMMA ServingBy ==
    ASSUME [ServingNext]_servingVars
    PROVE  \/ \E w \in Workers : Executes(w)
           \/ \E r \in orphans : ExecutesLate(r)
           \/ Restarts
           \/ media' = media /\ disturbed' = disturbed
  <1>1. ASSUME NEW w \in Workers, Start(w) \/ Step(w) PROVE media' = media
    BY <1>1 DEF mediaSide, Start, Step, BeginCycle, Acquire, LeaseBusy, RenewGlobal, Claim,
       ClaimNothing, ClaimLost, CheckClaim, RenewClaim, VerifyClaim,
       LoadDesired, LoadCamera, SendRequest, ReceiveAnswer, FinishSuperseded,
       FinishSuccess, FinishFailure, FinishRefused, Abandon, Release,
       StartObservation, Observe, LoadDesiredStates, ObservationDone, CompareCamera,
       PersistObserved, CheckDrift, EnqueueDrift
  <1>2. ASSUME NEW w \in Workers, MediaRefuses(w) PROVE media' = media
    BY <1>2 DEF MediaRefuses
  <1>3. ASSUME Requests \/ Time \/ Trouble PROVE media' = media
    BY <1>3 DEF mediaSide, Requests, CreateCamera, UpdateCamera, DeleteCamera,
       ResolveOperation, Time, LeaseRunsOut, ClaimRunsOut, RetryComesDue, Trouble, Crash,
       RequestTimesOut, ObserveFails
  <1>4. CASE UNCHANGED servingVars
    BY <1>4 DEF servingVars, vars
  <1> QED BY <1>1, <1>2, <1>3, <1>4 DEF ServingNext, Others

-----------------------------------------------------------------------------
(* What a step may do to a request under way and to what has been executed. *)

Awaiting == {"mainWait", "subWait"}

\* A request under way is what it was when it was sent, and so is what it is for.
InflightKept(v) ==
    inflight'[v].st # "none" =>
        \/ SendRequest(v) /\ inflight'[v].st = "sent"
        \/ /\ inflight[v].st # "none"
           /\ inflight'[v].profile = inflight[v].profile
           /\ inflight'[v].content = inflight[v].content
           /\ pc[v] \in Awaiting => pc'[v] = pc[v] /\ job'[v] = job[v]
           /\ inflight'[v].st = "ok" => inflight[v].st = "ok" \/ MediaExecutes(v)

\* A worker's request changes only by being sent, answered or given up.
LEMMA InflightStep ==
    ASSUME TypeOK, [Next]_vars, NEW v \in Workers
    PROVE  InflightKept(v)
  <1> USE DEF InflightKept, Goto, Awaiting
  <1>0. /\ pc \in [Workers -> Locations] /\ job \in [Workers -> Job]
        /\ inflight \in [Workers -> Exchange] /\ NoExchange.st = "none"
    BY DEF TypeOK, NoExchange
  <1>1. ASSUME NEW w \in Workers,
               \/ BeginCycle(w) \/ Acquire(w) \/ LeaseBusy(w) \/ RenewGlobal(w)
               \/ \E o \in OpIds : Claim(w, o)
               \/ ClaimNothing(w) \/ ClaimLost(w) \/ CheckClaim(w) \/ RenewClaim(w)
        PROVE  InflightKept(v)
    BY <1>0, <1>1 DEF BeginCycle, Acquire, LeaseBusy, RenewGlobal, Claim, ClaimNothing,
       ClaimLost, CheckClaim, RenewClaim, mediaSide
  <1>2. ASSUME NEW w \in Workers,
               \/ VerifyClaim(w) \/ LoadDesired(w) \/ LoadCamera(w)
               \/ FinishSuperseded(w) \/ FinishSuccess(w) \/ FinishFailure(w)
               \/ FinishRefused(w) \/ Abandon(w) \/ Release(w)
        PROVE  InflightKept(v)
    BY <1>0, <1>2 DEF VerifyClaim, LoadDesired, LoadCamera, FinishSuperseded,
       FinishSuccess, FinishFailure, FinishRefused, Abandon, Release, mediaSide
  <1>3. ASSUME NEW w \in Workers,
               \/ StartObservation(w) \/ Observe(w) \/ LoadDesiredStates(w)
               \/ ObservationDone(w) \/ (\E c \in Cameras : CompareCamera(w, c))
               \/ PersistObserved(w) \/ CheckDrift(w) \/ EnqueueDrift(w) \/ Start(w)
               \/ ObserveFails(w)
        PROVE  InflightKept(v)
    BY <1>0, <1>3 DEF StartObservation, Observe, LoadDesiredStates, ObservationDone,
       CompareCamera, PersistObserved, CheckDrift, EnqueueDrift, Start, ObserveFails,
       mediaSide
  <1>4. ASSUME NEW w \in Workers, SendRequest(w) PROVE InflightKept(v)
    BY <1>0, <1>4 DEF SendRequest
  <1>5. ASSUME NEW w \in Workers, ReceiveAnswer(w) \/ RequestTimesOut(w) \/ Crash(w)
        PROVE  InflightKept(v)
    <2>1. \/ v = w /\ inflight'[v] = NoExchange
          \/ v # w /\ inflight'[v] = inflight[v] /\ pc'[v] = pc[v] /\ job'[v] = job[v]
      BY <1>0, <1>5 DEF ReceiveAnswer, RequestTimesOut, Crash
    <2> QED BY <1>0, <2>1
  <1>6. ASSUME NEW w \in Workers, MediaExecutes(w) \/ MediaRefuses(w)
        PROVE  InflightKept(v)
    BY <1>0, <1>6 DEF MediaExecutes, MediaRefuses, Exchange
  <1>7. ASSUME MediaRestarts PROVE InflightKept(v)
    <2>1. /\ inflight'[v] \in {inflight[v], [inflight[v] EXCEPT !.st = "lost"]}
          /\ pc' = pc /\ job' = job
          /\ inflight'[v] # inflight[v] => inflight[v].st = "sent"
      BY <1>0, <1>7 DEF MediaRestarts
    <2>2. inflight[v] \in Exchange
      BY <1>0
    <2> QED BY <2>1, <2>2 DEF Exchange
  <1>8. ASSUME Requests \/ Time \/ \E r \in orphans : MediaExecutesLate(r)
        PROVE  InflightKept(v)
    BY <1>8 DEF Requests, CreateCamera, UpdateCamera, DeleteCamera, ResolveOperation,
       Time, LeaseRunsOut, ClaimRunsOut, RetryComesDue, MediaExecutesLate, mediaSide
  <1>9. CASE UNCHANGED vars
    BY <1>9 DEF vars
  <1> QED BY <1>1, <1>2, <1>3, <1>4, <1>5, <1>6, <1>7, <1>8, <1>9
          DEF Next, Step, Media, Trouble

\* The worker whose request is being executed is applying an operation.
LEMMA Executing ==
    ASSUME WorkIsAccounted, NEW w \in Workers, inflight[w].st # "none"
    PROVE  pc[w] \in Awaiting
  BY DEF WorkIsAccounted, WorkersAreAccounted, Awaiting

\* An operation becomes active by being claimed, and one that goes on running goes on
\* with the same owner.
LEMMA ActiveStep ==
    ASSUME TypeOK, WorkIsAccounted, [Next]_vars, NEW o \in OpIds, Active(ops'[o])
    PROVE  \/ /\ Active(ops[o])
              /\ ops'[o].camera = ops[o].camera
              /\ ops'[o].state = "running" =>
                    ops[o].state = "running" /\ ops'[o].owner = ops[o].owner
           \/ \E v \in Workers : Claim(v, o)
  <1> DEFINE Stays == /\ Active(ops[o])
                      /\ ops'[o].camera = ops[o].camera
                      /\ ops'[o].state = "running" =>
                            ops[o].state = "running" /\ ops'[o].owner = ops[o].owner
  <1> USE DEF Active, store
  <1>0. ops \in [OpIds -> OpType] /\ OperationsAreAccounted
    BY DEF TypeOK, WorkIsAccounted
  <1>1. CASE ops'[o] = ops[o]
    BY <1>1
  <1>2. ASSUME NEW w \in Workers, Start(w) \/ BeginCycle(w) PROVE Stays
    BY <1>0, <1>2, RecoveredType DEF Start, BeginCycle
  <1>3. ASSUME NEW w \in Workers, Abandon(w) PROVE Stays
    BY <1>0, <1>3 DEF Abandon, AbandonClaim, Unleased, OpType
  <1>4. ASSUME NEW c \in Cameras, NEW g \in Gens, Enqueue(c, g) PROVE Stays
    BY <1>0, <1>4, NewOpType DEF Enqueue
  <1>5. ASSUME NEW w \in Workers, NEW q \in OpIds, Claim(w, q) PROVE Stays \/ Claim(w, o)
    BY <1>0, <1>5 DEF Claim
  <1>6. ASSUME NEW w \in Workers, FinishSuperseded(w) \/ FinishSuccess(w) PROVE Stays
    <2>1. job[w].op \in OpIds /\ ops[job[w].op] \in OpType
      BY <1>0, <1>6, JobOperation DEF FinishSuperseded, FinishSuccess, Claiming
    <2>2. PICK result \in Results :
             ops' = [ops EXCEPT ![job[w].op] = Succeed(ops[job[w].op], result)]
      BY <1>6 DEF FinishSuperseded, FinishSuccess, CompleteSuperseded, Results
    <2>3. Succeed(ops[job[w].op], result).state = "succeeded"
      BY <2>1, SucceedType
    <2> QED BY <1>0, <2>1, <2>2, <2>3
  <1>7. ASSUME NEW w \in Workers, FinishFailure(w) PROVE Stays
    BY <1>0, <1>7, JobOperation
       DEF FinishFailure, Failed, Fail, MarkIndeterminate, Unleased, OpType, Fenced, OwnedBy
  <1>8. ASSUME NEW c \in Cameras, NEW k, NEW present, QueueCameraChange(c, k, present)
        PROVE  Stays
    <2>1. desired[c].gen \in Gens
      BY DEF TypeOK, Desired
    <2>2. desired[c].gen + 1 \in Gens /\ Enqueue(c, desired[c].gen + 1)
      BY <1>8, <2>1, StoreAssumption DEF QueueCameraChange, Gens
    <2> QED BY <1>4, <2>2
  <1>9. ASSUME NEW q \in OpIds, NEW r \in Resolutions, ResolveOperation(q, r) PROVE Stays
    BY <1>0, <1>9 DEF ResolveOperation, Resolved, Resolvable, OpType
  <1>10. ASSUME NEW q \in OpIds, ClaimRunsOut(q) \/ RetryComesDue(q) PROVE Stays
    BY <1>0, <1>10 DEF ClaimRunsOut, RetryComesDue, OpType
  <1>11. ASSUME NEW w \in Workers, EnqueueDrift(w) PROVE Stays
    <2>1. obs[w] \in Observation
      BY DEF TypeOK
    <2>2. obs[w].camera \in Cameras /\ obs[w].desired[obs[w].camera].gen \in Gens
      BY <2>1 DEF Observation, Desired
    <2> QED BY <1>4, <1>11, <2>2 DEF EnqueueDrift
  <1>12. CASE Requests
    BY <1>8, <1>9, <1>12 DEF Requests, CreateCamera, UpdateCamera, DeleteCamera
  <1> QED BY <1>1, <1>2, <1>3, <1>5, <1>6, <1>7, <1>10, <1>11, <1>12, OperationsTouched
          DEF TouchesOperations

\* What has been executed for a worker was executed before, or is executed now; it
\* belongs to the same operation, of the same owner, and to what was read for it.
WroteKept(v) ==
    \A p \in Profiles : Wrote(v, p)' =>
        /\ pc[v] \in ReadCamera
        /\ job'[v].op = job[v].op
        /\ job'[v].desired = job[v].desired /\ job'[v].config = job[v].config
        /\ me'[v] = me[v]
        /\ Wrote(v, p) \/ (MediaExecutes(v) /\ p = Profile(v))

\* Only a step of the worker itself, or the execution of its request, takes it on.
LEMMA WroteStep ==
    ASSUME TypeOK, WorkIsAccounted, [Next]_vars, NEW v \in Workers
    PROVE  WroteKept(v)
  <1> USE DEF WroteKept, Wrote, Goto, ReadCamera, ReadDesired, Profile
  <1>0. /\ pc \in [Workers -> Locations] /\ job \in [Workers -> Job]
        /\ me \in [Workers -> Owners \cup {NoOwner}]
        /\ inflight \in [Workers -> Exchange] /\ NoExchange.st = "none"
        /\ \A w \in Workers : inflight[w].st # "none" => pc[w] \in {"mainWait", "subWait"}
    BY DEF TypeOK, NoExchange, WorkIsAccounted, WorkersAreAccounted
  <1>1. ASSUME NEW w \in Workers,
               \/ BeginCycle(w) \/ LeaseBusy(w) \/ RenewGlobal(w) \/ CheckClaim(w)
               \/ ClaimNothing(w) \/ ClaimLost(w) \/ Start(w)
               \/ FinishSuperseded(w) \/ FinishSuccess(w) \/ FinishFailure(w)
               \/ FinishRefused(w) \/ Abandon(w) \/ ObserveFails(w)
        PROVE  WroteKept(v)
    <2>1. /\ inflight' = inflight /\ job' = job /\ me' = me
          /\ v # w => pc'[v] = pc[v]
          /\ v = w => pc'[v] \notin {"mainWait", "sub", "subWait", "success"}
      BY <1>0, <1>1 DEF BeginCycle, LeaseBusy, RenewGlobal, CheckClaim, ClaimNothing,
         ClaimLost, Start, FinishSuperseded, FinishSuccess, FinishFailure, FinishRefused,
         Abandon, ObserveFails, mediaSide
    <2> QED BY <2>1
  <1>2. ASSUME NEW w \in Workers,
               \/ Acquire(w) \/ (\E o \in OpIds : Claim(w, o)) \/ RenewClaim(w)
               \/ VerifyClaim(w) \/ LoadDesired(w) \/ LoadCamera(w) \/ Release(w)
        PROVE  WroteKept(v)
    <2>1. /\ inflight' = inflight
          /\ v # w => pc'[v] = pc[v] /\ job'[v] = job[v] /\ me'[v] = me[v]
          /\ v = w => pc'[v] \notin {"mainWait", "sub", "subWait", "success"}
      BY <1>0, <1>2 DEF Acquire, Claim, RenewClaim, VerifyClaim, LoadDesired, LoadCamera,
         Release, mediaSide
    <2> QED BY <2>1
  <1>3. ASSUME NEW w \in Workers,
               \/ StartObservation(w) \/ Observe(w) \/ LoadDesiredStates(w)
               \/ ObservationDone(w) \/ (\E c \in Cameras : CompareCamera(w, c))
               \/ PersistObserved(w) \/ CheckDrift(w) \/ EnqueueDrift(w)
        PROVE  WroteKept(v)
    <2>1. /\ inflight' = inflight /\ job' = job /\ me' = me
          /\ v # w => pc'[v] = pc[v]
          /\ v = w => pc'[v] \notin {"mainWait", "sub", "subWait", "success"}
      BY <1>0, <1>3 DEF StartObservation, Observe, LoadDesiredStates, ObservationDone,
         CompareCamera, PersistObserved, CheckDrift, EnqueueDrift, mediaSide
    <2> QED BY <2>1
  <1>4. ASSUME NEW w \in Workers, SendRequest(w) PROVE WroteKept(v)
    <2>1. /\ job' = job /\ me' = me
          /\ v # w => pc'[v] = pc[v] /\ inflight'[v] = inflight[v]
          /\ v = w => /\ inflight'[v].st = "sent"
                      /\ \/ pc[v] = "main" /\ pc'[v] = "mainWait"
                         \/ pc[v] = "sub" /\ pc'[v] = "subWait"
      BY <1>0, <1>4 DEF SendRequest
    <2> QED BY <2>1
  <1>5. ASSUME NEW w \in Workers, ReceiveAnswer(w) PROVE WroteKept(v)
    <2>1. /\ me' = me
          /\ v # w => pc'[v] = pc[v] /\ inflight'[v] = inflight[v] /\ job'[v] = job[v]
          /\ v = w => /\ pc[v] \in {"mainWait", "subWait"}
                      /\ inflight'[v].st = "none"
                      /\ job'[v].op = job[v].op /\ job'[v].desired = job[v].desired
                      /\ job'[v].config = job[v].config
                      /\ \/ pc'[v] = "failure"
                         \/ inflight[v].st = "ok" /\ pc[v] = "mainWait" /\ pc'[v] = "sub"
                         \/ inflight[v].st = "ok" /\ pc[v] = "subWait" /\ pc'[v] = "success"
      BY <1>0, <1>5 DEF ReceiveAnswer, Job
    <2> QED BY <2>1 DEF Profiles
  <1>6. ASSUME NEW w \in Workers, RequestTimesOut(w) \/ Crash(w) PROVE WroteKept(v)
    <2>1. /\ v # w => /\ pc'[v] = pc[v] /\ inflight'[v] = inflight[v]
                      /\ job'[v] = job[v] /\ me'[v] = me[v]
          /\ v = w => pc'[v] \notin {"mainWait", "sub", "subWait", "success"}
      BY <1>0, <1>6 DEF RequestTimesOut, Crash
    <2> QED BY <2>1
  <1>7. ASSUME NEW w \in Workers, MediaExecutes(w) PROVE WroteKept(v)
    <2>1. /\ pc' = pc /\ job' = job /\ me' = me
          /\ v # w => inflight'[v] = inflight[v]
          /\ pc[w] \in {"mainWait", "subWait"}
      BY <1>0, <1>7 DEF MediaExecutes
    <2>2. CASE v = w
      BY <1>7, <2>1, <2>2
    <2>3. CASE v # w
      BY <2>1, <2>3
    <2> QED BY <2>2, <2>3
  <1>8. ASSUME \/ \E w \in Workers : MediaRefuses(w)
               \/ MediaRestarts \/ \E r \in orphans : MediaExecutesLate(r)
        PROVE  WroteKept(v)
    <2>1. /\ pc' = pc /\ job' = job /\ me' = me
          /\ \/ inflight'[v] = inflight[v]
             \/ \E st \in {"refused", "lost"} : inflight'[v] = [inflight[v] EXCEPT !.st = st]
      BY <1>0, <1>8 DEF MediaRefuses, MediaRestarts, MediaExecutesLate
    <2>2. inflight'[v].st = "ok" => inflight[v].st = "ok"
      BY <1>0, <2>1 DEF Exchange
    <2> QED BY <2>1, <2>2
  <1>9. ASSUME Requests \/ Time \/ UNCHANGED vars PROVE WroteKept(v)
    <2>1. pc' = pc /\ job' = job /\ me' = me /\ inflight' = inflight
      BY <1>9 DEF Requests, CreateCamera, UpdateCamera, DeleteCamera, ResolveOperation,
         Time, LeaseRunsOut, ClaimRunsOut, RetryComesDue, mediaSide, vars
    <2> QED BY <2>1
  <1> QED BY <1>1, <1>2, <1>3, <1>4, <1>5, <1>6, <1>7, <1>8, <1>9
          DEF Next, Step, Media, Trouble

\* What a worker saw of MediaMTX it sees again only by asking for it.
LEMMA InventoryStep ==
    ASSUME TypeOK, [Next]_vars, NEW v \in Workers, pc'[v] \in Observed
    PROVE  \/ Observe(v)
           \/ pc[v] \in Observed /\ obs'[v].media = obs[v].media
  <1> DEFINE Kept == pc[v] \in Observed /\ obs'[v].media = obs[v].media
  <1> USE DEF Goto, Observed, Persisting
  <1>0. /\ pc \in [Workers -> Locations] /\ obs \in [Workers -> Observation]
    BY DEF TypeOK
  <1>1. ASSUME NEW w \in Workers,
               \/ BeginCycle(w) \/ Acquire(w) \/ LeaseBusy(w) \/ RenewGlobal(w)
               \/ (\E o \in OpIds : Claim(w, o)) \/ ClaimNothing(w) \/ ClaimLost(w)
               \/ CheckClaim(w) \/ RenewClaim(w) \/ VerifyClaim(w) \/ LoadDesired(w)
               \/ LoadCamera(w) \/ SendRequest(w) \/ ReceiveAnswer(w)
        PROVE  Kept
    BY <1>0, <1>1 DEF BeginCycle, Acquire, LeaseBusy, RenewGlobal, Claim, ClaimNothing,
       ClaimLost, CheckClaim, RenewClaim, VerifyClaim, LoadDesired, LoadCamera,
       SendRequest, ReceiveAnswer
  <1>2. ASSUME NEW w \in Workers,
               \/ FinishFailure(w) \/ FinishRefused(w) \/ Abandon(w) \/ Release(w)
               \/ Start(w) \/ Crash(w) \/ RequestTimesOut(w) \/ ObserveFails(w)
        PROVE  Kept
    BY <1>0, <1>2 DEF FinishFailure, FinishRefused, Abandon, Release, Start, Crash,
       RequestTimesOut, ObserveFails
  <1>3. ASSUME NEW w \in Workers, FinishSuperseded(w) \/ FinishSuccess(w) PROVE Kept
    <2>1. /\ v # w => pc'[v] = pc[v]
          /\ v = w => pc'[v] = "releaseMore"
          /\ \/ obs' = obs
             \/ \E o, rows : obs' = Overtakes(o, rows)
      BY <1>0, <1>3 DEF FinishSuperseded, FinishSuccess, CompleteSuperseded
    <2>2. obs'[v].media = obs[v].media
      BY <2>1, OvertakesReads
    <2> QED BY <2>1, <2>2
  <1>4. ASSUME NEW w \in Workers, StartObservation(w) PROVE Kept
    <2>1. /\ v # w => pc'[v] = pc[v] /\ obs'[v] = [obs[v] EXCEPT !.older = @ \ {w}]
          /\ v = w => pc'[v] = "inventory"
      BY <1>0, <1>4 DEF StartObservation
    <2> QED BY <1>0, <2>1 DEF Observation
  <1>5. ASSUME NEW w \in Workers, Observe(w) PROVE Observe(v) \/ Kept
    BY <1>0, <1>5 DEF Observe
  <1>6. ASSUME NEW w \in Workers, LoadDesiredStates(w) PROVE Kept
    BY <1>0, <1>6 DEF LoadDesiredStates, Observation
  <1>7. ASSUME NEW w \in Workers, ObservationDone(w) PROVE Kept
    BY <1>0, <1>7 DEF ObservationDone
  <1>8. ASSUME NEW w \in Workers, NEW c \in Cameras, CompareCamera(w, c) PROVE Kept
    BY <1>0, <1>8 DEF CompareCamera, Observation
  <1>9. ASSUME NEW w \in Workers, PersistObserved(w) PROVE Kept
    <2>1. PICK newer : obs'[v] \in {obs[v], [obs[v] EXCEPT !.newer = newer]}
      BY <1>0, <1>9 DEF PersistObserved
    <2>2. v # w => pc'[v] = pc[v]
      BY <1>0, <1>9 DEF PersistObserved
    <2>3. pc[w] \in Observed
      BY <1>9 DEF PersistObserved
    <2> QED BY <1>0, <2>1, <2>2, <2>3 DEF Observation
  <1>10. ASSUME NEW w \in Workers, CheckDrift(w) \/ EnqueueDrift(w) PROVE Kept
    BY <1>0, <1>10 DEF CheckDrift, EnqueueDrift
  <1>11. ASSUME Requests \/ Media \/ Time \/ UNCHANGED vars PROVE Kept
    BY <1>11 DEF Requests, CreateCamera, UpdateCamera, DeleteCamera, ResolveOperation,
       Media, MediaExecutes, MediaRefuses, MediaExecutesLate, MediaRestarts,
       Time, LeaseRunsOut, ClaimRunsOut, RetryComesDue, vars
  <1> QED BY <1>1, <1>2, <1>3, <1>4, <1>5, <1>6, <1>7, <1>8, <1>9, <1>10, <1>11
          DEF Next, Step, Trouble

-----------------------------------------------------------------------------
(* The invariant, part by part.                                            *)

\* What the parts rest on, of this step and of the one before.
Grounds == EffectIInv /\ ObservationIInv /\ ExclusivePass

\* Of two workers that hold claims of one camera, neither is another.
LEMMA ClaimOfOneWorker ==
    ASSUME Grounds, OneClaimPerCamera, NEW v \in Workers, NEW w \in Workers,
           pc[v] \in ReadCamera, pc[w] \in ReadCamera, HoldsClaim(v), HoldsClaim(w),
           ops[job[v].op].camera = ops[job[w].op].camera
    PROVE  v = w
  <1>1. job[v].op \in OpIds /\ job[w].op \in OpIds
    BY JobOperation DEF Grounds, EffectIInv, ReadCamera, ReadDesired, Claiming
  <1>2. job[v].op = job[w].op
    BY <1>1 DEF OneClaimPerCamera, HoldsClaim, Active
  <1>3. InPass(v) /\ InPass(w)
    BY DEF Grounds, EffectIInv, WorkIsAccounted, WorkersAreAccounted, InPass, ReadCamera,
       ReadDesired
  <1> QED BY <1>2, <1>3 DEF HoldsClaim, Grounds, EffectIInv, ClaimsAreHeld

\* A request is sent as the row and the desired state that were read ask for.
LEMMA RequestsStep ==
    ASSUME Grounds, RequestsAreExpected, [Next]_vars
    PROVE  RequestsAreExpected'
  <1> SUFFICES ASSUME NEW w \in Workers, inflight'[w].st # "none"
               PROVE  /\ inflight'[w].profile = Profile(w)'
                      /\ inflight'[w].content =
                            Expected(job'[w].desired, job'[w].config)[Profile(w)']
    BY DEF RequestsAreExpected, Expected
  <1>0. TypeOK /\ WorkIsAccounted /\ InflightKept(w)
    BY InflightStep DEF Grounds, EffectIInv
  <1>1. CASE SendRequest(w)
    <2>1. /\ inflight'[w] = [st |-> "sent", profile |-> Profile(w),
                             content |-> Expected(job[w].desired, job[w].config)[Profile(w)]]
          /\ job' = job /\ Profile(w)' = Profile(w)
      BY <1>0, <1>1 DEF SendRequest, Goto, Profile, TypeOK
    <2> QED BY <2>1
  <1>2. CASE ~SendRequest(w)
    <2>1. /\ inflight[w].st # "none"
          /\ inflight'[w].profile = inflight[w].profile
          /\ inflight'[w].content = inflight[w].content
          /\ pc'[w] = pc[w] /\ job'[w] = job[w]
      BY <1>0, <1>2, Executing DEF InflightKept
    <2>2. Profile(w)' = Profile(w)
      BY <2>1 DEF Profile
    <2> QED BY <2>1, <2>2 DEF RequestsAreExpected
  <1> QED BY <1>1, <1>2

\* An operation is claimed only while its camera has no active one.
LEMMA OneClaimStep ==
    ASSUME TypeOK, WorkIsAccounted, OneClaimPerCamera, [Next]_vars
    PROVE  OneClaimPerCamera'
  <1> SUFFICES ASSUME NEW o \in OpIds, NEW q \in OpIds, Active(ops'[o]), Active(ops'[q]),
                      ops'[o].camera = ops'[q].camera, o # q
               PROVE  FALSE
    BY DEF OneClaimPerCamera, Active
  <1>1. ASSUME NEW a \in OpIds, NEW b \in OpIds, NEW v \in Workers, Claim(v, a), a # b,
               Active(ops'[b]), ops'[a].camera = ops'[b].camera
        PROVE  FALSE
    <2>1. /\ ops'[b] = ops[b] /\ ops'[a].camera = ops[a].camera
          /\ ~Occupied(ops, ops[a].camera)
      BY <1>1 DEF Claim, Claimable, Claimed, TypeOK, OpType
    <2> QED BY <1>1, <2>1 DEF Occupied
  <1>2. CASE \E v \in Workers : Claim(v, o) \/ Claim(v, q)
    BY <1>1, <1>2
  <1>3. CASE ~\E v \in Workers : Claim(v, o) \/ Claim(v, q)
    BY <1>3, ActiveStep DEF OneClaimPerCamera
  <1> QED BY <1>2, <1>3

\* What a worker wrote is served while the worker has its claim.
LEMMA WrittenStep ==
    ASSUME Grounds, RequestsAreExpected, WrittenIsServed, OneClaimPerCamera,
           [ServingNext]_servingVars
    PROVE  WrittenIsServed'
  <1> SUFFICES ASSUME NEW w \in Workers, NEW p \in Profiles, Wrote(w, p)', HoldsClaim(w)'
               PROVE  LET c == ops'[job'[w].op].camera IN
                      \/ <<c, p>> \in disturbed'
                      \/ media'[c][p] = Expected(job'[w].desired, job'[w].config)[p]
    BY DEF WrittenIsServed, Expected
  <1> DEFINE o == job[w].op
             c == ops[o].camera
             wanted == Expected(job[w].desired, job[w].config)[p]
  <1>0. TypeOK /\ WorkIsAccounted /\ ClaimsAreHeld /\ [Next]_vars
    BY ServingStep DEF Grounds, EffectIInv
  <1>1. /\ pc[w] \in ReadCamera
        /\ job'[w].op = o
        /\ Expected(job'[w].desired, job'[w].config)[p] = wanted
        /\ me'[w] = me[w]
        /\ Wrote(w, p) \/ (MediaExecutes(w) /\ p = Profile(w))
    BY <1>0, WroteStep DEF WroteKept
  <1>2. o \in OpIds /\ o <= created /\ c \in Cameras /\ pc[w] \in Holding
    BY <1>0, <1>1, JobOperation DEF ReadCamera, ReadDesired, Claiming, Holding
  <1>3. ops'[o].camera = c
    BY <1>0, <1>2, OperationStep DEF OperationsKept
  <1>4. HoldsClaim(w)
    <2>1. ops'[o].state = "running" /\ ops'[o].owner = me[w]
      BY <1>1 DEF HoldsClaim
    <2>2. ops[o].state # "pending"
      BY <1>0, <1>2 DEF ClaimsAreHeld, OpenStates
    <2>3. ~\E v \in Workers : Claim(v, o)
      BY <2>2 DEF Claim, Claimable
    <2> QED BY <1>0, <1>2, <2>1, <2>3, ActiveStep DEF HoldsClaim, Active
  <1>5. SUFFICES <<c, p>> \in disturbed' \/ media'[c][p] = wanted
    BY <1>1, <1>3
  <1>6. Wrote(w, p) => <<c, p>> \in disturbed \/ media[c][p] = wanted
    BY <1>4 DEF WrittenIsServed
  <1>7. media \in [Cameras -> [Profiles -> Content]]
    BY <1>0 DEF TypeOK, Paths
  <1> HIDE DEF c, o, wanted
  <1>8. ASSUME NEW v \in Workers, Executes(v)
        PROVE  <<c, p>> \in disturbed' \/ media'[c][p] = wanted
    <2> DEFINE e == ops[job[v].op].camera
               q == inflight[v].profile
    <2>1. /\ inflight[v].st # "none"
          /\ media' = [media EXCEPT ![e][q] = inflight[v].content]
          /\ disturbed' = IF HoldsClaim(v) THEN disturbed \ {<<e, q>>}
                          ELSE disturbed \cup {<<e, q>>}
      BY <1>8 DEF Executes, MediaExecutes, PathOf
    <2>2. /\ q = Profile(v)
          /\ inflight[v].content = Expected(job[v].desired, job[v].config)[q]
          /\ pc[v] \in ReadCamera
      BY <1>0, <2>1, Executing
         DEF RequestsAreExpected, Awaiting, ReadCamera, ReadDesired
    <2>3. HoldsClaim(v) /\ e = c => v = w
      BY <1>1, <1>4, <2>2, ClaimOfOneWorker DEF c, o
    <2>4. MediaExecutes(w) => inflight[w].st = "sent"
      BY DEF MediaExecutes
    <2>5. v = w => e = c /\ (p = q => inflight[v].content = wanted)
      BY <2>2 DEF c, o, wanted
    <2>6. MediaExecutes(w) /\ Executes(v) => v = w
      BY <1>0 DEF Executes, MediaExecutes, TypeOK, Exchange
    <2> HIDE DEF e, q
    <2>7. CASE e = c /\ q = p
      BY <1>2, <1>7, <2>1, <2>3, <2>5, <2>7
    <2>8. CASE ~(e = c /\ q = p)
      <3>1. Wrote(w, p)
        <4>1. v = w => q = Profile(w) /\ q # p
          BY <2>2, <2>5, <2>8
        <4> QED BY <1>1, <1>8, <2>6, <4>1
      <3>2. media'[c][p] = media[c][p]
        BY <1>2, <1>7, <2>1, <2>8
      <3>3. <<c, p>> \in disturbed => <<c, p>> \in disturbed'
        BY <2>1, <2>8
      <3> QED BY <1>6, <3>1, <3>2, <3>3
    <2> QED BY <2>7, <2>8
  <1>9. ASSUME NEW r \in orphans, ExecutesLate(r)
        PROVE  <<c, p>> \in disturbed' \/ media'[c][p] = wanted
    <2>1. /\ media' = [media EXCEPT ![r.camera][r.profile] = r.content]
          /\ disturbed' = disturbed \cup {<<r.camera, r.profile>>}
          /\ inflight' = inflight
      BY <1>9 DEF ExecutesLate, MediaExecutesLate
    <2>2. ~MediaExecutes(w)
      BY <1>0, <2>1 DEF MediaExecutes, TypeOK, Exchange
    <2> QED BY <1>1, <1>2, <1>6, <1>7, <2>1, <2>2
  <1>10. ASSUME Restarts PROVE <<c, p>> \in disturbed'
    BY <1>2, <1>10 DEF Restarts, AllPaths
  <1>11. ASSUME media' = media, disturbed' = disturbed
         PROVE  <<c, p>> \in disturbed' \/ media'[c][p] = wanted
    <2>1. MediaExecutes(w) /\ p = Profile(w) => media'[c][p] = wanted
      <3> SUFFICES ASSUME MediaExecutes(w), p = Profile(w) PROVE media'[c][p] = wanted
        OBVIOUS
      <3>1. /\ inflight[w].profile = p
            /\ inflight[w].content = wanted
        BY DEF MediaExecutes, RequestsAreExpected, wanted
      <3>2. media' = [media EXCEPT ![c][p] = wanted]
        BY <3>1 DEF MediaExecutes, c, o
      <3> QED BY <1>2, <1>7, <3>2
    <2> QED BY <1>1, <1>6, <1>11, <2>1
  <1> QED BY <1>8, <1>9, <1>10, <1>11, ServingBy

\* What an observation saw is still there, unless somebody else changed it.
LEMMA ObservedServedStep ==
    ASSUME Grounds, stalls = 0, ObservedIsServed, [ServingNext]_servingVars
    PROVE  ObservedIsServed'
  <1> SUFFICES ASSUME NEW w \in Workers, NEW c \in Cameras, NEW p \in Profiles,
                      pc'[w] \in Observed, <<c, p>> \notin disturbed'
               PROVE  media'[c][p] = obs'[w].media[c][p]
    BY DEF ObservedIsServed
  <1>0. /\ TypeOK /\ WorkIsAccounted /\ ExclusivePass /\ [Next]_vars
        /\ media \in [Cameras -> [Profiles -> Content]]
    BY ServingStep DEF Grounds, EffectIInv, TypeOK, Paths
  <1>1. CASE Observe(w)
    <2>1. obs'[w].media = media /\ media' = media
      BY <1>0, <1>1 DEF Observe, TypeOK, Observation, mediaSide
    <2> QED BY <2>1
  <1>2. CASE ~Observe(w)
    <2>1. pc[w] \in Observed /\ obs'[w].media = obs[w].media
      BY <1>0, <1>2, InventoryStep
    <2>2. <<c, p>> \notin disturbed => media[c][p] = obs[w].media[c][p]
      BY <2>1 DEF ObservedIsServed
    <2>3. ASSUME NEW v \in Workers, Executes(v) PROVE FALSE
      <3>1. pc[v] \in Awaiting
        BY <1>0, <2>3, Executing DEF Executes, MediaExecutes
      <3>2. InPass(v) /\ InPass(w)
        BY <1>0, <2>1, <3>1 DEF WorkIsAccounted, WorkersAreAccounted, InPass, Awaiting,
           Observed, Persisting
      <3>3. v = w
        BY <1>0, <3>2 DEF ExclusivePass
      <3> QED BY <2>1, <3>1, <3>3 DEF Awaiting, Observed, Persisting
    <2>4. ASSUME NEW r \in orphans, ExecutesLate(r)
          PROVE  media'[c][p] = media[c][p] /\ <<c, p>> \notin disturbed
      BY <1>0, <2>4 DEF ExecutesLate, MediaExecutesLate
    <2>5. ~Restarts
      BY DEF Restarts, AllPaths
    <2> QED BY <2>1, <2>2, <2>3, <2>4, <2>5, ServingBy
  <1> QED BY <1>1, <1>2

\* What is recorded in this step is recorded by the only worker in a pass.
LEMMA RecordedInPass ==
    ASSUME Grounds, stalls = 0, [Next]_vars, actual' # actual
    PROVE  /\ desired' = desired /\ committed' = committed
           /\ \A w \in Workers : pc'[w] \notin ReadDesired
  <1>0. TypeOK /\ WorkIsAccounted /\ ExclusivePass
    BY DEF Grounds, EffectIInv
  <1>1. PICK v \in Workers : FinishSuccess(v) \/ PersistObserved(v)
    BY ActualStep
  <1>2. /\ desired' = desired /\ committed' = committed
        /\ InPass(v)
        /\ pc'[v] \notin ReadDesired
        /\ \A w \in Workers : w # v => pc'[w] = pc[w]
    BY <1>0, <1>1 DEF FinishSuccess, PersistObserved, Goto, catalog, TypeOK, InPass,
       WorkIsAccounted, WorkersAreAccounted, ReadDesired
  <1>3. ASSUME NEW w \in Workers, pc'[w] \in ReadDesired PROVE FALSE
    <2>1. pc[w] \in ReadDesired /\ w # v
      BY <1>2, <1>3
    <2>2. InPass(w)
      BY <1>0, <2>1 DEF InPass, WorkIsAccounted, WorkersAreAccounted, ReadDesired
    <2> QED BY <1>0, <1>2, <2>1, <2>2 DEF ExclusivePass
  <1> QED BY <1>2, <1>3

\* A generation that replaces one being applied is not on record before that is over.
LEMMA ReplacedStep ==
    ASSUME Grounds, stalls = 0, ReplacedIsNotRecorded, [Next]_vars
    PROVE  ReplacedIsNotRecorded'
  <1> SUFFICES ASSUME NEW w \in Workers, NEW p \in Profiles, pc'[w] \in ReadDesired,
                      job'[w].desired.gen # desired'[ops'[job'[w].op].camera].gen
               PROVE  LET c == ops'[job'[w].op].camera
                      IN  actual'[c][p].gen # desired'[c].gen
    BY DEF ReplacedIsNotRecorded
  <1> DEFINE o == job[w].op
             c == ops[o].camera
  <1>0. /\ TypeOK /\ WorkIsAccounted /\ IInv /\ AppliedIsCommitted
        /\ ReadsKept(w)
    BY ReadStep DEF Grounds, EffectIInv, ObservationIInv
  <1>1. CASE LoadDesired(w)
    <2>1. /\ o \in OpIds /\ c \in Cameras
          /\ pc'[w] = IF desired[c].gen = ops[o].gen THEN "camera" ELSE "supersede"
          /\ job'[w].op = o /\ job'[w].desired = desired[c]
          /\ ops' = ops /\ desired' = desired
      BY <1>0, <1>1, JobOperation
         DEF LoadDesired, Goto, TypeOK, Job, store, catalog, Claiming
    <2> QED BY <2>1
  <1>2. CASE ~LoadDesired(w)
    <2>1. /\ pc[w] \in ReadDesired
          /\ job'[w].op = o /\ job'[w].desired = job[w].desired
      BY <1>0, <1>2 DEF ReadsKept
    <2>2. o \in OpIds /\ o <= created /\ c \in Cameras
      BY <1>0, <2>1, JobOperation DEF ReadDesired, Claiming
    <2>3. ops'[o].camera = c
      BY <1>0, <2>2, OperationStep DEF OperationsKept
    <2>4. actual' = actual
      BY RecordedInPass
    <2>5. actual[c][p].gen <= desired[c].gen /\ actual[c][p].gen \in Nat
      BY <1>0, <2>2, StoreAssumption DEF AppliedIsCommitted, TypeOK, Gens
    <2>6. job[w].desired.gen # desired[c].gen => actual[c][p].gen # desired[c].gen
      BY <2>1 DEF ReplacedIsNotRecorded
    <2>7. /\ desired[c].gen \in Nat
          /\ desired'[c] = desired[c] \/ desired'[c].gen = desired[c].gen + 1
      BY <1>0, <2>2, GenerationStep
    <2> HIDE DEF c, o
    <2> QED BY <2>1, <2>3, <2>4, <2>5, <2>6, <2>7
  <1> QED BY <1>1, <1>2

\* What a worker applies while its generation is current is what was committed.
LEMMA AppliesCommitted ==
    ASSUME IInv, NEW w \in Workers, pc[w] \in ReadCamera
    PROVE  LET c == ops[job[w].op].camera IN
           /\ c \in Cameras
           /\ job[w].desired.gen = ops[job[w].op].gen
           /\ job[w].desired.gen = desired[c].gen =>
                 committed[c][desired[c].gen] = Expected(job[w].desired, job[w].config)
  <1> DEFINE c == ops[job[w].op].camera
  <1>1. c \in Cameras
    BY JobOperation DEF IInv, ReadCamera, ReadDesired, Claiming
  <1>2. /\ job[w].desired.gen # 0
        /\ job[w].desired.gen = ops[job[w].op].gen
        /\ job[w].desired.gen = desired[c].gen =>
              job[w].desired = desired[c] /\ job[w].config = cam[c].config
    BY DEF IInv, SnapshotIsCurrent, ReadCamera
  <1> HIDE DEF c
  <1>3. ASSUME job[w].desired.gen = desired[c].gen
        PROVE  committed[c][desired[c].gen] = Expected(job[w].desired, job[w].config)
    <2>1. committed[c][desired[c].gen] = Expected(desired[c], cam[c].config)
      BY <1>1, <1>2, <1>3 DEF IInv, HistoryIsCurrent
    <2> QED BY <1>2, <1>3, <2>1
  <1> QED BY <1>1, <1>2, <1>3 DEF c

\* When finish_success completes, both paths have been written under the claim.
LEMMA SuccessIsServed ==
    ASSUME Grounds, WrittenIsServed, NEW w \in Workers, FinishSuccess(w), StillCurrent(w)
    PROVE  LET c == ops[job[w].op].camera
           IN  \A p \in Profiles : \/ <<c, p>> \in disturbed
                                   \/ media[c][p] = committed[c][desired[c].gen][p]
  <1> DEFINE c == ops[job[w].op].camera
  <1>1. /\ pc[w] = "success" /\ HoldsClaim(w) /\ job[w].desired.gen = desired[c].gen
        /\ IInv
    BY DEF FinishSuccess, Fenced, OwnedBy, HoldsClaim, StillCurrent, Grounds, ObservationIInv
  <1>2. committed[c][desired[c].gen] = Expected(job[w].desired, job[w].config)
    BY <1>1, AppliesCommitted DEF ReadCamera, ReadDesired
  <1>3. \A p \in Profiles : \/ <<c, p>> \in disturbed
                            \/ media[c][p] = Expected(job[w].desired, job[w].config)[p]
    BY <1>1 DEF WrittenIsServed, Wrote
  <1> HIDE DEF c
  <1> QED BY <1>2, <1>3 DEF c

\* What is on record with the current generation is served: it was written under the
\* claim of the one who records it, or is still as that one saw it; and no one else
\* writes, or what is written is that generation too.
LEMMA RecordStep ==
    ASSUME Grounds, ServingIInv, [ServingNext]_servingVars
    PROVE  RecordIsServed'
  <1> SUFFICES ASSUME stalls' = 0, NEW c \in Cameras, NEW p \in Profiles,
                      actual'[c][p].gen # 0, actual'[c][p].gen = desired'[c].gen,
                      <<c, p>> \notin disturbed'
               PROVE  media'[c][p] = committed'[c][desired'[c].gen][p]
    BY DEF RecordIsServed
  <1> DEFINE g == desired[c].gen
             wanted == committed[c][g][p]
  <1>0. /\ TypeOK /\ WorkIsAccounted /\ [Next]_vars /\ IInv /\ ObservationIsCurrent
        /\ AppliedIsCommitted
        /\ media \in [Cameras -> [Profiles -> Content]]
        /\ actual \in [Cameras -> [Profiles -> [content : Content, gen : Gens]]]
    BY ServingStep DEF Grounds, EffectIInv, ObservationIInv, TypeOK, Paths
  <1>1. /\ stalls = 0
        /\ RequestsAreExpected /\ WrittenIsServed /\ ObservedIsServed
        /\ ReplacedIsNotRecorded
    BY <1>0, LeaseStep DEF ServingIInv
  <1>2. /\ desired'[c].gen = g /\ g # 0
        /\ committed'[c][g] = committed[c][g]
    <2>1. actual'[c][p].gen = g + 1 => actual' # actual
      BY <1>0, StoreAssumption, GenerationStep DEF AppliedIsCommitted, Gens
    <2>2. desired'[c].gen # g + 1
      <3> SUFFICES ASSUME desired'[c].gen = g + 1 PROVE FALSE
        OBVIOUS
      <3>1. desired' = desired
        BY <1>0, <1>1, <2>1, RecordedInPass
      <3> QED BY <1>0, <3>1, GenerationStep
    <2> QED BY <1>0, <2>2, GenerationStep
  <1> SUFFICES media'[c][p] = wanted
    BY <1>2
  <1>3. /\ actual[c][p].gen = g /\ <<c, p>> \notin disturbed => media[c][p] = wanted
    BY <1>1, <1>2 DEF ServingIInv, RecordIsServed
  <1>4. ASSUME NEW w \in Workers, Executes(w) PROVE media'[c][p] = wanted
    <2> DEFINE e == ops[job[w].op].camera
               q == inflight[w].profile
    <2>1. /\ inflight[w].st # "none"
          /\ media' = [media EXCEPT ![e][q] = inflight[w].content]
          /\ disturbed' = IF HoldsClaim(w) THEN disturbed \ {<<e, q>>}
                          ELSE disturbed \cup {<<e, q>>}
          /\ actual' = actual
      BY <1>4 DEF Executes, MediaExecutes, PathOf
    <2>2. /\ pc[w] \in ReadCamera /\ pc[w] \in ReadDesired
          /\ inflight[w].content = Expected(job[w].desired, job[w].config)[q]
      BY <1>0, <1>1, <2>1, Executing
         DEF RequestsAreExpected, Awaiting, ReadCamera, ReadDesired
    <2>3. CASE e = c /\ q = p
      <3>1. job[w].desired.gen = desired[c].gen
        BY <1>1, <1>2, <2>1, <2>2, <2>3 DEF ReplacedIsNotRecorded
      <3>2. committed[c][g] = Expected(job[w].desired, job[w].config)
        BY <1>0, <2>2, <2>3, <3>1, AppliesCommitted
      <3>3. media'[c][p] = inflight[w].content
        BY <1>0, <2>1, <2>3
      <3> QED BY <2>2, <2>3, <3>2, <3>3
    <2>4. CASE ~(e = c /\ q = p)
      <3> HIDE DEF e, q
      <3>1. media'[c][p] = media[c][p] /\ <<c, p>> \notin disturbed
        BY <1>0, <2>1, <2>4
      <3> QED BY <1>2, <1>3, <2>1, <3>1
    <2> QED BY <2>3, <2>4
  <1>5. ASSUME NEW r \in orphans, ExecutesLate(r) PROVE media'[c][p] = wanted
    <2>1. /\ media' = [media EXCEPT ![r.camera][r.profile] = r.content]
          /\ disturbed' = disturbed \cup {<<r.camera, r.profile>>}
          /\ actual' = actual
      BY <1>5 DEF ExecutesLate, MediaExecutesLate
    <2>2. media'[c][p] = media[c][p] /\ <<c, p>> \notin disturbed
      BY <1>0, <2>1
    <2> QED BY <1>2, <1>3, <2>1, <2>2
  <1>6. ~Restarts
    BY DEF Restarts, AllPaths
  <1>7. ASSUME media' = media, disturbed' = disturbed PROVE media'[c][p] = wanted
    <2>1. CASE actual'[c][p] = actual[c][p]
      BY <1>2, <1>3, <1>7, <2>1
    <2>2. ASSUME NEW w \in Workers, FinishSuccess(w), StillCurrent(w),
                 actual'[c][p] # actual[c][p]
          PROVE  media[c][p] = wanted
      <3>1. c = ops[job[w].op].camera
        BY <1>0, <2>2, SuccessRecords
      <3> QED BY <1>1, <1>7, <2>2, <3>1, SuccessIsServed
    <2>3. ASSUME NEW w \in Workers, PersistObserved(w), actual'[c][p] # actual[c][p]
          PROVE  media[c][p] = wanted
      <3> DEFINE e == obs[w].camera
                 q == IF pc[w] = "persistMain" THEN "main" ELSE "sub"
      <3>1. pc[w] \in {"persistMain", "persistSub"} /\ pc[w] \in Observed
        BY <2>3 DEF PersistObserved, Observed, Persisting
      <3>2. e \in Cameras /\ q \in Profiles
        BY <1>0 DEF TypeOK, Observation, Profiles
      <3>3. actual' \in {actual, [actual EXCEPT ![e][q] =
                                    [content |-> obs[w].media[e][q],
                                     gen |-> IF obs[w].match[q]
                                             THEN obs[w].desired[e].gen ELSE 0]]}
        BY <2>3 DEF PersistObserved, AppliedGeneration
      <3>4. /\ obs[w].desired[e].gen = desired[e].gen /\ obs[w].match[q] =>
                  obs[w].media[e][q] = committed[e][desired[e].gen][q]
        BY <1>0, <3>1, <3>2 DEF ObservationIsCurrent
      <3> HIDE DEF e, q
      <3>5. c = e /\ p = q /\ obs[w].match[q] /\ obs[w].desired[e].gen = g
        BY <1>0, <1>2, <2>3, <3>2, <3>3
      <3>6. media[c][p] = obs[w].media[c][p]
        BY <1>1, <1>7, <3>1 DEF ObservedIsServed
      <3> QED BY <3>4, <3>5, <3>6
    <2> QED BY <1>0, <1>7, <2>1, <2>2, <2>3, ActualStep
  <1> QED BY <1>4, <1>5, <1>6, <1>7, ServingBy

\* Every step keeps all of it.
LEMMA ServingKept ==
    ASSUME Grounds, ServingIInv, [ServingNext]_servingVars
    PROVE  ServingIInv'
  <1>0. /\ TypeOK /\ WorkIsAccounted /\ [Next]_vars
        /\ RequestsAreExpected /\ WrittenIsServed /\ OneClaimPerCamera
    BY ServingStep DEF Grounds, EffectIInv, ServingIInv
  <1>1. ServingTypeOK'
    <2>1. ASSUME NEW w \in Workers, Executes(w) PROVE PathOf(w) \in AllPaths
      <3>1. pc[w] \in Awaiting
        BY <1>0, <2>1, Executing DEF Executes, MediaExecutes
      <3>2. ops[job[w].op].camera \in Cameras
        BY <1>0, <3>1, JobOperation DEF Awaiting, Claiming
      <3> QED BY <1>0, <3>2 DEF TypeOK, Exchange, PathOf, AllPaths
    <2>2. \A r \in orphans : <<r.camera, r.profile>> \in AllPaths
      BY <1>0 DEF TypeOK, Request, AllPaths
    <2> QED BY <2>1, <2>2, ServingBy
            DEF ServingIInv, ServingTypeOK, Executes, ExecutesLate, Restarts
  <1>2. RequestsAreExpected' /\ OneClaimPerCamera' /\ WrittenIsServed' /\ RecordIsServed'
    BY <1>0, RequestsStep, OneClaimStep, WrittenStep, RecordStep
  <1>3. stalls' = 0 => ObservedIsServed' /\ ReplacedIsNotRecorded'
    BY <1>0, LeaseStep, ObservedServedStep, ReplacedStep DEF ServingIInv
  <1> QED BY <1>1, <1>2, <1>3 DEF ServingIInv

\* The history is empty at first, and nothing has been written.
LEMMA ServingInitially == ServingInit => ServingIInv
  <1> SUFFICES ASSUME ServingInit PROVE ServingIInv
    OBVIOUS
  <1> USE DEF ServingInit, Init
  <1>1. ServingTypeOK /\ RequestsAreExpected /\ WrittenIsServed
    BY DEF ServingTypeOK, RequestsAreExpected, WrittenIsServed, NoExchange, Wrote
  <1>2. OneClaimPerCamera
    BY DEF OneClaimPerCamera, Active, NoOp
  <1>3. ObservedIsServed /\ ReplacedIsNotRecorded /\ RecordIsServed
    BY DEF ObservedIsServed, Observed, Persisting, ReplacedIsNotRecorded, ReadDesired,
       RecordIsServed, NoRow
  <1> QED BY <1>1, <1>2, <1>3 DEF ServingIInv

-----------------------------------------------------------------------------
(* The theorems.                                                           *)

\* Whatever was proved of the reconciler holds of it with the history.
LEMMA ServingImplements == ServingSpec => Spec /\ []Grounds
  <1>1. ServingInit => Init
    BY DEF ServingInit
  <1>2. [ServingNext]_servingVars => [Next]_vars
    BY ServingStep
  <1>3. EffectIInv /\ ObservationIInv /\ ExclusivePass => Grounds
    BY DEF Grounds
  <1> QED BY <1>1, <1>2, <1>3, EffectsStayOpen, ObservationsAreHonest, PassesExclude, PTL
          DEF ServingSpec, Spec

\* The inductive invariant behind the two theorems below, for any number of servers,
\* cameras, crashes, lost answers and expired leases.
THEOREM ServingIsKept == ServingSpec => []ServingIInv
  <1>1. ServingInit => ServingIInv
    BY ServingInitially
  <1>2. Grounds /\ ServingIInv /\ [ServingNext]_servingVars => ServingIInv'
    BY ServingKept
  <1> QED BY <1>1, <1>2, ServingImplements, PTL DEF ServingSpec

\* As long as no lease ran out under a live worker, what media_actual_paths has on
\* record with the current generation is what MediaMTX has, unless MediaMTX restarted or
\* executed a request that no claim covered since the path was last written.
THEOREM RecordsAreServed == ServingSpec => []RecordIsServed
  <1>1. ServingIInv => RecordIsServed
    BY DEF ServingIInv
  <1> QED BY <1>1, ServingIsKept, PTL

\* And whatever leases ran out: when an operation is reported converged, MediaMTX has
\* what the request that committed its generation asked for, with the same exception
\* (apply_desired writes the paths, finish_success reports them, and nothing in
\* MediaMTX fences a worker that comes late).
THEOREM ConvergenceIsServed == ServingSpec => ConvergedIsServed
  <1>1. ASSUME Grounds, ServingIInv, [Next]_vars, NEW o \in OpIds,
               ops[o].result = "none", ops'[o].result = "converged"
        PROVE  \A p \in Profiles :
                  \/ media[ops[o].camera][p] = committed[ops[o].camera][ops[o].gen][p]
                  \/ <<ops[o].camera, p>> \in disturbed
    <2>1. TypeOK /\ WorkIsAccounted /\ IInv /\ WrittenIsServed
      BY <1>1 DEF Grounds, EffectIInv, ObservationIInv, ServingIInv
    <2>2. PICK w \in Workers : FinishSuccess(w) /\ StillCurrent(w) /\ o = job[w].op
      BY <1>1, <2>1, ConvergedBy
    <2>3. ops[o].gen = desired[ops[o].camera].gen
      BY <2>1, <2>2, SuccessRecords
    <2> QED BY <1>1, <2>1, <2>2, <2>3, SuccessIsServed
  <1>2. Grounds /\ ServingIInv /\ [ServingNext]_servingVars =>
          [\A o \in OpIds :
             /\ ops[o].result = "none"
             /\ ops'[o].result = "converged"
             => \A p \in Profiles :
                  \/ media[ops[o].camera][p] = committed[ops[o].camera][ops[o].gen][p]
                  \/ <<ops[o].camera, p>> \in disturbed]_servingVars
    BY <1>1, ServingStep
  <1> QED BY <1>2, ServingIsKept, ServingImplements, PTL DEF ServingSpec, ConvergedIsServed
=============================================================================
