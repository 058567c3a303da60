--------------------- MODULE MediaReconciliationProofs ---------------------
(***************************************************************************)
(* Theorems about MediaReconciliation, for any workers, cameras,           *)
(* configurations and bounds.                                              *)
(***************************************************************************)
EXTENDS MediaReconciliation, TLAPS

-----------------------------------------------------------------------------
(* The operation store.                                                    *)

\* A row that is not there, and one that is inserted, are operations.
LEMMA NewOpType ==
    /\ NoOp \in OpType
    /\ \A c \in Cameras, g \in Gens : /\ NewOp(c, g) \in OpType
                                      /\ NewOp(c, g).state = "pending"
                                      /\ NewOp(c, g).attempt = 0
                                      /\ NewOp(c, g).gen = g
                                      /\ NewOp(c, g).result = "none"
  <1>1. (CHOOSE c \in Cameras : TRUE) \in Cameras
    BY StoreAssumption
  <1>2. NoOp \in OpType
    BY <1>1, StoreAssumption DEF NoOp, OpType, Gens, OpStates, Results
  <1>3. ASSUME NEW c \in Cameras, NEW g \in Gens
        PROVE  /\ NewOp(c, g) \in OpType
               /\ NewOp(c, g).state = "pending"
               /\ NewOp(c, g).attempt = 0
               /\ NewOp(c, g).gen = g
               /\ NewOp(c, g).result = "none"
    BY <1>2, <1>3 DEF NewOp, NoOp, OpType, OpStates
  <1> QED BY <1>2, <1>3

\* A claim keeps the operation an operation as long as it has an attempt left.
LEMMA ClaimedType ==
    ASSUME NEW op \in OpType, NEW owner \in Owners, op.attempt < MaxAttempts
    PROVE  /\ Claimed(op, owner) \in OpType
           /\ Claimed(op, owner).state = "running"
           /\ Claimed(op, owner).camera = op.camera
           /\ Claimed(op, owner).gen = op.gen
           /\ Claimed(op, owner).result = op.result
  <1>1. op.attempt + 1 \in 0..MaxAttempts
    BY StoreAssumption DEF OpType
  <1> QED BY <1>1 DEF Claimed, OpType, OpStates

\* Leaving "running" changes the state and the lease and nothing else.
LEMMA UnleasedType ==
    ASSUME NEW op \in OpType, NEW state \in OpStates
    PROVE  /\ Unleased(op, state) \in OpType
           /\ Unleased(op, state).state = state
           /\ Unleased(op, state).camera = op.camera
           /\ Unleased(op, state).gen = op.gen
           /\ Unleased(op, state).attempt = op.attempt
           /\ Unleased(op, state).result = op.result
  BY DEF Unleased, OpType

\* A success keeps the operation an operation.
LEMMA SucceedType ==
    ASSUME NEW op \in OpType, NEW result \in Results
    PROVE  /\ Succeed(op, result) \in OpType
           /\ Succeed(op, result).state = "succeeded"
           /\ Succeed(op, result).camera = op.camera
           /\ Succeed(op, result).gen = op.gen
           /\ Succeed(op, result).result = result
  <1> DEFINE done == Unleased(op, "succeeded")
  <1>1. "succeeded" \in OpStates
    BY DEF OpStates
  <1>2. /\ done \in OpType
        /\ done.state = "succeeded"
        /\ done.camera = op.camera
        /\ done.gen = op.gen
    BY <1>1, UnleasedType
  <1>3. Succeed(op, result) = [done EXCEPT !.result = result]
    BY DEF Succeed
  <1> HIDE DEF done
  <1> QED BY <1>2, <1>3 DEF OpType

\* A failed attempt is offered again only if there are attempts left.
LEMMA FailedType ==
    ASSUME NEW op \in OpType, NEW outcome \in Outcomes
    PROVE  /\ Failed(op, outcome) \in OpType
           /\ Failed(op, outcome).state \in {"unknown", "pending", "dead_letter"}
           /\ Failed(op, outcome).state = "pending" =>
                 Failed(op, outcome).attempt < MaxAttempts
           /\ Failed(op, outcome).camera = op.camera
           /\ Failed(op, outcome).gen = op.gen
           /\ Failed(op, outcome).result = op.result
  <1>1. CASE outcome = "unknown"
    BY <1>1, UnleasedType DEF Failed, MarkIndeterminate, OpStates
  <1>2. CASE outcome # "unknown" /\ op.attempt < MaxAttempts
    BY <1>2, UnleasedType DEF Failed, Fail, OpStates
  <1>3. CASE outcome # "unknown" /\ ~(op.attempt < MaxAttempts)
    BY <1>3, UnleasedType DEF Failed, Fail, OpStates
  <1> QED BY <1>1, <1>2, <1>3

-----------------------------------------------------------------------------
(* The values that stand for "nothing".                                    *)

\* A worker that has claimed nothing holds a job all the same.
LEMMA NoJobType == NoJob \in Job
  <1>1. (CHOOSE k \in Configs : TRUE) \in Configs
    BY ModelAssumption
  <1>2. NoDesired \in Desired
    BY StoreAssumption DEF NoDesired, Desired, Gens
  <1> QED BY <1>1, <1>2, StoreAssumption DEF NoJob, Job, Outcomes

\* A worker that observes nothing holds an empty observation.
LEMMA NoObsType == NoObs \in Observation
  <1>1. (CHOOSE c \in Cameras : TRUE) \in Cameras
    BY StoreAssumption
  <1>2. NoPaths \in Paths
    BY DEF NoPaths, Paths, Content
  <1>3. NoDesired \in Desired
    BY StoreAssumption DEF NoDesired, Desired, Gens
  <1>4. /\ [c \in Cameras |-> NoPaths] \in [Cameras -> Paths]
        /\ [c \in Cameras |-> NoDesired] \in [Cameras -> Desired]
        /\ [p \in Profiles |-> FALSE] \in [Profiles -> BOOLEAN]
    BY <1>2, <1>3
  <1> QED BY <1>1, <1>4 DEF NoObs, Observation

\* A worker that awaits nothing holds an empty exchange.
LEMMA NoExchangeType == NoExchange \in Exchange
  BY DEF NoExchange, Exchange, Profiles, Content

\* MediaMTX without paths is a configuration of it.
LEMMA NoPathsType == NoPaths \in Paths
  BY DEF NoPaths, Paths, Content

\* What a desired state asks for, and what is recorded for it, are contents.
LEMMA ExpectedType ==
    ASSUME NEW d \in Desired, NEW k \in Configs
    PROVE  /\ Expected(d, k) \in Paths
           /\ Recorded(d, k) \in Paths
  <1>1. /\ k.main \in Sources
        /\ k.sub \in Sources \cup {NoSource}
        /\ d.record \in BOOLEAN
    BY ModelAssumption DEF Desired
  <1>2. /\ [source |-> k.main, record |-> d.record] \in Content
        /\ [source |-> k.sub, record |-> FALSE] \in Content
        /\ Absent \in Content
    BY <1>1 DEF Content
  <1>3. \A p \in Profiles : Expected(d, k)[p] \in Content
    BY <1>2 DEF Expected, Profiles, Desired
  <1>4. \A p \in Profiles : Recorded(d, k)[p] \in Content
    BY <1>2 DEF Recorded, ShouldExist, Profiles, Desired
  <1> QED BY <1>3, <1>4 DEF Paths, Expected, Recorded

\* A worker that is busy with an operation has one.
LEMMA JobOperation ==
    ASSUME TypeOK, WorkIsAccounted, NEW w \in Workers, pc[w] \in Claiming
    PROVE  /\ job[w] \in Job
           /\ job[w].op \in OpIds
           /\ job[w].op <= created
           /\ ops[job[w].op] \in OpType
           /\ ops[job[w].op].camera \in Cameras
           /\ ops[job[w].op].gen \in Gens
           /\ desired[ops[job[w].op].camera] \in Desired
           /\ cam[ops[job[w].op].camera].config \in Configs
  <1>1. job[w] \in Job /\ job[w].op \in OpIds /\ job[w].op <= created
    BY StoreAssumption DEF TypeOK, WorkIsAccounted, WorkersAreAccounted, Job, OpIds
  <1>2. ops[job[w].op] \in OpType
    BY <1>1 DEF TypeOK
  <1>3. ops[job[w].op].camera \in Cameras /\ ops[job[w].op].gen \in Gens
    BY <1>2 DEF OpType
  <1>4. cam[ops[job[w].op].camera]
          \in [state : {"none", "live", "deleted"}, config : Configs]
    BY <1>3 DEF TypeOK
  <1> QED BY <1>1, <1>2, <1>3, <1>4 DEF TypeOK

\* A request that is under way is the one its worker awaits.
LEMMA OrphanedType ==
    ASSUME TypeOK, WorkIsAccounted, NEW w \in Workers
    PROVE  Orphaned(w) \in SUBSET Request
  <1>1. CASE inflight[w].st = "sent"
    <2>1. pc[w] \in Claiming
      BY <1>1 DEF WorkIsAccounted, WorkersAreAccounted, Claiming
    <2>2. inflight[w] \in Exchange
      BY DEF TypeOK
    <2>3. [op |-> job[w].op, camera |-> ops[job[w].op].camera,
           profile |-> inflight[w].profile, content |-> inflight[w].content] \in Request
      BY <2>1, <2>2, JobOperation DEF Exchange, Request
    <2> QED BY <1>1, <2>3 DEF Orphaned, TypeOK
  <1>2. CASE inflight[w].st # "sent"
    BY <1>2 DEF Orphaned, TypeOK
  <1> QED BY <1>1, <1>2

\* A new operation takes the next row.
LEMMA EnqueueType ==
    ASSUME TypeOK, WorkIsAccounted, NEW c \in Cameras, NEW g \in Gens, Enqueue(c, g)
    PROVE  /\ created + 1 \in OpIds
           /\ created' \in 0..MaxOps
           /\ ops' \in [OpIds -> OpType]
           /\ ops' = [ops EXCEPT ![created + 1] = NewOp(c, g)]
           /\ created' = created + 1
  <1>1. created + 1 \in OpIds /\ created' \in 0..MaxOps
    BY StoreAssumption DEF Enqueue, TypeOK, OpIds
  <1> QED BY <1>1, NewOpType DEF Enqueue, TypeOK

\* A request for a change commits a desired state, its history and an operation.
LEMMA QueueType ==
    ASSUME TypeOK, WorkIsAccounted, NEW c \in Cameras, NEW k \in Configs,
           NEW present \in BOOLEAN, QueueCameraChange(c, k, present)
    PROVE  /\ desired' \in [Cameras -> Desired]
           /\ committed' \in [Cameras -> [1..MaxGen -> Paths]]
           /\ created' \in 0..MaxOps
           /\ ops' \in [OpIds -> OpType]
  <1> DEFINE g == desired[c].gen + 1
             d == [gen |-> g, present |-> present,
                   sub |-> present /\ k.sub # NoSource,
                   record |-> present /\ k.record]
  <1>1. desired[c].gen \in Gens
    BY DEF TypeOK, Desired
  <1>2. g \in Gens /\ g \in 1..MaxGen
    BY <1>1, StoreAssumption DEF QueueCameraChange, Gens
  <1>3. (present /\ k.sub # NoSource) \in BOOLEAN /\ (present /\ k.record) \in BOOLEAN
    BY ModelAssumption
  <1>4. d \in Desired
    BY <1>2, <1>3 DEF Desired
  <1>5. Expected(d, k) \in Paths
    BY <1>4, ExpectedType
  <1>6. /\ desired' = [desired EXCEPT ![c] = d]
        /\ committed' = [committed EXCEPT ![c][g] = Expected(d, k)]
        /\ Enqueue(c, g)
    BY DEF QueueCameraChange
  <1>7. desired' \in [Cameras -> Desired]
    BY <1>4, <1>6 DEF TypeOK
  <1>8. committed' \in [Cameras -> [1..MaxGen -> Paths]]
    <2> HIDE DEF d, g
    <2> QED BY <1>2, <1>5, <1>6 DEF TypeOK
  <1> HIDE DEF d, g
  <1> QED BY <1>2, <1>6, <1>7, <1>8, EnqueueType

\* Recovery and resolution leave operations where there were operations.
LEMMA RecoveredType ==
    ASSUME NEW rows \in [OpIds -> OpType]
    PROVE  /\ RecoverRunning(rows) \in [OpIds -> OpType]
           /\ RecoverExpired(rows) \in [OpIds -> OpType]
           /\ \A recovered \in {RecoverRunning(rows), RecoverExpired(rows)}, o \in OpIds :
                 \/ recovered[o] = rows[o]
                 \/ /\ rows[o].state = "running"
                    /\ recovered[o].state = "unknown"
                    /\ recovered[o].camera = rows[o].camera
                    /\ recovered[o].gen = rows[o].gen
                    /\ recovered[o].result = rows[o].result
  <1>1. \A o \in OpIds : /\ Unleased(rows[o], "unknown") \in OpType
                         /\ Unleased(rows[o], "unknown").state = "unknown"
                         /\ Unleased(rows[o], "unknown").camera = rows[o].camera
                         /\ Unleased(rows[o], "unknown").gen = rows[o].gen
                         /\ Unleased(rows[o], "unknown").result = rows[o].result
    BY UnleasedType DEF OpStates
  <1> QED BY <1>1 DEF RecoverRunning, RecoverExpired

\* Giving a claim up keeps the operation an operation.
LEMMA AbandonType ==
    ASSUME NEW op \in OpType, NEW owner
    PROVE  /\ AbandonClaim(op, owner) \in OpType
           /\ AbandonClaim(op, owner).camera = op.camera
           /\ AbandonClaim(op, owner).gen = op.gen
           /\ AbandonClaim(op, owner).result = op.result
           /\ \/ AbandonClaim(op, owner) = op
              \/ op.state = "running" /\ AbandonClaim(op, owner).state = "unknown"
  <1>1. /\ Unleased(op, "unknown") \in OpType
        /\ Unleased(op, "unknown").state = "unknown"
        /\ Unleased(op, "unknown").camera = op.camera
        /\ Unleased(op, "unknown").gen = op.gen
        /\ Unleased(op, "unknown").result = op.result
    BY UnleasedType DEF OpStates
  <1> QED BY <1>1 DEF AbandonClaim

\* So does an administrator's decision.
LEMMA ResolvedType ==
    ASSUME NEW op \in OpType, NEW resolution
    PROVE  /\ Resolved(op, resolution) \in OpType
           /\ Resolved(op, resolution).state \in {"resolved", "dead_letter"}
           /\ Resolved(op, resolution).camera = op.camera
           /\ Resolved(op, resolution).gen = op.gen
           /\ Resolved(op, resolution).result = op.result
  <1>1. (IF resolution = "confirmed" THEN "resolved" ELSE "dead_letter") \in OpStates
    BY DEF OpStates
  <1> QED BY <1>1 DEF Resolved, OpType

\* What a completion adds to the observations in progress.
LEMMA OvertakesType ==
    ASSUME TypeOK, NEW o \in OpIds, NEW rows \in SUBSET (Cameras \X Profiles)
    PROVE  Overtakes(o, rows) \in [Workers -> Observation]
  <1>1. ASSUME NEW v \in Workers
        PROVE  [obs[v] EXCEPT !.since = @ \cup {o}, !.newer = @ \cup rows] \in Observation
    <2>1. obs[v] \in Observation
      BY DEF TypeOK
    <2>2. obs[v].since \cup {o} \in SUBSET OpIds
      BY <2>1 DEF Observation
    <2>3. obs[v].newer \cup rows \in SUBSET (Cameras \X Profiles)
      BY <2>1 DEF Observation
    <2> QED BY <2>1, <2>2, <2>3 DEF Observation
  <1> QED BY <1>1 DEF Overtakes, TypeOK


\* Every step leads from well-formed states to well-formed states.
LEMMA TypeStep == TypeOK /\ WorkIsAccounted /\ [Next]_vars => TypeOK'
  <1> SUFFICES ASSUME TypeOK, WorkIsAccounted, [Next]_vars PROVE TypeOK'
    OBVIOUS
  <1> USE DEF catalog, store, mediaSide, bounds, Goto
  <1>1. ASSUME NEW w \in Workers, BeginCycle(w) PROVE TypeOK'
    <2>1. ops' \in [OpIds -> OpType]
      BY <1>1, RecoveredType DEF BeginCycle, TypeOK
    <2>2. pc' \in [Workers -> Locations]
      BY <1>1 DEF BeginCycle, TypeOK, Locations, Working, Observing
    <2> QED BY <1>1, <2>1, <2>2 DEF BeginCycle, TypeOK
  <1>2. ASSUME NEW w \in Workers, Acquire(w) PROVE TypeOK'
    <2>1. lease' \in Lease
      BY <1>2 DEF Acquire, TypeOK, Lease
    <2>2. me' \in [Workers -> Owners \cup {NoOwner}]
      BY <1>2 DEF Acquire, TypeOK
    <2>3. pc' \in [Workers -> Locations]
      BY <1>2 DEF Acquire, TypeOK, Locations, Working, Observing
    <2> QED BY <1>2, <2>1, <2>2, <2>3 DEF Acquire, TypeOK
  <1>3. ASSUME NEW w \in Workers, LeaseBusy(w) PROVE TypeOK'
    <2>1. pc' \in [Workers -> Locations]
      BY <1>3 DEF LeaseBusy, TypeOK, Locations, Working, Observing
    <2> QED BY <1>3, <2>1 DEF LeaseBusy, TypeOK
  <1>4. ASSUME NEW w \in Workers, RenewGlobal(w) PROVE TypeOK'
    <2>1. pc' \in [Workers -> Locations]
      BY <1>4 DEF RenewGlobal, TypeOK, Locations, Working, Observing
    <2> QED BY <1>4, <2>1 DEF RenewGlobal, TypeOK
  <1>5. ASSUME NEW w \in Workers, NEW o \in OpIds, Claim(w, o) PROVE TypeOK'
    <2>1. ops[o] \in OpType /\ ops[o].attempt < MaxAttempts
      BY <1>5 DEF Claim, Claimable, TypeOK, WorkIsAccounted,
             OperationsAreAccounted
    <2>2. me[w] \in Owners
      BY <1>5 DEF Claim, TypeOK, WorkIsAccounted, WorkersAreAccounted
    <2>3. ops' \in [OpIds -> OpType]
      BY <1>5, <2>1, <2>2, ClaimedType DEF Claim, TypeOK
    <2>4. o \in 0..MaxOps
      BY StoreAssumption DEF OpIds
    <2>5. job' \in [Workers -> Job]
      BY <1>5, <2>4 DEF Claim, TypeOK, Job
    <2>6. pc' \in [Workers -> Locations]
      BY <1>5 DEF Claim, TypeOK, Locations, Working, Observing
    <2> QED BY <1>5, <2>3, <2>5, <2>6 DEF Claim, TypeOK
  <1>6. ASSUME NEW w \in Workers, ClaimNothing(w) PROVE TypeOK'
    <2>1. pc' \in [Workers -> Locations]
      BY <1>6 DEF ClaimNothing, TypeOK, Locations, Working, Observing
    <2> QED BY <1>6, <2>1 DEF ClaimNothing, TypeOK
  <1>7. ASSUME NEW w \in Workers, ClaimLost(w) PROVE TypeOK'
    <2>1. pc' \in [Workers -> Locations]
      BY <1>7 DEF ClaimLost, TypeOK, Locations, Working, Observing
    <2> QED BY <1>7, <2>1 DEF ClaimLost, TypeOK
  <1>8. ASSUME NEW w \in Workers, CheckClaim(w) PROVE TypeOK'
    <2>1. pc' \in [Workers -> Locations]
      BY <1>8 DEF CheckClaim, TypeOK, Locations, Working, Observing
    <2> QED BY <1>8, <2>1 DEF CheckClaim, TypeOK
  <1>9. ASSUME NEW w \in Workers, RenewClaim(w) PROVE TypeOK'
    <2>1. job' \in [Workers -> Job]
      <3>1. ops[job[w].op].live \in BOOLEAN /\ job[w] \in Job
        BY <1>9, JobOperation DEF RenewClaim, Claiming, OpType
      <3>2. [job[w] EXCEPT !.fresh = ops[job[w].op].live] \in Job
        BY <3>1 DEF Job
      <3>3. job' = [job EXCEPT ![w] = [job[w] EXCEPT !.fresh = ops[job[w].op].live]]
        BY <1>9 DEF RenewClaim
      <3> QED BY <3>2, <3>3 DEF TypeOK
    <2>2. pc' \in [Workers -> Locations]
      BY <1>9 DEF RenewClaim, TypeOK, Locations, Working, Observing
    <2> QED BY <1>9, <2>1, <2>2 DEF RenewClaim, TypeOK
  <1>10. ASSUME NEW w \in Workers, VerifyClaim(w) PROVE TypeOK'
    <2>1. job' \in [Workers -> Job]
      BY <1>10, JobOperation DEF VerifyClaim, TypeOK, Claiming, Job
    <2>2. pc' \in [Workers -> Locations]
      BY <1>10 DEF VerifyClaim, TypeOK, Locations, Working, Observing
    <2> QED BY <1>10, <2>1, <2>2 DEF VerifyClaim, TypeOK
  <1>11. ASSUME NEW w \in Workers, LoadDesired(w) PROVE TypeOK'
    <2>1. job' \in [Workers -> Job]
      BY <1>11, JobOperation DEF LoadDesired, TypeOK, Claiming, Job
    <2>2. pc' \in [Workers -> Locations]
      BY <1>11 DEF LoadDesired, TypeOK, Locations, Working, Observing
    <2> QED BY <1>11, <2>1, <2>2 DEF LoadDesired, TypeOK
  <1>12. ASSUME NEW w \in Workers, LoadCamera(w) PROVE TypeOK'
    <2>1. job' \in [Workers -> Job]
      BY <1>12, JobOperation DEF LoadCamera, TypeOK, Claiming, Job
    <2>2. pc' \in [Workers -> Locations]
      BY <1>12 DEF LoadCamera, TypeOK, Locations, Working, Observing
    <2> QED BY <1>12, <2>1, <2>2 DEF LoadCamera, TypeOK
  <1>13. ASSUME NEW w \in Workers, SendRequest(w) PROVE TypeOK'
    <2>1. job[w] \in Job
      BY DEF TypeOK
    <2>2. Expected(job[w].desired, job[w].config) \in Paths
      BY <2>1, ExpectedType DEF Job
    <2>3. Profile(w) \in Profiles
      BY DEF Profile, Profiles
    <2>4. [st |-> "sent", profile |-> Profile(w),
           content |-> Expected(job[w].desired, job[w].config)[Profile(w)]] \in Exchange
      BY <2>2, <2>3 DEF Exchange, Paths
    <2>5. inflight' \in [Workers -> Exchange]
      BY <1>13, <2>4 DEF SendRequest, TypeOK
    <2>6. pc' \in [Workers -> Locations]
      BY <1>13 DEF SendRequest, TypeOK, Locations, Working, Observing
    <2> QED BY <1>13, <2>5, <2>6 DEF SendRequest, TypeOK
  <1>14. ASSUME NEW w \in Workers, ReceiveAnswer(w) PROVE TypeOK'
    <2> DEFINE outcome == CASE inflight[w].st = "ok" -> "none"
                            [] inflight[w].st = "refused" -> "refused"
                            [] inflight[w].st = "lost" -> "unknown"
    <2>1. outcome \in Outcomes
      BY <1>14 DEF ReceiveAnswer, Outcomes
    <2>2. inflight' \in [Workers -> Exchange]
      BY <1>14, NoExchangeType DEF ReceiveAnswer, TypeOK
    <2>3. job' = [job EXCEPT ![w].outcome = outcome]
      BY <1>14 DEF ReceiveAnswer
    <2> HIDE DEF outcome
    <2>4. job' \in [Workers -> Job]
      BY <2>1, <2>3 DEF TypeOK, Job
    <2>5. pc' \in [Workers -> Locations]
      BY <1>14 DEF ReceiveAnswer, TypeOK, Locations, Working, Observing
    <2> QED BY <1>14, <2>2, <2>4, <2>5 DEF ReceiveAnswer, TypeOK
  <1>15. ASSUME NEW w \in Workers, FinishSuperseded(w) PROVE TypeOK'
    <2> DEFINE o == job[w].op
    <2>1. o \in OpIds /\ ops[o] \in OpType
      BY <1>15, JobOperation DEF FinishSuperseded, Claiming
    <2>2. Succeed(ops[o], "superseded") \in OpType
      BY <2>1, SucceedType DEF Results
    <2>3. Overtakes(o, {}) \in [Workers -> Observation]
      BY <2>1, OvertakesType
    <2>4. /\ ops' = [ops EXCEPT ![o] = Succeed(ops[o], "superseded")]
          /\ obs' = Overtakes(o, {})
          /\ UNCHANGED <<status, actual>>
      BY <1>15 DEF FinishSuperseded, CompleteSuperseded
    <2> HIDE DEF o
    <2>5. ops' \in [OpIds -> OpType]
      BY <2>1, <2>2, <2>4 DEF TypeOK
    <2>6. pc' \in [Workers -> Locations]
      BY <1>15 DEF FinishSuperseded, TypeOK, Locations, Working, Observing
    <2> QED BY <1>15, <2>3, <2>4, <2>5, <2>6 DEF FinishSuperseded, TypeOK
  <1>16. ASSUME NEW w \in Workers, FinishSuccess(w) PROVE TypeOK'
    <2> DEFINE o == job[w].op
               c == ops[o].camera
               rows == [p \in Profiles |->
                          [content |-> Recorded(job[w].desired, job[w].config)[p],
                           gen |-> job[w].desired.gen]]
               shown == IF cam[c].state = "live" /\ cam[c].config.enabled
                        THEN "pending" ELSE "disabled"
    <2>1. o \in OpIds /\ ops[o] \in OpType /\ c \in Cameras /\ job[w] \in Job
      BY <1>16, JobOperation DEF FinishSuccess, Claiming
    <2>2. pc' \in [Workers -> Locations]
      BY <1>16 DEF FinishSuccess, TypeOK, Locations, Working, Observing
    <2>3. CASE ~StillCurrent(w)
      <3>1. Succeed(ops[o], "superseded_after_apply") \in OpType
        BY <2>1, SucceedType DEF Results
      <3>2. Overtakes(o, {}) \in [Workers -> Observation]
        BY <2>1, OvertakesType
      <3>3. /\ ops' = [ops EXCEPT ![o] = Succeed(ops[o], "superseded_after_apply")]
            /\ obs' = Overtakes(o, {})
            /\ UNCHANGED <<status, actual>>
        BY <1>16, <2>3 DEF FinishSuccess, CompleteSuperseded
      <3> HIDE DEF o, c, rows, shown
      <3>4. ops' \in [OpIds -> OpType]
        BY <2>1, <3>1, <3>3 DEF TypeOK
      <3> QED BY <1>16, <2>2, <3>2, <3>3, <3>4 DEF FinishSuccess, TypeOK
    <2>4. CASE StillCurrent(w)
      <3>1. Succeed(ops[o], "converged") \in OpType
        BY <2>1, SucceedType DEF Results
      <3>2. Overtakes(o, {c} \X Profiles) \in [Workers -> Observation]
        BY <2>1, OvertakesType
      <3>3. rows \in [Profiles -> [content : Content, gen : Gens]]
        <4>1. job[w].desired \in Desired /\ job[w].config \in Configs
          BY <2>1 DEF Job
        <4>2. Recorded(job[w].desired, job[w].config) \in Paths
          BY <4>1, ExpectedType
        <4> QED BY <4>1, <4>2 DEF Paths, Desired
      <3>4. shown \in {"pending", "disabled", "error"}
        OBVIOUS
      <3>5. /\ ops' = [ops EXCEPT ![o] = Succeed(ops[o], "converged")]
            /\ obs' = Overtakes(o, {c} \X Profiles)
            /\ actual' = [actual EXCEPT ![c] = rows]
            /\ status' = [status EXCEPT ![c] = shown]
        BY <1>16, <2>4 DEF FinishSuccess
      <3> HIDE DEF o, c, rows, shown
      <3>6. ops' \in [OpIds -> OpType]
        BY <2>1, <3>1, <3>5 DEF TypeOK
      <3>7. actual' \in [Cameras -> [Profiles -> [content : Content, gen : Gens]]]
        BY <2>1, <3>3, <3>5 DEF TypeOK
      <3>8. status' \in [Cameras -> {"pending", "disabled", "error"}]
        BY <3>4, <3>5 DEF TypeOK
      <3> QED BY <1>16, <2>2, <3>2, <3>5, <3>6, <3>7, <3>8 DEF FinishSuccess, TypeOK
    <2> QED BY <2>3, <2>4
  <1>17. ASSUME NEW w \in Workers, FinishFailure(w) PROVE TypeOK'
    <2>1. status' \in [Cameras -> {"pending", "disabled", "error"}]
      BY <1>17 DEF FinishFailure, TypeOK
    <2>2. ops' \in [OpIds -> OpType]
      BY <1>17, JobOperation, FailedType DEF FinishFailure, TypeOK, Claiming, Job
    <2>3. pc' \in [Workers -> Locations]
      BY <1>17 DEF FinishFailure, TypeOK, Locations, Working, Observing
    <2> QED BY <1>17, <2>1, <2>2, <2>3 DEF FinishFailure, TypeOK
  <1>18. ASSUME NEW w \in Workers, FinishRefused(w) PROVE TypeOK'
    <2>1. pc' \in [Workers -> Locations]
      BY <1>18 DEF FinishRefused, TypeOK, Locations, Working, Observing
    <2> QED BY <1>18, <2>1 DEF FinishRefused, TypeOK
  <1>19. ASSUME NEW w \in Workers, Abandon(w) PROVE TypeOK'
    <2>1. ops' \in [OpIds -> OpType]
      BY <1>19, JobOperation, AbandonType DEF Abandon, TypeOK, Claiming
    <2>2. pc' \in [Workers -> Locations]
      BY <1>19 DEF Abandon, TypeOK, Locations, Working, Observing
    <2> QED BY <1>19, <2>1, <2>2 DEF Abandon, TypeOK
  <1>20. ASSUME NEW w \in Workers, Release(w) PROVE TypeOK'
    <2>1. lease' \in Lease
      BY <1>20 DEF Release, TypeOK, Lease, FreeLease, TypeOK
    <2>2. me' \in [Workers -> Owners \cup {NoOwner}]
      BY <1>20 DEF Release, TypeOK
    <2>3. job' \in [Workers -> Job]
      BY <1>20, NoJobType DEF Release, TypeOK
    <2>4. obs' \in [Workers -> Observation]
      BY <1>20, NoObsType DEF Release, TypeOK
    <2>5. pc' \in [Workers -> Locations]
      BY <1>20 DEF Release, TypeOK, Locations, Working, Observing
    <2> QED BY <1>20, <2>1, <2>2, <2>3, <2>4, <2>5 DEF Release, TypeOK
  <1>21. ASSUME NEW w \in Workers, StartObservation(w) PROVE TypeOK'
    <2> DEFINE begun == {u \in Workers : pc[u] \in Observing}
    <2>1. [NoObs EXCEPT !.older = begun] \in Observation
      <3>1. begun \in SUBSET Workers
        OBVIOUS
      <3> HIDE DEF begun
      <3> QED BY <3>1, NoObsType DEF Observation
    <2>2. ASSUME NEW v \in Workers
          PROVE  [obs[v] EXCEPT !.older = @ \ {w}] \in Observation
      <3>1. obs[v] \in Observation
        BY DEF TypeOK
      <3>2. obs[v].older \ {w} \in SUBSET Workers
        BY <3>1 DEF Observation
      <3> QED BY <3>1, <3>2 DEF Observation
    <2>3. obs' = [v \in Workers |-> IF v = w THEN [NoObs EXCEPT !.older = begun]
                                   ELSE [obs[v] EXCEPT !.older = @ \ {w}]]
      BY <1>21 DEF StartObservation
    <2> HIDE DEF begun
    <2>4. obs' \in [Workers -> Observation]
      BY <2>1, <2>2, <2>3
    <2>5. pc' \in [Workers -> Locations]
      BY <1>21 DEF StartObservation, TypeOK, Locations, Working, Observing
    <2> QED BY <1>21, <2>4, <2>5 DEF StartObservation, TypeOK
  <1>22. ASSUME NEW w \in Workers, Observe(w) PROVE TypeOK'
    <2>1. obs[w] \in Observation /\ media \in [Cameras -> Paths]
      BY DEF TypeOK
    <2>2. [obs[w] EXCEPT !.media = media] \in Observation
      BY <2>1 DEF Observation
    <2>3. obs' \in [Workers -> Observation]
      BY <1>22, <2>2 DEF Observe, TypeOK
    <2>4. pc' \in [Workers -> Locations]
      BY <1>22 DEF Observe, TypeOK, Locations, Working, Observing
    <2> QED BY <1>22, <2>3, <2>4 DEF Observe, TypeOK
  <1>23. ASSUME NEW w \in Workers, LoadDesiredStates(w) PROVE TypeOK'
    <2> DEFINE todo == {c \in Cameras : desired[c].gen # 0}
    <2>1. obs[w] \in Observation /\ desired \in [Cameras -> Desired]
      BY DEF TypeOK
    <2>2. todo \in SUBSET Cameras
      OBVIOUS
    <2>3. obs' = [obs EXCEPT ![w] = [obs[w] EXCEPT !.desired = desired, !.todo = todo]]
      BY <1>23 DEF LoadDesiredStates, TypeOK
    <2> HIDE DEF todo
    <2>4. [obs[w] EXCEPT !.desired = desired, !.todo = todo] \in Observation
      BY <2>1, <2>2 DEF Observation
    <2>5. obs' \in [Workers -> Observation]
      BY <2>3, <2>4 DEF TypeOK
    <2>6. pc' \in [Workers -> Locations]
      BY <1>23 DEF LoadDesiredStates, TypeOK, Locations, Working, Observing
    <2> QED BY <1>23, <2>5, <2>6 DEF LoadDesiredStates, TypeOK
  <1>24. ASSUME NEW w \in Workers, ObservationDone(w) PROVE TypeOK'
    <2>1. obs' \in [Workers -> Observation]
      BY <1>24, NoObsType DEF ObservationDone, TypeOK
    <2>2. pc' \in [Workers -> Locations]
      BY <1>24 DEF ObservationDone, TypeOK, Locations, Working, Observing
    <2> QED BY <1>24, <2>1, <2>2 DEF ObservationDone, TypeOK
  <1>25. ASSUME NEW w \in Workers, NEW c \in Cameras, CompareCamera(w, c) PROVE TypeOK'
    <2> DEFINE found == Matches(obs[w].media[c], obs[w].desired[c], cam[c].config)
    <2>1. obs[w] \in Observation
      BY DEF TypeOK
    <2>2. found \in [Profiles -> BOOLEAN]
      BY DEF Matches
    <2>3. obs[w].todo \ {c} \in SUBSET Cameras
      BY <2>1 DEF Observation
    <2>4. obs' = [obs EXCEPT ![w] = [obs[w] EXCEPT !.todo = obs[w].todo \ {c},
                                                   !.camera = c, !.match = found]]
      BY <1>25 DEF CompareCamera, TypeOK
    <2> HIDE DEF found
    <2>5. [obs[w] EXCEPT !.todo = obs[w].todo \ {c}, !.camera = c, !.match = found]
            \in Observation
      BY <2>1, <2>2, <2>3 DEF Observation
    <2>6. obs' \in [Workers -> Observation]
      BY <2>4, <2>5 DEF TypeOK
    <2>7. pc' \in [Workers -> Locations]
      BY <1>25 DEF CompareCamera, TypeOK, Locations, Working, Observing
    <2> QED BY <1>25, <2>6, <2>7 DEF CompareCamera, TypeOK
  <1>26. ASSUME NEW w \in Workers, PersistObserved(w) PROVE TypeOK'
    <2> DEFINE c == obs[w].camera
               p == IF pc[w] = "persistMain" THEN "main" ELSE "sub"
               row == [content |-> obs[w].media[c][p],
                       gen |-> AppliedGeneration(w, p)]
    <2>1. obs[w] \in Observation
      BY DEF TypeOK
    <2>2. /\ c \in Cameras /\ p \in Profiles
          /\ obs[w].media \in [Cameras -> Paths]
          /\ obs[w].desired \in [Cameras -> Desired]
      BY <2>1 DEF Observation, Profiles
    <2>3. /\ obs[w].media[c][p] \in Content
          /\ obs[w].desired[c].gen \in Gens
      BY <2>2 DEF Paths, Desired
    <2>4. row \in [content : Content, gen : Gens]
      BY <2>3, StoreAssumption DEF Gens, AppliedGeneration
    <2>5. /\ \/ actual' = actual
             \/ actual' = [actual EXCEPT ![c][p] = row]
          /\ \/ obs' = obs
             \/ obs' = [v \in Workers |->
                          IF v \in obs[w].older /\ pc[v] \in Observing
                          THEN [obs[v] EXCEPT !.newer = @ \cup {<<c, p>>}]
                          ELSE obs[v]]
      BY <1>26 DEF PersistObserved
    <2> HIDE DEF c, p, row
    <2>6. actual' \in [Cameras -> [Profiles -> [content : Content, gen : Gens]]]
      <3>1. CASE actual' = actual
        BY <3>1 DEF TypeOK
      <3>2. CASE actual' = [actual EXCEPT ![c][p] = row]
        <4>1. [actual[c] EXCEPT ![p] = row] \in [Profiles -> [content : Content, gen : Gens]]
          BY <2>2, <2>4 DEF TypeOK
        <4> QED BY <3>2, <2>2, <4>1 DEF TypeOK
      <3> QED BY <2>5, <3>1, <3>2
    <2>7. ASSUME NEW v \in Workers
          PROVE  [obs[v] EXCEPT !.newer = @ \cup {<<c, p>>}] \in Observation
      <3>1. obs[v] \in Observation
        BY DEF TypeOK
      <3>2. obs[v].newer \cup {<<c, p>>} \in SUBSET (Cameras \X Profiles)
        BY <3>1, <2>2 DEF Observation
      <3> QED BY <3>1, <3>2 DEF Observation
    <2>8. obs' \in [Workers -> Observation]
      <3> DEFINE late(v) == [obs[v] EXCEPT !.newer = @ \cup {<<c, p>>}]
      <3>1. \A v \in Workers : late(v) \in Observation /\ obs[v] \in Observation
        BY <2>7 DEF TypeOK
      <3>2. \/ obs' = obs
            \/ obs' = [v \in Workers |-> IF v \in obs[w].older /\ pc[v] \in Observing
                                         THEN late(v) ELSE obs[v]]
        BY <2>5
      <3> HIDE DEF late
      <3> QED BY <3>1, <3>2 DEF TypeOK
    <2>9. pc' \in [Workers -> Locations]
      BY <1>26 DEF PersistObserved, TypeOK, Locations, Working, Observing
    <2> QED BY <1>26, <2>6, <2>8, <2>9 DEF PersistObserved, TypeOK
  <1>27. ASSUME NEW w \in Workers, CheckDrift(w) PROVE TypeOK'
    <2>1. pc' \in [Workers -> Locations]
      BY <1>27 DEF CheckDrift, TypeOK, Locations, Working, Observing
    <2> QED BY <1>27, <2>1 DEF CheckDrift, TypeOK
  <1>28. ASSUME NEW w \in Workers, EnqueueDrift(w) PROVE TypeOK'
    <2>1. obs[w] \in Observation
      BY DEF TypeOK
    <2>2. obs[w].camera \in Cameras /\ obs[w].desired \in [Cameras -> Desired]
      BY <2>1 DEF Observation
    <2>3. obs[w].desired[obs[w].camera].gen \in Gens
      BY <2>2 DEF Desired
    <2>4. created' \in 0..MaxOps /\ ops' \in [OpIds -> OpType]
      BY <1>28, <2>2, <2>3, EnqueueType DEF EnqueueDrift
    <2>5. pc' \in [Workers -> Locations]
      BY <1>28 DEF EnqueueDrift, TypeOK, Locations, Working, Observing
    <2> QED BY <1>28, <2>4, <2>5 DEF EnqueueDrift, TypeOK
  <1>29. ASSUME NEW w \in Workers, Start(w) PROVE TypeOK'
    <2>1. ops' \in [OpIds -> OpType]
      BY <1>29, RecoveredType DEF Start, TypeOK
    <2>2. pc' \in [Workers -> Locations]
      BY <1>29 DEF Start, TypeOK, Locations, Working, Observing
    <2> QED BY <1>29, <2>1, <2>2 DEF Start, TypeOK
  <1>30. ASSUME NEW w \in Workers, Crash(w) PROVE TypeOK'
    <2>1. faults' \in 0..MaxFaults
      BY <1>30, ModelAssumption DEF Crash, TypeOK
    <2>2. pc' \in [Workers -> Locations]
      BY <1>30 DEF Crash, TypeOK, Locations, Working, Observing
    <2>3. orphans' \in SUBSET Request
      BY <1>30, OrphanedType DEF Crash, TypeOK
    <2>4. inflight' \in [Workers -> Exchange]
      BY <1>30, NoExchangeType DEF Crash, TypeOK
    <2>5. me' \in [Workers -> Owners \cup {NoOwner}]
      BY <1>30 DEF Crash, TypeOK
    <2>6. job' \in [Workers -> Job]
      BY <1>30, NoJobType DEF Crash, TypeOK
    <2>7. obs' \in [Workers -> Observation]
      BY <1>30, NoObsType DEF Crash, TypeOK
    <2> QED BY <1>30, <2>1, <2>2, <2>3, <2>4, <2>5, <2>6, <2>7 DEF Crash, TypeOK
  <1>31. ASSUME NEW w \in Workers, RequestTimesOut(w) PROVE TypeOK'
    <2>1. faults' \in 0..MaxFaults
      BY <1>31, ModelAssumption DEF RequestTimesOut, TypeOK
    <2>2. orphans' \in SUBSET Request
      BY <1>31, OrphanedType DEF RequestTimesOut, TypeOK
    <2>3. inflight' \in [Workers -> Exchange]
      BY <1>31, NoExchangeType DEF RequestTimesOut, TypeOK
    <2>4. job' \in [Workers -> Job]
      <3>1. job \in [Workers -> Job]
        BY DEF TypeOK
      <3>2. [job[w] EXCEPT !.outcome = "unknown"] \in Job
        BY <3>1 DEF Job, Outcomes
      <3>3. job' = [job EXCEPT ![w] = [job[w] EXCEPT !.outcome = "unknown"]]
        BY <1>31 DEF RequestTimesOut
      <3> QED BY <3>1, <3>2, <3>3
    <2>5. pc' \in [Workers -> Locations]
      BY <1>31 DEF RequestTimesOut, TypeOK, Locations, Working, Observing
    <2> QED BY <1>31, <2>1, <2>2, <2>3, <2>4, <2>5 DEF RequestTimesOut, TypeOK
  <1>32. ASSUME NEW w \in Workers, ObserveFails(w) PROVE TypeOK'
    <2>1. faults' \in 0..MaxFaults
      BY <1>32, ModelAssumption DEF ObserveFails, TypeOK
    <2>2. pc' \in [Workers -> Locations]
      BY <1>32 DEF ObserveFails, TypeOK, Locations, Working, Observing
    <2> QED BY <1>32, <2>1, <2>2 DEF ObserveFails, TypeOK
  <1>33. ASSUME NEW w \in Workers, MediaExecutes(w) PROVE TypeOK'
    <2>1. inflight[w] \in Exchange
      BY DEF TypeOK
    <2>2. media' \in [Cameras -> Paths]
      BY <1>33, <2>1 DEF MediaExecutes, TypeOK, Exchange, Paths
    <2>3. inflight' \in [Workers -> Exchange]
      BY <1>33, <2>1 DEF MediaExecutes, TypeOK, Exchange
    <2> QED BY <1>33, <2>2, <2>3 DEF MediaExecutes, TypeOK
  <1>34. ASSUME NEW w \in Workers, MediaRefuses(w) PROVE TypeOK'
    <2>1. faults' \in 0..MaxFaults
      BY <1>34, ModelAssumption DEF MediaRefuses, TypeOK
    <2>2. inflight' \in [Workers -> Exchange]
      BY <1>34 DEF MediaRefuses, TypeOK, Exchange
    <2> QED BY <1>34, <2>1, <2>2 DEF MediaRefuses, TypeOK
  <1>35. ASSUME NEW c \in Cameras, NEW k \in Configs, CreateCamera(c, k) PROVE TypeOK'
    <2>1. cam' \in [Cameras -> [state : {"none", "live", "deleted"}, config : Configs]]
      BY <1>35 DEF CreateCamera, TypeOK
    <2>2. desired' \in [Cameras -> Desired]
      BY <1>35, QueueType, ModelAssumption DEF CreateCamera, TypeOK
    <2>3. committed' \in [Cameras -> [1..MaxGen -> Paths]]
      BY <1>35, QueueType, ModelAssumption DEF CreateCamera, TypeOK
    <2>4. ops' \in [OpIds -> OpType]
      BY <1>35, QueueType, ModelAssumption DEF CreateCamera, TypeOK
    <2>5. created' \in 0..MaxOps
      BY <1>35, QueueType, ModelAssumption DEF CreateCamera, TypeOK
    <2> QED BY <1>35, <2>1, <2>2, <2>3, <2>4, <2>5 DEF CreateCamera, TypeOK
  <1>36. ASSUME NEW c \in Cameras, NEW k \in Configs, UpdateCamera(c, k) PROVE TypeOK'
    <2>1. cam' \in [Cameras -> [state : {"none", "live", "deleted"}, config : Configs]]
      BY <1>36 DEF UpdateCamera, TypeOK
    <2>2. status' \in [Cameras -> {"pending", "disabled", "error"}]
      BY <1>36 DEF UpdateCamera, TypeOK
    <2>3. desired' \in [Cameras -> Desired]
      BY <1>36, QueueType, ModelAssumption DEF UpdateCamera, TypeOK
    <2>4. committed' \in [Cameras -> [1..MaxGen -> Paths]]
      BY <1>36, QueueType, ModelAssumption DEF UpdateCamera, TypeOK
    <2>5. ops' \in [OpIds -> OpType]
      BY <1>36, QueueType, ModelAssumption DEF UpdateCamera, TypeOK
    <2>6. created' \in 0..MaxOps
      BY <1>36, QueueType, ModelAssumption DEF UpdateCamera, TypeOK
    <2> QED BY <1>36, <2>1, <2>2, <2>3, <2>4, <2>5, <2>6 DEF UpdateCamera, TypeOK
  <1>37. ASSUME NEW c \in Cameras, DeleteCamera(c) PROVE TypeOK'
    <2>1. cam' \in [Cameras -> [state : {"none", "live", "deleted"}, config : Configs]]
      BY <1>37 DEF DeleteCamera, TypeOK
    <2>2. status' \in [Cameras -> {"pending", "disabled", "error"}]
      BY <1>37 DEF DeleteCamera, TypeOK
    <2>3. desired' \in [Cameras -> Desired]
      BY <1>37, QueueType, ModelAssumption DEF DeleteCamera, TypeOK
    <2>4. committed' \in [Cameras -> [1..MaxGen -> Paths]]
      BY <1>37, QueueType, ModelAssumption DEF DeleteCamera, TypeOK
    <2>5. ops' \in [OpIds -> OpType]
      BY <1>37, QueueType, ModelAssumption DEF DeleteCamera, TypeOK
    <2>6. created' \in 0..MaxOps
      BY <1>37, QueueType, ModelAssumption DEF DeleteCamera, TypeOK
    <2> QED BY <1>37, <2>1, <2>2, <2>3, <2>4, <2>5, <2>6 DEF DeleteCamera, TypeOK
  <1>38. ASSUME NEW o \in OpIds, NEW r \in Resolutions, ResolveOperation(o, r) PROVE TypeOK'
    <2>1. ops' \in [OpIds -> OpType]
      BY <1>38, ResolvedType DEF ResolveOperation, TypeOK
    <2> QED BY <1>38, <2>1 DEF ResolveOperation, TypeOK
  <1>39. ASSUME NEW q \in orphans, MediaExecutesLate(q) PROVE TypeOK'
    <2>1. q.content \in Content
      BY DEF TypeOK, Request
    <2>2. media' \in [Cameras -> Paths]
      BY <1>39, <2>1 DEF MediaExecutesLate, TypeOK, Paths
    <2>3. orphans' \in SUBSET Request
      BY <1>39 DEF MediaExecutesLate, TypeOK
    <2> QED BY <1>39, <2>2, <2>3 DEF MediaExecutesLate, TypeOK
  <1>40. ASSUME MediaRestarts PROVE TypeOK'
    <2>1. faults' \in 0..MaxFaults
      BY <1>40, ModelAssumption DEF MediaRestarts, TypeOK
    <2>2. media' \in [Cameras -> Paths]
      BY <1>40, NoPathsType DEF MediaRestarts, TypeOK
    <2>3. orphans' \in SUBSET Request
      BY <1>40 DEF MediaRestarts, TypeOK
    <2>4. inflight' \in [Workers -> Exchange]
      <3>1. inflight \in [Workers -> Exchange]
        BY DEF TypeOK
      <3>2. \A w \in Workers : [inflight[w] EXCEPT !.st = "lost"] \in Exchange
        BY <3>1 DEF Exchange
      <3>3. inflight' = [w \in Workers |-> IF inflight[w].st = "sent"
                                          THEN [inflight[w] EXCEPT !.st = "lost"]
                                          ELSE inflight[w]]
        BY <1>40 DEF MediaRestarts
      <3> QED BY <3>1, <3>2, <3>3
    <2> QED BY <1>40, <2>1, <2>2, <2>3, <2>4 DEF MediaRestarts, TypeOK
  <1>41. ASSUME LeaseRunsOut PROVE TypeOK'
    <2>1. lease' \in Lease
      BY <1>41 DEF LeaseRunsOut, TypeOK, Lease
    <2>2. stalls' \in 0..MaxStalls
      BY <1>41, ModelAssumption DEF LeaseRunsOut, TypeOK, RunsOut
    <2> QED BY <1>41, <2>1, <2>2 DEF LeaseRunsOut, TypeOK
  <1>42. ASSUME NEW o \in OpIds, ClaimRunsOut(o) PROVE TypeOK'
    <2>0. ops[o] \in OpType
      BY DEF TypeOK
    <2>1. [ops[o] EXCEPT !.live = FALSE] \in OpType
      BY <2>0 DEF OpType
    <2>2. ops' \in [OpIds -> OpType]
      BY <1>42, <2>1 DEF ClaimRunsOut, TypeOK
    <2>3. stalls' \in 0..MaxStalls
      BY <1>42, ModelAssumption DEF ClaimRunsOut, RunsOut, TypeOK
    <2> QED BY <1>42, <2>2, <2>3 DEF ClaimRunsOut, TypeOK
  <1>43. ASSUME NEW o \in OpIds, RetryComesDue(o) PROVE TypeOK'
    <2>0. ops[o] \in OpType
      BY DEF TypeOK
    <2>1. [ops[o] EXCEPT !.due = TRUE] \in OpType
      BY <2>0 DEF OpType
    <2>2. ops' \in [OpIds -> OpType]
      BY <1>43, <2>1 DEF RetryComesDue, TypeOK
    <2> QED BY <1>43, <2>2 DEF RetryComesDue, TypeOK
  <1> QED BY <1>1, <1>2, <1>3, <1>4, <1>5, <1>6, <1>7, <1>8, <1>9, <1>10, <1>11, <1>12, <1>13, <1>14, <1>15, <1>16, <1>17, <1>18, <1>19, <1>20, <1>21, <1>22, <1>23, <1>24, <1>25, <1>26, <1>27, <1>28, <1>29, <1>30, <1>31, <1>32, <1>33, <1>34, <1>35, <1>36, <1>37, <1>38, <1>39, <1>40, <1>41, <1>42, <1>43 DEF Next, Step, Requests, Media, Time, Trouble, vars, TypeOK

-----------------------------------------------------------------------------
(* The rows of the store keep their camera and their generation, come in   *)
(* order, and are never offered for more attempts than they have.          *)

OperationsKept ==
    /\ created <= created'
    /\ \A o \in OpIds : o <= created => /\ ops'[o].camera = ops[o].camera
                                        /\ ops'[o].gen = ops[o].gen
                                        /\ ops[o].state # "absent" => ops'[o].state # "absent"

\* An action that rewrites one row that is there.
LEMMA RowChange ==
    ASSUME TypeOK, OperationsAreAccounted,
           NEW o \in OpIds, ops[o].state # "absent",
           NEW x \in OpType, x.camera = ops[o].camera, x.gen = ops[o].gen,
           x.state = "pending" => x.attempt < MaxAttempts, x.state # "absent",
           ops' = [ops EXCEPT ![o] = x], created' = created
    PROVE  OperationsAreAccounted' /\ OperationsKept
  <1>1. created \in Nat /\ o <= created
    BY StoreAssumption DEF TypeOK, OperationsAreAccounted, OpIds
  <1>2. ASSUME NEW q \in OpIds PROVE ops'[q] = IF q = o THEN x ELSE ops[q]
    BY DEF TypeOK
  <1> QED BY <1>1, <1>2 DEF OperationsAreAccounted, OperationsKept

\* An action that inserts one.
LEMMA RowInsert ==
    ASSUME TypeOK, WorkIsAccounted, NEW c \in Cameras, NEW g \in Gens, g # 0,
           Enqueue(c, g)
    PROVE  OperationsAreAccounted' /\ OperationsKept
  <1>1. /\ created \in Nat /\ created' = created + 1 /\ created + 1 \in OpIds
        /\ \A q \in OpIds : ops'[q] = IF q = created + 1 THEN NewOp(c, g) ELSE ops[q]
    BY EnqueueType, StoreAssumption DEF TypeOK, OpIds
  <1>2. NewOp(c, g).state = "pending" /\ NewOp(c, g).attempt < MaxAttempts
        /\ NewOp(c, g).gen = g
    BY NewOpType, StoreAssumption
  <1> QED BY <1>1, <1>2, StoreAssumption
          DEF WorkIsAccounted, OperationsAreAccounted, OperationsKept, OpIds

\* Both ways of recovering operations that were interrupted.
LEMMA RowsRecovered ==
    ASSUME TypeOK, OperationsAreAccounted, created' = created,
           ops' \in {RecoverRunning(ops), RecoverExpired(ops)}
    PROVE  OperationsAreAccounted' /\ OperationsKept
  <1>1. ops \in [OpIds -> OpType] /\ created \in Nat
    BY StoreAssumption DEF TypeOK
  <1>2. \A o \in OpIds :
           \/ ops'[o] = ops[o]
           \/ /\ ops[o].state = "running" /\ ops'[o].state = "unknown"
              /\ ops'[o].camera = ops[o].camera /\ ops'[o].gen = ops[o].gen
    BY <1>1, RecoveredType
  <1> QED BY <1>1, <1>2 DEF OperationsAreAccounted, OperationsKept

\* A request for a change inserts an operation of a committed generation.
LEMMA QueueEnqueues ==
    ASSUME TypeOK, WorkIsAccounted, NEW c \in Cameras, NEW k, NEW present,
           QueueCameraChange(c, k, present)
    PROVE  OperationsAreAccounted' /\ OperationsKept
  <1>1. desired[c].gen \in Gens
    BY DEF TypeOK, Desired
  <1>2. desired[c].gen + 1 \in Gens /\ desired[c].gen + 1 # 0
    BY <1>1, StoreAssumption DEF QueueCameraChange, Gens
  <1>3. Enqueue(c, desired[c].gen + 1)
    BY DEF QueueCameraChange
  <1> QED BY <1>2, <1>3, RowInsert

\* Every step keeps the rows in insertion order, with attempts left on those that
\* may be attempted again, and no row is ever removed or given another generation.
LEMMA OperationStep ==
    TypeOK /\ WorkIsAccounted /\ [Next]_vars => OperationsAreAccounted' /\ OperationsKept
  <1> SUFFICES ASSUME TypeOK, WorkIsAccounted, [Next]_vars
               PROVE  OperationsAreAccounted' /\ OperationsKept
    OBVIOUS
  <1> USE DEF store
  <1>0. OperationsAreAccounted /\ created \in Nat
    BY StoreAssumption DEF TypeOK, WorkIsAccounted
  <1>1. ASSUME NEW w \in Workers, BeginCycle(w) PROVE OperationsAreAccounted' /\ OperationsKept
    BY <1>0, <1>1, RowsRecovered DEF BeginCycle
  <1>2. ASSUME NEW w \in Workers, Acquire(w) PROVE OperationsAreAccounted' /\ OperationsKept
    BY <1>0, <1>2 DEF Acquire, OperationsAreAccounted, OperationsKept
  <1>3. ASSUME NEW w \in Workers, LeaseBusy(w) PROVE OperationsAreAccounted' /\ OperationsKept
    BY <1>0, <1>3 DEF LeaseBusy, OperationsAreAccounted, OperationsKept
  <1>4. ASSUME NEW w \in Workers, RenewGlobal(w) PROVE OperationsAreAccounted' /\ OperationsKept
    BY <1>0, <1>4 DEF RenewGlobal, OperationsAreAccounted, OperationsKept
  <1>5. ASSUME NEW w \in Workers, NEW o \in OpIds, Claim(w, o) PROVE OperationsAreAccounted' /\ OperationsKept
    <2>1. ops[o] \in OpType /\ ops[o].state = "pending" /\ ops[o].attempt < MaxAttempts
      BY <1>0, <1>5 DEF Claim, Claimable, TypeOK, OperationsAreAccounted
    <2>2. me[w] \in Owners
      BY <1>0, <1>5 DEF Claim, TypeOK, WorkIsAccounted, WorkersAreAccounted
    <2>3. ops' = [ops EXCEPT ![o] = Claimed(ops[o], me[w])] /\ created' = created
      BY <1>0, <1>5 DEF Claim
    <2> QED BY <1>0, <2>1, <2>2, <2>3, ClaimedType, RowChange
  <1>6. ASSUME NEW w \in Workers, ClaimNothing(w) PROVE OperationsAreAccounted' /\ OperationsKept
    BY <1>0, <1>6 DEF ClaimNothing, OperationsAreAccounted, OperationsKept
  <1>7. ASSUME NEW w \in Workers, ClaimLost(w) PROVE OperationsAreAccounted' /\ OperationsKept
    BY <1>0, <1>7 DEF ClaimLost, OperationsAreAccounted, OperationsKept
  <1>8. ASSUME NEW w \in Workers, CheckClaim(w) PROVE OperationsAreAccounted' /\ OperationsKept
    BY <1>0, <1>8 DEF CheckClaim, OperationsAreAccounted, OperationsKept
  <1>9. ASSUME NEW w \in Workers, RenewClaim(w) PROVE OperationsAreAccounted' /\ OperationsKept
    BY <1>0, <1>9 DEF RenewClaim, OperationsAreAccounted, OperationsKept
  <1>10. ASSUME NEW w \in Workers, VerifyClaim(w) PROVE OperationsAreAccounted' /\ OperationsKept
    BY <1>0, <1>10 DEF VerifyClaim, OperationsAreAccounted, OperationsKept
  <1>11. ASSUME NEW w \in Workers, LoadDesired(w) PROVE OperationsAreAccounted' /\ OperationsKept
    BY <1>0, <1>11 DEF LoadDesired, OperationsAreAccounted, OperationsKept
  <1>12. ASSUME NEW w \in Workers, LoadCamera(w) PROVE OperationsAreAccounted' /\ OperationsKept
    BY <1>0, <1>12 DEF LoadCamera, OperationsAreAccounted, OperationsKept
  <1>13. ASSUME NEW w \in Workers, SendRequest(w) PROVE OperationsAreAccounted' /\ OperationsKept
    BY <1>0, <1>13 DEF SendRequest, OperationsAreAccounted, OperationsKept
  <1>14. ASSUME NEW w \in Workers, ReceiveAnswer(w) PROVE OperationsAreAccounted' /\ OperationsKept
    BY <1>0, <1>14 DEF ReceiveAnswer, OperationsAreAccounted, OperationsKept
  <1>15. ASSUME NEW w \in Workers, FinishSuperseded(w) PROVE OperationsAreAccounted' /\ OperationsKept
    <2>1. /\ job[w].op \in OpIds /\ ops[job[w].op] \in OpType
          /\ ops[job[w].op].state # "absent"
      BY <1>0, <1>15, JobOperation DEF FinishSuperseded, Claiming, Fenced, OwnedBy
    <2>2. /\ ops' = [ops EXCEPT ![job[w].op] = Succeed(ops[job[w].op], "superseded")]
          /\ created' = created
      BY <1>0, <1>15 DEF FinishSuperseded, CompleteSuperseded
    <2>3. "superseded" \in Results
      BY DEF Results
    <2> QED BY <1>0, <2>1, <2>2, <2>3, SucceedType, RowChange
  <1>16. ASSUME NEW w \in Workers, FinishSuccess(w) PROVE OperationsAreAccounted' /\ OperationsKept
    <2>1. /\ job[w].op \in OpIds /\ ops[job[w].op] \in OpType
          /\ ops[job[w].op].state # "absent"
      BY <1>0, <1>16, JobOperation DEF FinishSuccess, Claiming, Fenced, OwnedBy
    <2>2. /\ \E result \in {"superseded_after_apply", "converged"} :
                ops' = [ops EXCEPT ![job[w].op] = Succeed(ops[job[w].op], result)]
          /\ created' = created
      BY <1>0, <1>16 DEF FinishSuccess, CompleteSuperseded
    <2>3. {"superseded_after_apply", "converged"} \subseteq Results
      BY DEF Results
    <2> QED BY <1>0, <2>1, <2>2, <2>3, SucceedType, RowChange
  <1>17. ASSUME NEW w \in Workers, FinishFailure(w) PROVE OperationsAreAccounted' /\ OperationsKept
    <2>1. /\ job[w].op \in OpIds /\ ops[job[w].op] \in OpType
          /\ ops[job[w].op].state # "absent"
      BY <1>0, <1>17, JobOperation DEF FinishFailure, Claiming, Fenced, OwnedBy
    <2>2. /\ ops' = [ops EXCEPT ![job[w].op] = Failed(ops[job[w].op], job[w].outcome)]
          /\ created' = created
      BY <1>0, <1>17 DEF FinishFailure
    <2>3. job[w].outcome \in Outcomes
      BY DEF TypeOK, Job
    <2> QED BY <1>0, <2>1, <2>2, <2>3, FailedType, RowChange
  <1>18. ASSUME NEW w \in Workers, FinishRefused(w) PROVE OperationsAreAccounted' /\ OperationsKept
    BY <1>0, <1>18 DEF FinishRefused, OperationsAreAccounted, OperationsKept
  <1>19. ASSUME NEW w \in Workers, Abandon(w) PROVE OperationsAreAccounted' /\ OperationsKept
    <2> DEFINE o == job[w].op
    <2>1. o \in OpIds /\ ops[o] \in OpType
      BY <1>0, <1>19, JobOperation DEF Abandon, Claiming
    <2>2. ops' = [ops EXCEPT ![o] = AbandonClaim(ops[o], me[w])] /\ created' = created
      BY <1>0, <1>19 DEF Abandon
    <2> HIDE DEF o
    <2>3. CASE AbandonClaim(ops[o], me[w]) = ops[o]
      BY <1>0, <2>1, <2>2, <2>3, StoreAssumption DEF TypeOK, OperationsAreAccounted, OperationsKept
    <2>4. CASE ops[o].state = "running" /\ AbandonClaim(ops[o], me[w]).state = "unknown"
      BY <1>0, <2>1, <2>2, <2>4, AbandonType, RowChange
    <2> QED BY <1>0, <2>1, <2>3, <2>4, AbandonType
  <1>20. ASSUME NEW w \in Workers, Release(w) PROVE OperationsAreAccounted' /\ OperationsKept
    BY <1>0, <1>20 DEF Release, OperationsAreAccounted, OperationsKept
  <1>21. ASSUME NEW w \in Workers, StartObservation(w) PROVE OperationsAreAccounted' /\ OperationsKept
    BY <1>0, <1>21 DEF StartObservation, OperationsAreAccounted, OperationsKept
  <1>22. ASSUME NEW w \in Workers, Observe(w) PROVE OperationsAreAccounted' /\ OperationsKept
    BY <1>0, <1>22 DEF Observe, OperationsAreAccounted, OperationsKept
  <1>23. ASSUME NEW w \in Workers, LoadDesiredStates(w) PROVE OperationsAreAccounted' /\ OperationsKept
    BY <1>0, <1>23 DEF LoadDesiredStates, OperationsAreAccounted, OperationsKept
  <1>24. ASSUME NEW w \in Workers, ObservationDone(w) PROVE OperationsAreAccounted' /\ OperationsKept
    BY <1>0, <1>24 DEF ObservationDone, OperationsAreAccounted, OperationsKept
  <1>25. ASSUME NEW w \in Workers, NEW c \in Cameras, CompareCamera(w, c) PROVE OperationsAreAccounted' /\ OperationsKept
    BY <1>0, <1>25 DEF CompareCamera, OperationsAreAccounted, OperationsKept
  <1>26. ASSUME NEW w \in Workers, PersistObserved(w) PROVE OperationsAreAccounted' /\ OperationsKept
    BY <1>0, <1>26 DEF PersistObserved, OperationsAreAccounted, OperationsKept
  <1>27. ASSUME NEW w \in Workers, CheckDrift(w) PROVE OperationsAreAccounted' /\ OperationsKept
    BY <1>0, <1>27 DEF CheckDrift, OperationsAreAccounted, OperationsKept
  <1>28. ASSUME NEW w \in Workers, EnqueueDrift(w) PROVE OperationsAreAccounted' /\ OperationsKept
    <2>1. obs[w] \in Observation
      BY DEF TypeOK
    <2>2. obs[w].camera \in Cameras /\ obs[w].desired \in [Cameras -> Desired]
      BY <2>1 DEF Observation
    <2>3. obs[w].desired[obs[w].camera].gen \in Gens
      BY <2>2 DEF Desired
    <2>4. obs[w].desired[obs[w].camera].gen # 0
      BY <1>0, <1>28 DEF EnqueueDrift, WorkIsAccounted, ObservationsAreAccounted, Persisting
    <2> QED BY <1>0, <1>28, <2>2, <2>3, <2>4, RowInsert DEF EnqueueDrift
  <1>29. ASSUME NEW w \in Workers, Start(w) PROVE OperationsAreAccounted' /\ OperationsKept
    BY <1>0, <1>29, RowsRecovered DEF Start
  <1>30. ASSUME NEW w \in Workers, Crash(w) PROVE OperationsAreAccounted' /\ OperationsKept
    BY <1>0, <1>30 DEF Crash, OperationsAreAccounted, OperationsKept
  <1>31. ASSUME NEW w \in Workers, RequestTimesOut(w) PROVE OperationsAreAccounted' /\ OperationsKept
    BY <1>0, <1>31 DEF RequestTimesOut, OperationsAreAccounted, OperationsKept
  <1>32. ASSUME NEW w \in Workers, ObserveFails(w) PROVE OperationsAreAccounted' /\ OperationsKept
    BY <1>0, <1>32 DEF ObserveFails, OperationsAreAccounted, OperationsKept
  <1>33. ASSUME NEW w \in Workers, MediaExecutes(w) PROVE OperationsAreAccounted' /\ OperationsKept
    BY <1>0, <1>33 DEF MediaExecutes, OperationsAreAccounted, OperationsKept
  <1>34. ASSUME NEW w \in Workers, MediaRefuses(w) PROVE OperationsAreAccounted' /\ OperationsKept
    BY <1>0, <1>34 DEF MediaRefuses, OperationsAreAccounted, OperationsKept
  <1>35. ASSUME NEW c \in Cameras, NEW k \in Configs, CreateCamera(c, k) PROVE OperationsAreAccounted' /\ OperationsKept
    BY <1>0, <1>35, QueueEnqueues DEF CreateCamera
  <1>36. ASSUME NEW c \in Cameras, NEW k \in Configs, UpdateCamera(c, k) PROVE OperationsAreAccounted' /\ OperationsKept
    BY <1>0, <1>36, QueueEnqueues DEF UpdateCamera
  <1>37. ASSUME NEW c \in Cameras, DeleteCamera(c) PROVE OperationsAreAccounted' /\ OperationsKept
    BY <1>0, <1>37, QueueEnqueues DEF DeleteCamera
  <1>38. ASSUME NEW o \in OpIds, NEW r \in Resolutions, ResolveOperation(o, r) PROVE OperationsAreAccounted' /\ OperationsKept
    <2>1. ops[o] \in OpType /\ ops[o].state # "absent"
      BY <1>0, <1>38 DEF ResolveOperation, Resolvable, TypeOK
    <2>2. ops' = [ops EXCEPT ![o] = Resolved(ops[o], r)] /\ created' = created
      BY <1>0, <1>38 DEF ResolveOperation
    <2> QED BY <1>0, <2>1, <2>2, ResolvedType, RowChange
  <1>39. ASSUME NEW q \in orphans, MediaExecutesLate(q) PROVE OperationsAreAccounted' /\ OperationsKept
    BY <1>0, <1>39 DEF MediaExecutesLate, OperationsAreAccounted, OperationsKept
  <1>40. ASSUME MediaRestarts PROVE OperationsAreAccounted' /\ OperationsKept
    BY <1>0, <1>40 DEF MediaRestarts, OperationsAreAccounted, OperationsKept
  <1>41. ASSUME LeaseRunsOut PROVE OperationsAreAccounted' /\ OperationsKept
    BY <1>0, <1>41 DEF LeaseRunsOut, OperationsAreAccounted, OperationsKept
  <1>42. ASSUME NEW o \in OpIds, ClaimRunsOut(o) PROVE OperationsAreAccounted' /\ OperationsKept
    <2>1. /\ created \in Nat /\ created' = created
          /\ \A q \in OpIds : ops[q] \in OpType
          /\ ops' = [ops EXCEPT ![o].live = FALSE]
      BY <1>0, <1>42, StoreAssumption DEF ClaimRunsOut, TypeOK
    <2>2. \A q \in OpIds : /\ ops'[q].state = ops[q].state
                           /\ ops'[q].attempt = ops[q].attempt
                           /\ ops'[q].camera = ops[q].camera
                           /\ ops'[q].gen = ops[q].gen
      BY <2>1 DEF TypeOK, OpType
    <2> QED BY <1>0, <2>1, <2>2 DEF OperationsAreAccounted, OperationsKept
  <1>43. ASSUME NEW o \in OpIds, RetryComesDue(o) PROVE OperationsAreAccounted' /\ OperationsKept
    <2>1. /\ created \in Nat /\ created' = created
          /\ \A q \in OpIds : ops[q] \in OpType
          /\ ops' = [ops EXCEPT ![o].due = TRUE]
      BY <1>0, <1>43, StoreAssumption DEF RetryComesDue, TypeOK
    <2>2. \A q \in OpIds : /\ ops'[q].state = ops[q].state
                           /\ ops'[q].attempt = ops[q].attempt
                           /\ ops'[q].camera = ops[q].camera
                           /\ ops'[q].gen = ops[q].gen
      BY <2>1 DEF TypeOK, OpType
    <2> QED BY <1>0, <2>1, <2>2 DEF OperationsAreAccounted, OperationsKept
  <1>44. CASE UNCHANGED vars
    BY <1>0, <1>44 DEF vars, OperationsAreAccounted, OperationsKept
  <1> QED BY <1>1, <1>2, <1>3, <1>4, <1>5, <1>6, <1>7, <1>8, <1>9, <1>10, <1>11, <1>12, <1>13, <1>14, <1>15, <1>16, <1>17, <1>18, <1>19, <1>20, <1>21, <1>22, <1>23, <1>24, <1>25, <1>26, <1>27, <1>28, <1>29, <1>30, <1>31, <1>32, <1>33, <1>34, <1>35, <1>36, <1>37, <1>38, <1>39, <1>40, <1>41, <1>42, <1>43, <1>44 DEF Next, Step, Requests, Media, Time, Trouble

\* Every step keeps the workers in order: who is in a pass has an owner, who applies
\* an operation has claimed one, and requests are under way only while awaited.
LEMMA WorkerStep == TypeOK /\ WorkIsAccounted /\ [Next]_vars => WorkersAreAccounted'
  <1> SUFFICES ASSUME TypeOK, WorkIsAccounted, [Next]_vars PROVE WorkersAreAccounted'
    OBVIOUS
  <1> USE DEF store, mediaSide, Goto
  <1>0. WorkersAreAccounted
    BY DEF WorkIsAccounted
  <1>a. created \in Nat /\ created' \in Nat /\ created <= created'
    BY OperationStep, TypeStep, StoreAssumption DEF OperationsKept, TypeOK
  <1>1. ASSUME NEW w \in Workers, BeginCycle(w) PROVE WorkersAreAccounted'
    BY <1>0, <1>1 DEF BeginCycle, TypeOK, WorkersAreAccounted, Claiming
  <1>2. ASSUME NEW w \in Workers, Acquire(w) PROVE WorkersAreAccounted'
    <2>1. /\ me' = [me EXCEPT ![w] = CHOOSE x \in Owners \ UsedOwners : TRUE]
          /\ (CHOOSE x \in Owners \ UsedOwners : TRUE) \in Owners
      BY <1>0, <1>2 DEF Acquire
    <2>2. /\ me'[w] # NoOwner
          /\ \A v \in Workers : v # w => me'[v] = me[v]
      BY <2>1, StoreAssumption DEF TypeOK
    <2> QED BY <1>0, <1>2, <2>2 DEF Acquire, TypeOK, WorkersAreAccounted, Claiming
  <1>3. ASSUME NEW w \in Workers, LeaseBusy(w) PROVE WorkersAreAccounted'
    BY <1>0, <1>3 DEF LeaseBusy, TypeOK, WorkersAreAccounted, Claiming
  <1>4. ASSUME NEW w \in Workers, RenewGlobal(w) PROVE WorkersAreAccounted'
    BY <1>0, <1>4 DEF RenewGlobal, TypeOK, WorkersAreAccounted, Claiming
  <1>5. ASSUME NEW w \in Workers, NEW o \in OpIds, Claim(w, o) PROVE WorkersAreAccounted'
    <2>1. o # 0 /\ o <= created
      BY <1>0, <1>5, StoreAssumption
         DEF Claim, Claimable, TypeOK, OpIds, WorkIsAccounted, OperationsAreAccounted
    <2>2. \A v \in Workers : job'[v].op = IF v = w THEN o ELSE job[v].op
      BY <1>0, <1>5 DEF Claim, TypeOK, Job
    <2> QED BY <1>0, <1>5, <2>1, <2>2 DEF Claim, TypeOK, WorkersAreAccounted, Claiming
  <1>6. ASSUME NEW w \in Workers, ClaimNothing(w) PROVE WorkersAreAccounted'
    BY <1>0, <1>6 DEF ClaimNothing, TypeOK, WorkersAreAccounted, Claiming
  <1>7. ASSUME NEW w \in Workers, ClaimLost(w) PROVE WorkersAreAccounted'
    BY <1>0, <1>7 DEF ClaimLost, TypeOK, WorkersAreAccounted, Claiming
  <1>8. ASSUME NEW w \in Workers, CheckClaim(w) PROVE WorkersAreAccounted'
    BY <1>0, <1>8 DEF CheckClaim, TypeOK, WorkersAreAccounted, Claiming
  <1>9. ASSUME NEW w \in Workers, RenewClaim(w) PROVE WorkersAreAccounted'
    <2>1. \A v \in Workers : job'[v].op = job[v].op
      BY <1>0, <1>9 DEF RenewClaim, TypeOK, Job
    <2> QED BY <1>0, <1>9, <2>1 DEF RenewClaim, TypeOK, WorkersAreAccounted, Claiming
  <1>10. ASSUME NEW w \in Workers, VerifyClaim(w) PROVE WorkersAreAccounted'
    <2>1. \A v \in Workers : job'[v].op = job[v].op
      BY <1>0, <1>10 DEF VerifyClaim, TypeOK, Job
    <2> QED BY <1>0, <1>10, <2>1 DEF VerifyClaim, TypeOK, WorkersAreAccounted, Claiming
  <1>11. ASSUME NEW w \in Workers, LoadDesired(w) PROVE WorkersAreAccounted'
    <2>1. \A v \in Workers : job'[v].op = job[v].op
      BY <1>0, <1>11 DEF LoadDesired, TypeOK, Job
    <2> QED BY <1>0, <1>11, <2>1 DEF LoadDesired, TypeOK, WorkersAreAccounted, Claiming
  <1>12. ASSUME NEW w \in Workers, LoadCamera(w) PROVE WorkersAreAccounted'
    <2>1. \A v \in Workers : job'[v].op = job[v].op
      BY <1>0, <1>12 DEF LoadCamera, TypeOK, Job
    <2> QED BY <1>0, <1>12, <2>1 DEF LoadCamera, TypeOK, WorkersAreAccounted, Claiming
  <1>13. ASSUME NEW w \in Workers, SendRequest(w) PROVE WorkersAreAccounted'
    BY <1>0, <1>13 DEF SendRequest, TypeOK, WorkersAreAccounted, Claiming
  <1>14. ASSUME NEW w \in Workers, ReceiveAnswer(w) PROVE WorkersAreAccounted'
    <2>1. \A v \in Workers : job'[v].op = job[v].op
      BY <1>0, <1>14 DEF ReceiveAnswer, TypeOK, Job
    <2>2. \A v \in Workers : inflight'[v].st = IF v = w THEN "none" ELSE inflight[v].st
      BY <1>0, <1>14 DEF ReceiveAnswer, TypeOK, NoExchange
    <2> QED BY <1>0, <1>14, <2>1, <2>2 DEF ReceiveAnswer, TypeOK, WorkersAreAccounted, Claiming
  <1>15. ASSUME NEW w \in Workers, FinishSuperseded(w) PROVE WorkersAreAccounted'
    BY <1>0, <1>15 DEF FinishSuperseded, TypeOK, WorkersAreAccounted, Claiming
  <1>16. ASSUME NEW w \in Workers, FinishSuccess(w) PROVE WorkersAreAccounted'
    BY <1>0, <1>16 DEF FinishSuccess, TypeOK, WorkersAreAccounted, Claiming
  <1>17. ASSUME NEW w \in Workers, FinishFailure(w) PROVE WorkersAreAccounted'
    BY <1>0, <1>17 DEF FinishFailure, TypeOK, WorkersAreAccounted, Claiming
  <1>18. ASSUME NEW w \in Workers, FinishRefused(w) PROVE WorkersAreAccounted'
    BY <1>0, <1>18 DEF FinishRefused, TypeOK, WorkersAreAccounted, Claiming
  <1>19. ASSUME NEW w \in Workers, Abandon(w) PROVE WorkersAreAccounted'
    BY <1>0, <1>19 DEF Abandon, TypeOK, WorkersAreAccounted, Claiming
  <1>20. ASSUME NEW w \in Workers, Release(w) PROVE WorkersAreAccounted'
    BY <1>0, <1>20 DEF Release, TypeOK, WorkersAreAccounted, Claiming, NoJob
  <1>21. ASSUME NEW w \in Workers, StartObservation(w) PROVE WorkersAreAccounted'
    BY <1>0, <1>21 DEF StartObservation, TypeOK, WorkersAreAccounted, Claiming
  <1>22. ASSUME NEW w \in Workers, Observe(w) PROVE WorkersAreAccounted'
    BY <1>0, <1>22 DEF Observe, TypeOK, WorkersAreAccounted, Claiming
  <1>23. ASSUME NEW w \in Workers, LoadDesiredStates(w) PROVE WorkersAreAccounted'
    BY <1>0, <1>23 DEF LoadDesiredStates, TypeOK, WorkersAreAccounted, Claiming
  <1>24. ASSUME NEW w \in Workers, ObservationDone(w) PROVE WorkersAreAccounted'
    BY <1>0, <1>24 DEF ObservationDone, TypeOK, WorkersAreAccounted, Claiming
  <1>25. ASSUME NEW w \in Workers, NEW c \in Cameras, CompareCamera(w, c) PROVE WorkersAreAccounted'
    BY <1>0, <1>25 DEF CompareCamera, TypeOK, WorkersAreAccounted, Claiming
  <1>26. ASSUME NEW w \in Workers, PersistObserved(w) PROVE WorkersAreAccounted'
    BY <1>0, <1>26 DEF PersistObserved, TypeOK, WorkersAreAccounted, Claiming
  <1>27. ASSUME NEW w \in Workers, CheckDrift(w) PROVE WorkersAreAccounted'
    BY <1>0, <1>27 DEF CheckDrift, TypeOK, WorkersAreAccounted, Claiming
  <1>28. ASSUME NEW w \in Workers, EnqueueDrift(w) PROVE WorkersAreAccounted'
    <2>1. \A n \in 0..MaxOps : n <= created => n <= created'
      BY <1>a, StoreAssumption
    <2> QED BY <1>0, <1>28, <2>1 DEF EnqueueDrift, TypeOK, Job, WorkersAreAccounted, Claiming
  <1>29. ASSUME NEW w \in Workers, Start(w) PROVE WorkersAreAccounted'
    BY <1>0, <1>29 DEF Start, TypeOK, WorkersAreAccounted, Claiming
  <1>30. ASSUME NEW w \in Workers, Crash(w) PROVE WorkersAreAccounted'
    BY <1>0, <1>30 DEF Crash, TypeOK, WorkersAreAccounted, Claiming, NoJob, NoExchange
  <1>31. ASSUME NEW w \in Workers, RequestTimesOut(w) PROVE WorkersAreAccounted'
    <2>1. \A v \in Workers : job'[v].op = job[v].op
      BY <1>0, <1>31 DEF RequestTimesOut, TypeOK, Job
    <2>2. \A v \in Workers : inflight'[v].st = IF v = w THEN "none" ELSE inflight[v].st
      BY <1>0, <1>31 DEF RequestTimesOut, TypeOK, NoExchange
    <2> QED BY <1>0, <1>31, <2>1, <2>2 DEF RequestTimesOut, TypeOK, WorkersAreAccounted, Claiming
  <1>32. ASSUME NEW w \in Workers, ObserveFails(w) PROVE WorkersAreAccounted'
    BY <1>0, <1>32 DEF ObserveFails, TypeOK, WorkersAreAccounted, Claiming
  <1>33. ASSUME NEW w \in Workers, MediaExecutes(w) PROVE WorkersAreAccounted'
    <2>1. \A v \in Workers : inflight'[v].st # "none" => inflight[v].st # "none"
      BY <1>0, <1>33 DEF MediaExecutes, TypeOK, Exchange
    <2> QED BY <1>0, <1>33, <2>1 DEF MediaExecutes, WorkersAreAccounted
  <1>34. ASSUME NEW w \in Workers, MediaRefuses(w) PROVE WorkersAreAccounted'
    <2>1. \A v \in Workers : inflight'[v].st # "none" => inflight[v].st # "none"
      BY <1>0, <1>34 DEF MediaRefuses, TypeOK, Exchange
    <2> QED BY <1>0, <1>34, <2>1 DEF MediaRefuses, WorkersAreAccounted
  <1>35. ASSUME NEW c \in Cameras, NEW k \in Configs, CreateCamera(c, k) PROVE WorkersAreAccounted'
    <2>1. \A n \in 0..MaxOps : n <= created => n <= created'
      BY <1>a, StoreAssumption
    <2> QED BY <1>0, <1>35, <2>1 DEF CreateCamera, TypeOK, Job, WorkersAreAccounted, Claiming
  <1>36. ASSUME NEW c \in Cameras, NEW k \in Configs, UpdateCamera(c, k) PROVE WorkersAreAccounted'
    <2>1. \A n \in 0..MaxOps : n <= created => n <= created'
      BY <1>a, StoreAssumption
    <2> QED BY <1>0, <1>36, <2>1 DEF UpdateCamera, TypeOK, Job, WorkersAreAccounted, Claiming
  <1>37. ASSUME NEW c \in Cameras, DeleteCamera(c) PROVE WorkersAreAccounted'
    <2>1. \A n \in 0..MaxOps : n <= created => n <= created'
      BY <1>a, StoreAssumption
    <2> QED BY <1>0, <1>37, <2>1 DEF DeleteCamera, TypeOK, Job, WorkersAreAccounted, Claiming
  <1>38. ASSUME NEW o \in OpIds, NEW r \in Resolutions, ResolveOperation(o, r) PROVE WorkersAreAccounted'
    BY <1>0, <1>38 DEF ResolveOperation, TypeOK, WorkersAreAccounted, Claiming
  <1>39. ASSUME NEW q \in orphans, MediaExecutesLate(q) PROVE WorkersAreAccounted'
    BY <1>0, <1>39 DEF MediaExecutesLate, TypeOK, WorkersAreAccounted, Claiming
  <1>40. ASSUME MediaRestarts PROVE WorkersAreAccounted'
    <2>1. \A v \in Workers : inflight'[v].st # "none" => inflight[v].st # "none"
      BY <1>0, <1>40 DEF MediaRestarts, TypeOK, Exchange
    <2> QED BY <1>0, <1>40, <2>1 DEF MediaRestarts, WorkersAreAccounted
  <1>41. ASSUME LeaseRunsOut PROVE WorkersAreAccounted'
    BY <1>0, <1>41 DEF LeaseRunsOut, TypeOK, WorkersAreAccounted, Claiming
  <1>42. ASSUME NEW o \in OpIds, ClaimRunsOut(o) PROVE WorkersAreAccounted'
    BY <1>0, <1>42 DEF ClaimRunsOut, TypeOK, WorkersAreAccounted, Claiming
  <1>43. ASSUME NEW o \in OpIds, RetryComesDue(o) PROVE WorkersAreAccounted'
    BY <1>0, <1>43 DEF RetryComesDue, TypeOK, WorkersAreAccounted, Claiming
  <1>44. CASE UNCHANGED vars
    BY <1>0, <1>44 DEF vars, WorkersAreAccounted
  <1> QED BY <1>1, <1>2, <1>3, <1>4, <1>5, <1>6, <1>7, <1>8, <1>9, <1>10, <1>11, <1>12, <1>13, <1>14, <1>15, <1>16, <1>17, <1>18, <1>19, <1>20, <1>21, <1>22, <1>23, <1>24, <1>25, <1>26, <1>27, <1>28, <1>29, <1>30, <1>31, <1>32, <1>33, <1>34, <1>35, <1>36, <1>37, <1>38, <1>39, <1>40, <1>41, <1>42, <1>43, <1>44 DEF Next, Step, Requests, Media, Time, Trouble

\* A completion adds to an observation only what it overtakes.
LEMMA OvertakesKeeps ==
    ASSUME TypeOK, NEW o, NEW rows, NEW v \in Workers
    PROVE  /\ Overtakes(o, rows)[v].todo = obs[v].todo
           /\ Overtakes(o, rows)[v].desired = obs[v].desired
           /\ Overtakes(o, rows)[v].camera = obs[v].camera
  <1>1. obs[v] \in Observation
    BY DEF TypeOK
  <1>2. /\ [obs[v] EXCEPT !.since = @ \cup {o}, !.newer = @ \cup rows].todo = obs[v].todo
        /\ [obs[v] EXCEPT !.since = @ \cup {o}, !.newer = @ \cup rows].desired
              = obs[v].desired
        /\ [obs[v] EXCEPT !.since = @ \cup {o}, !.newer = @ \cup rows].camera
              = obs[v].camera
    BY <1>1 DEF Observation
  <1> QED BY <1>2 DEF Overtakes

\* Every step keeps observations to the cameras that have a desired state.
LEMMA ObservationStep == TypeOK /\ WorkIsAccounted /\ [Next]_vars => ObservationsAreAccounted'
  <1> SUFFICES ASSUME TypeOK, WorkIsAccounted, [Next]_vars PROVE ObservationsAreAccounted'
    OBVIOUS
  <1> USE DEF Goto
  <1>0. ObservationsAreAccounted /\ obs \in [Workers -> Observation]
    BY DEF WorkIsAccounted, TypeOK
  <1>1. ASSUME NEW w \in Workers, BeginCycle(w) PROVE ObservationsAreAccounted'
    BY <1>0, <1>1 DEF BeginCycle, TypeOK, ObservationsAreAccounted, Persisting
  <1>2. ASSUME NEW w \in Workers, Acquire(w) PROVE ObservationsAreAccounted'
    BY <1>0, <1>2 DEF Acquire, TypeOK, ObservationsAreAccounted, Persisting
  <1>3. ASSUME NEW w \in Workers, LeaseBusy(w) PROVE ObservationsAreAccounted'
    BY <1>0, <1>3 DEF LeaseBusy, TypeOK, ObservationsAreAccounted, Persisting
  <1>4. ASSUME NEW w \in Workers, RenewGlobal(w) PROVE ObservationsAreAccounted'
    BY <1>0, <1>4 DEF RenewGlobal, TypeOK, ObservationsAreAccounted, Persisting
  <1>5. ASSUME NEW w \in Workers, NEW o \in OpIds, Claim(w, o) PROVE ObservationsAreAccounted'
    BY <1>0, <1>5 DEF Claim, TypeOK, ObservationsAreAccounted, Persisting
  <1>6. ASSUME NEW w \in Workers, ClaimNothing(w) PROVE ObservationsAreAccounted'
    BY <1>0, <1>6 DEF ClaimNothing, TypeOK, ObservationsAreAccounted, Persisting
  <1>7. ASSUME NEW w \in Workers, ClaimLost(w) PROVE ObservationsAreAccounted'
    BY <1>0, <1>7 DEF ClaimLost, TypeOK, ObservationsAreAccounted, Persisting
  <1>8. ASSUME NEW w \in Workers, CheckClaim(w) PROVE ObservationsAreAccounted'
    BY <1>0, <1>8 DEF CheckClaim, TypeOK, ObservationsAreAccounted, Persisting
  <1>9. ASSUME NEW w \in Workers, RenewClaim(w) PROVE ObservationsAreAccounted'
    BY <1>0, <1>9 DEF RenewClaim, TypeOK, ObservationsAreAccounted, Persisting
  <1>10. ASSUME NEW w \in Workers, VerifyClaim(w) PROVE ObservationsAreAccounted'
    BY <1>0, <1>10 DEF VerifyClaim, TypeOK, ObservationsAreAccounted, Persisting
  <1>11. ASSUME NEW w \in Workers, LoadDesired(w) PROVE ObservationsAreAccounted'
    BY <1>0, <1>11 DEF LoadDesired, TypeOK, ObservationsAreAccounted, Persisting
  <1>12. ASSUME NEW w \in Workers, LoadCamera(w) PROVE ObservationsAreAccounted'
    BY <1>0, <1>12 DEF LoadCamera, TypeOK, ObservationsAreAccounted, Persisting
  <1>13. ASSUME NEW w \in Workers, SendRequest(w) PROVE ObservationsAreAccounted'
    BY <1>0, <1>13 DEF SendRequest, TypeOK, ObservationsAreAccounted, Persisting
  <1>14. ASSUME NEW w \in Workers, ReceiveAnswer(w) PROVE ObservationsAreAccounted'
    BY <1>0, <1>14 DEF ReceiveAnswer, TypeOK, ObservationsAreAccounted, Persisting
  <1>15. ASSUME NEW w \in Workers, FinishSuperseded(w) PROVE ObservationsAreAccounted'
    <2>1. \E q, rows : obs' = Overtakes(q, rows)
      BY <1>0, <1>15 DEF FinishSuperseded, CompleteSuperseded
    <2>2. \A v \in Workers : /\ obs'[v].todo = obs[v].todo
                             /\ obs'[v].desired = obs[v].desired
                             /\ obs'[v].camera = obs[v].camera
      BY <2>1, OvertakesKeeps
    <2>3. pc' = [pc EXCEPT ![w] = "releaseMore"]
      BY <1>0, <1>15 DEF FinishSuperseded
    <2> QED BY <1>0, <2>2, <2>3 DEF TypeOK, ObservationsAreAccounted, Persisting
  <1>16. ASSUME NEW w \in Workers, FinishSuccess(w) PROVE ObservationsAreAccounted'
    <2>1. \E q, rows : obs' = Overtakes(q, rows)
      BY <1>0, <1>16 DEF FinishSuccess, CompleteSuperseded
    <2>2. \A v \in Workers : /\ obs'[v].todo = obs[v].todo
                             /\ obs'[v].desired = obs[v].desired
                             /\ obs'[v].camera = obs[v].camera
      BY <2>1, OvertakesKeeps
    <2>3. pc' = [pc EXCEPT ![w] = "releaseMore"]
      BY <1>0, <1>16 DEF FinishSuccess
    <2> QED BY <1>0, <2>2, <2>3 DEF TypeOK, ObservationsAreAccounted, Persisting
  <1>17. ASSUME NEW w \in Workers, FinishFailure(w) PROVE ObservationsAreAccounted'
    BY <1>0, <1>17 DEF FinishFailure, TypeOK, ObservationsAreAccounted, Persisting
  <1>18. ASSUME NEW w \in Workers, FinishRefused(w) PROVE ObservationsAreAccounted'
    BY <1>0, <1>18 DEF FinishRefused, TypeOK, ObservationsAreAccounted, Persisting
  <1>19. ASSUME NEW w \in Workers, Abandon(w) PROVE ObservationsAreAccounted'
    BY <1>0, <1>19 DEF Abandon, TypeOK, ObservationsAreAccounted, Persisting
  <1>20. ASSUME NEW w \in Workers, Release(w) PROVE ObservationsAreAccounted'
    <2>1. /\ \A v \in Workers : v # w => obs'[v] = obs[v]
          /\ obs'[w].todo = {}
      BY <1>0, <1>20 DEF Release, NoObs
    <2> QED BY <1>0, <1>20, <2>1 DEF Release, TypeOK, ObservationsAreAccounted, Persisting
  <1>21. ASSUME NEW w \in Workers, StartObservation(w) PROVE ObservationsAreAccounted'
    <2>1. \A v \in Workers :
             IF v = w THEN obs'[v].todo = {}
             ELSE /\ obs'[v].todo = obs[v].todo
                  /\ obs'[v].desired = obs[v].desired
                  /\ obs'[v].camera = obs[v].camera
      BY <1>0, <1>21, NoObsType DEF StartObservation, Observation, NoObs
    <2>2. pc' = [pc EXCEPT ![w] = "inventory"]
      BY <1>0, <1>21 DEF StartObservation
    <2>3. \A v \in Workers : pc'[v] \in Persisting => v # w /\ pc[v] \in Persisting
      BY <1>0, <2>2 DEF TypeOK, Persisting
    <2> QED BY <1>0, <2>1, <2>3 DEF ObservationsAreAccounted
  <1>22. ASSUME NEW w \in Workers, Observe(w) PROVE ObservationsAreAccounted'
    <2>1. \A v \in Workers : /\ obs'[v].todo = obs[v].todo
                             /\ obs'[v].desired = obs[v].desired
                             /\ obs'[v].camera = obs[v].camera
      BY <1>0, <1>22 DEF Observe, Observation
    <2> QED BY <1>0, <1>22, <2>1 DEF Observe, TypeOK, ObservationsAreAccounted, Persisting
  <1>23. ASSUME NEW w \in Workers, LoadDesiredStates(w) PROVE ObservationsAreAccounted'
    <2>1. /\ \A v \in Workers : v # w => obs'[v] = obs[v]
          /\ obs'[w].todo = {c \in Cameras : desired[c].gen # 0}
          /\ obs'[w].desired = desired
      BY <1>0, <1>23 DEF LoadDesiredStates, Observation
    <2> QED BY <1>0, <1>23, <2>1 DEF LoadDesiredStates, TypeOK, ObservationsAreAccounted, Persisting
  <1>24. ASSUME NEW w \in Workers, ObservationDone(w) PROVE ObservationsAreAccounted'
    <2>1. /\ \A v \in Workers : v # w => obs'[v] = obs[v]
          /\ obs'[w].todo = {}
      BY <1>0, <1>24 DEF ObservationDone, NoObs
    <2> QED BY <1>0, <1>24, <2>1 DEF ObservationDone, TypeOK, ObservationsAreAccounted, Persisting
  <1>25. ASSUME NEW w \in Workers, NEW c \in Cameras, CompareCamera(w, c) PROVE ObservationsAreAccounted'
    <2>1. /\ \A v \in Workers : v # w => obs'[v] = obs[v]
          /\ obs'[w].todo \subseteq obs[w].todo
          /\ obs'[w].desired = obs[w].desired
          /\ obs'[w].camera = c
      BY <1>0, <1>25 DEF CompareCamera, Observation
    <2>2. obs[w].desired[c].gen # 0
      BY <1>0, <1>25 DEF CompareCamera, ObservationsAreAccounted
    <2>3. \A v \in Workers : v # w => pc'[v] = pc[v]
      BY <1>25 DEF CompareCamera, TypeOK
    <2> QED BY <1>0, <2>1, <2>2, <2>3 DEF ObservationsAreAccounted
  <1>26. ASSUME NEW w \in Workers, PersistObserved(w) PROVE ObservationsAreAccounted'
    <2> DEFINE row == <<obs[w].camera, IF pc[w] = "persistMain" THEN "main" ELSE "sub">>
    <2>1. \/ obs' = obs
          \/ obs' = [v \in Workers |-> IF v \in obs[w].older /\ pc[v] \in Observing
                                       THEN [obs[v] EXCEPT !.newer = @ \cup {row}]
                                       ELSE obs[v]]
      BY <1>26 DEF PersistObserved
    <2> HIDE DEF row
    <2>2. obs \in [Workers -> Observation]
      BY <1>0 DEF TypeOK
    <2>3. \A v \in Workers : /\ obs'[v].todo = obs[v].todo
                             /\ obs'[v].desired = obs[v].desired
                             /\ obs'[v].camera = obs[v].camera
      <3> SUFFICES ASSUME NEW v \in Workers
                   PROVE  /\ obs'[v].todo = obs[v].todo
                          /\ obs'[v].desired = obs[v].desired
                          /\ obs'[v].camera = obs[v].camera
        OBVIOUS
      <3>1. obs[v] \in Observation
        BY <2>2
      <3>2. obs'[v] = obs[v] \/ obs'[v] = [obs[v] EXCEPT !.newer = @ \cup {row}]
        BY <2>1
      <3> QED BY <3>1, <3>2 DEF Observation
    <2>4. obs[w].desired[obs[w].camera].gen # 0
      BY <1>0, <1>26 DEF PersistObserved, ObservationsAreAccounted, Persisting
    <2>5. \A v \in Workers : v # w => pc'[v] = pc[v]
      BY <1>0, <1>26 DEF PersistObserved, Goto, TypeOK
    <2> QED BY <1>0, <2>3, <2>4, <2>5 DEF ObservationsAreAccounted
  <1>27. ASSUME NEW w \in Workers, CheckDrift(w) PROVE ObservationsAreAccounted'
    BY <1>0, <1>27 DEF CheckDrift, TypeOK, ObservationsAreAccounted, Persisting
  <1>28. ASSUME NEW w \in Workers, EnqueueDrift(w) PROVE ObservationsAreAccounted'
    BY <1>0, <1>28 DEF EnqueueDrift, TypeOK, ObservationsAreAccounted, Persisting
  <1>29. ASSUME NEW w \in Workers, Start(w) PROVE ObservationsAreAccounted'
    BY <1>0, <1>29 DEF Start, TypeOK, ObservationsAreAccounted, Persisting
  <1>30. ASSUME NEW w \in Workers, Crash(w) PROVE ObservationsAreAccounted'
    <2>1. /\ \A v \in Workers : v # w => obs'[v] = obs[v]
          /\ obs'[w].todo = {}
      BY <1>0, <1>30 DEF Crash, NoObs
    <2> QED BY <1>0, <1>30, <2>1 DEF Crash, TypeOK, ObservationsAreAccounted, Persisting
  <1>31. ASSUME NEW w \in Workers, RequestTimesOut(w) PROVE ObservationsAreAccounted'
    BY <1>0, <1>31 DEF RequestTimesOut, TypeOK, ObservationsAreAccounted, Persisting
  <1>32. ASSUME NEW w \in Workers, ObserveFails(w) PROVE ObservationsAreAccounted'
    BY <1>0, <1>32 DEF ObserveFails, TypeOK, ObservationsAreAccounted, Persisting
  <1>33. ASSUME NEW w \in Workers, MediaExecutes(w) PROVE ObservationsAreAccounted'
    BY <1>0, <1>33 DEF MediaExecutes, TypeOK, ObservationsAreAccounted, Persisting
  <1>34. ASSUME NEW w \in Workers, MediaRefuses(w) PROVE ObservationsAreAccounted'
    BY <1>0, <1>34 DEF MediaRefuses, TypeOK, ObservationsAreAccounted, Persisting
  <1>35. ASSUME NEW c \in Cameras, NEW k \in Configs, CreateCamera(c, k) PROVE ObservationsAreAccounted'
    BY <1>0, <1>35 DEF CreateCamera, TypeOK, ObservationsAreAccounted, Persisting
  <1>36. ASSUME NEW c \in Cameras, NEW k \in Configs, UpdateCamera(c, k) PROVE ObservationsAreAccounted'
    BY <1>0, <1>36 DEF UpdateCamera, TypeOK, ObservationsAreAccounted, Persisting
  <1>37. ASSUME NEW c \in Cameras, DeleteCamera(c) PROVE ObservationsAreAccounted'
    BY <1>0, <1>37 DEF DeleteCamera, TypeOK, ObservationsAreAccounted, Persisting
  <1>38. ASSUME NEW o \in OpIds, NEW r \in Resolutions, ResolveOperation(o, r) PROVE ObservationsAreAccounted'
    BY <1>0, <1>38 DEF ResolveOperation, TypeOK, ObservationsAreAccounted, Persisting
  <1>39. ASSUME NEW q \in orphans, MediaExecutesLate(q) PROVE ObservationsAreAccounted'
    BY <1>0, <1>39 DEF MediaExecutesLate, TypeOK, ObservationsAreAccounted, Persisting
  <1>40. ASSUME MediaRestarts PROVE ObservationsAreAccounted'
    BY <1>0, <1>40 DEF MediaRestarts, TypeOK, ObservationsAreAccounted, Persisting
  <1>41. ASSUME LeaseRunsOut PROVE ObservationsAreAccounted'
    BY <1>0, <1>41 DEF LeaseRunsOut, TypeOK, ObservationsAreAccounted, Persisting
  <1>42. ASSUME NEW o \in OpIds, ClaimRunsOut(o) PROVE ObservationsAreAccounted'
    BY <1>0, <1>42 DEF ClaimRunsOut, TypeOK, ObservationsAreAccounted, Persisting
  <1>43. ASSUME NEW o \in OpIds, RetryComesDue(o) PROVE ObservationsAreAccounted'
    BY <1>0, <1>43 DEF RetryComesDue, TypeOK, ObservationsAreAccounted, Persisting
  <1>44. CASE UNCHANGED vars
    BY <1>0, <1>44 DEF vars, ObservationsAreAccounted
  <1> QED BY <1>1, <1>2, <1>3, <1>4, <1>5, <1>6, <1>7, <1>8, <1>9, <1>10, <1>11, <1>12, <1>13, <1>14, <1>15, <1>16, <1>17, <1>18, <1>19, <1>20, <1>21, <1>22, <1>23, <1>24, <1>25, <1>26, <1>27, <1>28, <1>29, <1>30, <1>31, <1>32, <1>33, <1>34, <1>35, <1>36, <1>37, <1>38, <1>39, <1>40, <1>41, <1>42, <1>43, <1>44 DEF Next, Step, Requests, Media, Time, Trouble

-----------------------------------------------------------------------------
(* Type correctness.                                                       *)

\* The system starts well-formed.
LEMMA InitType == Init => TypeOK /\ WorkIsAccounted
  <1> SUFFICES ASSUME Init PROVE TypeOK /\ WorkIsAccounted
    OBVIOUS
  <1>1. /\ (CHOOSE k \in Configs : TRUE) \in Configs
        /\ 0 \in Gens /\ 0 \in 0..MaxOps /\ 0 \in 0..MaxFaults /\ 0 \in 0..MaxStalls
    BY ModelAssumption, StoreAssumption DEF Gens
  <1>2. NoDesired \in Desired /\ NoRow \in [content : Content, gen : Gens]
    BY <1>1 DEF NoDesired, Desired, NoRow, Content
  <1>3. FreeLease \in Lease
    BY DEF FreeLease, Lease
  <1>4. TypeOK
    BY <1>1, <1>2, <1>3, NewOpType, NoJobType, NoObsType, NoExchangeType, NoPathsType
       DEF Init, TypeOK, Locations
  <1>5. OperationsAreAccounted
    BY StoreAssumption DEF Init, OperationsAreAccounted, NoOp, OpIds
  <1>6. WorkersAreAccounted
    BY DEF Init, WorkersAreAccounted, Claiming, NoExchange
  <1>7. ObservationsAreAccounted
    BY DEF Init, ObservationsAreAccounted, Persisting, NoObs
  <1> QED BY <1>4, <1>5, <1>6, <1>7 DEF WorkIsAccounted

\* Every state is a well-formed one: in particular no operation is ever offered
\* for, or given, more attempts than max_attempts, whatever fails, crashes or
\* runs out (claim_next_operation itself does not look at the attempts).
THEOREM TypeCorrect == Spec => [](TypeOK /\ WorkIsAccounted)
  <1>1. Init => TypeOK /\ WorkIsAccounted
    BY InitType
  <1>2. TypeOK /\ WorkIsAccounted /\ [Next]_vars => (TypeOK /\ WorkIsAccounted)'
    BY TypeStep, OperationStep, WorkerStep, ObservationStep DEF WorkIsAccounted
  <1> QED BY <1>1, <1>2, PTL DEF Spec

-----------------------------------------------------------------------------
(* Fencing.                                                                *)

\* The actions that touch an operation.
TouchesOperations ==
    \/ \E w \in Workers :
          \/ Start(w) \/ BeginCycle(w) \/ Abandon(w) \/ EnqueueDrift(w)
          \/ \E o \in OpIds : Claim(w, o)
          \/ FinishSuperseded(w) \/ FinishSuccess(w) \/ FinishFailure(w)
    \/ Requests
    \/ \E o \in OpIds : ClaimRunsOut(o) \/ RetryComesDue(o)

\* Every other step leaves all operations as they are.
LEMMA OperationsTouched == [Next]_vars => TouchesOperations \/ ops' = ops
  <1> SUFFICES ASSUME [Next]_vars, ops' # ops PROVE TouchesOperations
    OBVIOUS
  <1> USE DEF store
  <1>1. ASSUME NEW w \in Workers, Acquire(w) PROVE FALSE
    BY <1>1 DEF Acquire
  <1>2. ASSUME NEW w \in Workers, LeaseBusy(w) PROVE FALSE
    BY <1>2 DEF LeaseBusy
  <1>3. ASSUME NEW w \in Workers, RenewGlobal(w) PROVE FALSE
    BY <1>3 DEF RenewGlobal
  <1>4. ASSUME NEW w \in Workers, ClaimNothing(w) PROVE FALSE
    BY <1>4 DEF ClaimNothing
  <1>5. ASSUME NEW w \in Workers, ClaimLost(w) PROVE FALSE
    BY <1>5 DEF ClaimLost
  <1>6. ASSUME NEW w \in Workers, CheckClaim(w) PROVE FALSE
    BY <1>6 DEF CheckClaim
  <1>7. ASSUME NEW w \in Workers, RenewClaim(w) PROVE FALSE
    BY <1>7 DEF RenewClaim
  <1>8. ASSUME NEW w \in Workers, VerifyClaim(w) PROVE FALSE
    BY <1>8 DEF VerifyClaim
  <1>9. ASSUME NEW w \in Workers, LoadDesired(w) PROVE FALSE
    BY <1>9 DEF LoadDesired
  <1>10. ASSUME NEW w \in Workers, LoadCamera(w) PROVE FALSE
    BY <1>10 DEF LoadCamera
  <1>11. ASSUME NEW w \in Workers, SendRequest(w) PROVE FALSE
    BY <1>11 DEF SendRequest
  <1>12. ASSUME NEW w \in Workers, ReceiveAnswer(w) PROVE FALSE
    BY <1>12 DEF ReceiveAnswer
  <1>13. ASSUME NEW w \in Workers, FinishRefused(w) PROVE FALSE
    BY <1>13 DEF FinishRefused
  <1>14. ASSUME NEW w \in Workers, Release(w) PROVE FALSE
    BY <1>14 DEF Release
  <1>15. ASSUME NEW w \in Workers, StartObservation(w) PROVE FALSE
    BY <1>15 DEF StartObservation
  <1>16. ASSUME NEW w \in Workers, Observe(w) PROVE FALSE
    BY <1>16 DEF Observe
  <1>17. ASSUME NEW w \in Workers, LoadDesiredStates(w) PROVE FALSE
    BY <1>17 DEF LoadDesiredStates
  <1>18. ASSUME NEW w \in Workers, ObservationDone(w) PROVE FALSE
    BY <1>18 DEF ObservationDone
  <1>19. ASSUME NEW w \in Workers, PersistObserved(w) PROVE FALSE
    BY <1>19 DEF PersistObserved
  <1>20. ASSUME NEW w \in Workers, CheckDrift(w) PROVE FALSE
    BY <1>20 DEF CheckDrift
  <1>21. ASSUME NEW w \in Workers, Crash(w) PROVE FALSE
    BY <1>21 DEF Crash
  <1>22. ASSUME NEW w \in Workers, RequestTimesOut(w) PROVE FALSE
    BY <1>22 DEF RequestTimesOut
  <1>23. ASSUME NEW w \in Workers, ObserveFails(w) PROVE FALSE
    BY <1>23 DEF ObserveFails
  <1>24. ASSUME NEW w \in Workers, MediaExecutes(w) PROVE FALSE
    BY <1>24 DEF MediaExecutes
  <1>25. ASSUME NEW w \in Workers, MediaRefuses(w) PROVE FALSE
    BY <1>25 DEF MediaRefuses
  <1>26. ASSUME NEW w \in Workers, NEW c \in Cameras, CompareCamera(w, c) PROVE FALSE
    BY <1>26 DEF CompareCamera
  <1>27. ASSUME NEW r \in orphans, MediaExecutesLate(r) PROVE FALSE
    BY <1>27 DEF MediaExecutesLate
  <1>28. CASE MediaRestarts
    BY <1>28 DEF MediaRestarts
  <1>29. CASE LeaseRunsOut
    BY <1>29 DEF LeaseRunsOut
  <1>30. CASE UNCHANGED vars
    BY <1>30 DEF vars
  <1> QED BY <1>1, <1>2, <1>3, <1>4, <1>5, <1>6, <1>7, <1>8, <1>9, <1>10, <1>11, <1>12, <1>13, <1>14, <1>15, <1>16, <1>17, <1>18, <1>19, <1>20, <1>21, <1>22, <1>23, <1>24, <1>25, <1>26, <1>27, <1>28, <1>29, <1>30
          DEF TouchesOperations, Next, Step, Media, Time, Trouble

\* Inserting a row leaves every running operation alone.
LEMMA NoRunningInsert ==
    ASSUME TypeOK, OperationsAreAccounted, NEW o \in OpIds, ops[o].state = "running",
           NEW c, NEW g, Enqueue(c, g)
    PROVE  ops'[o] = ops[o]
  <1>1. o # created + 1
    BY StoreAssumption DEF OperationsAreAccounted, TypeOK, OpIds
  <1> QED BY <1>1 DEF Enqueue, TypeOK

\* What completes an operation is one of the three completions of a worker, and
\* each requires both leases.
LEMMA FencedStep ==
    ASSUME TypeOK, WorkIsAccounted, [Next]_vars,
           NEW o \in OpIds, ops[o].state = "running",
           ops'[o].state \notin {"running", "unknown"}
    PROVE  ops[o].live /\ lease.live /\ lease.owner = ops[o].owner
  <1> USE DEF store
  <1>0. ops \in [OpIds -> OpType] /\ OperationsAreAccounted
    BY DEF TypeOK, WorkIsAccounted
  <1>1. CASE ops' = ops
    BY <1>1
  <1>2. ASSUME NEW w \in Workers, BeginCycle(w) PROVE ops[o].live /\ lease.live /\ lease.owner = ops[o].owner
    BY <1>0, <1>2, RecoveredType DEF BeginCycle
  <1>3. ASSUME NEW w \in Workers, NEW q \in OpIds, Claim(w, q) PROVE ops[o].live /\ lease.live /\ lease.owner = ops[o].owner
    <2>1. ops' = [ops EXCEPT ![q] = Claimed(ops[q], me[w])] /\ ops[q] # ops[o]
      BY <1>0, <1>3 DEF Claim, Claimable
    <2> QED BY <1>0, <1>3, <2>1
  <1>4. ASSUME NEW w \in Workers, FinishSuperseded(w) PROVE ops[o].live /\ lease.live /\ lease.owner = ops[o].owner
    <2>1. \A q \in OpIds : q # job[w].op => ops'[q] = ops[q]
      BY <1>0, <1>4 DEF FinishSuperseded, CompleteSuperseded
    <2>2. o = job[w].op /\ Fenced(w)
      BY <1>0, <1>4, <2>1 DEF FinishSuperseded
    <2> QED BY <2>2 DEF Fenced, HoldsLease, OwnedBy
  <1>5. ASSUME NEW w \in Workers, FinishSuccess(w) PROVE ops[o].live /\ lease.live /\ lease.owner = ops[o].owner
    <2>1. \A q \in OpIds : q # job[w].op => ops'[q] = ops[q]
      BY <1>0, <1>5 DEF FinishSuccess, CompleteSuperseded
    <2>2. o = job[w].op /\ Fenced(w)
      BY <1>0, <1>5, <2>1 DEF FinishSuccess
    <2> QED BY <2>2 DEF Fenced, HoldsLease, OwnedBy
  <1>6. ASSUME NEW w \in Workers, FinishFailure(w) PROVE ops[o].live /\ lease.live /\ lease.owner = ops[o].owner
    <2>1. \A q \in OpIds : q # job[w].op => ops'[q] = ops[q]
      BY <1>0, <1>6 DEF FinishFailure, CompleteSuperseded
    <2>2. o = job[w].op /\ Fenced(w)
      BY <1>0, <1>6, <2>1 DEF FinishFailure
    <2> QED BY <2>2 DEF Fenced, HoldsLease, OwnedBy
  <1>7. ASSUME NEW w \in Workers, Abandon(w) PROVE ops[o].live /\ lease.live /\ lease.owner = ops[o].owner
    <2>1. job[w].op \in OpIds /\ ops[job[w].op] \in OpType
      BY <1>0, <1>7, JobOperation DEF Abandon, Claiming
    <2>2. ops' = [ops EXCEPT ![job[w].op] = AbandonClaim(ops[job[w].op], me[w])]
      BY <1>0, <1>7 DEF Abandon
    <2> QED BY <1>0, <1>7, <2>1, <2>2, AbandonType
  <1>8. ASSUME NEW w \in Workers, EnqueueDrift(w) PROVE ops[o].live /\ lease.live /\ lease.owner = ops[o].owner
    <2>1. \E c, g : Enqueue(c, g)
      BY <1>0, <1>8 DEF EnqueueDrift
    <2> QED BY <1>0, <1>8, <2>1, NoRunningInsert
  <1>9. ASSUME NEW w \in Workers, Start(w) PROVE ops[o].live /\ lease.live /\ lease.owner = ops[o].owner
    BY <1>0, <1>9, RecoveredType DEF Start
  <1>10. ASSUME NEW c \in Cameras, NEW k \in Configs, CreateCamera(c, k) PROVE ops[o].live /\ lease.live /\ lease.owner = ops[o].owner
    <2>1. \E c2, g : Enqueue(c2, g)
      BY <1>0, <1>10 DEF CreateCamera, QueueCameraChange
    <2> QED BY <1>0, <1>10, <2>1, NoRunningInsert
  <1>11. ASSUME NEW c \in Cameras, NEW k \in Configs, UpdateCamera(c, k) PROVE ops[o].live /\ lease.live /\ lease.owner = ops[o].owner
    <2>1. \E c2, g : Enqueue(c2, g)
      BY <1>0, <1>11 DEF UpdateCamera, QueueCameraChange
    <2> QED BY <1>0, <1>11, <2>1, NoRunningInsert
  <1>12. ASSUME NEW c \in Cameras, DeleteCamera(c) PROVE ops[o].live /\ lease.live /\ lease.owner = ops[o].owner
    <2>1. \E c2, g : Enqueue(c2, g)
      BY <1>0, <1>12 DEF DeleteCamera, QueueCameraChange
    <2> QED BY <1>0, <1>12, <2>1, NoRunningInsert
  <1>13. ASSUME NEW q \in OpIds, NEW r \in Resolutions, ResolveOperation(q, r) PROVE ops[o].live /\ lease.live /\ lease.owner = ops[o].owner
    <2>1. ops[q].state # "running" /\ ops' = [ops EXCEPT ![q] = Resolved(ops[q], r)]
      BY <1>0, <1>13 DEF ResolveOperation, Resolvable
    <2> QED BY <1>0, <1>13, <2>1
  <1>14. ASSUME NEW q \in OpIds, ClaimRunsOut(q) PROVE ops[o].live /\ lease.live /\ lease.owner = ops[o].owner
    <2>1. ops'[o].state = ops[o].state
      BY <1>0, <1>14 DEF ClaimRunsOut, OpType
    <2> QED BY <1>0, <1>14, <2>1
  <1>15. ASSUME NEW q \in OpIds, RetryComesDue(q) PROVE ops[o].live /\ lease.live /\ lease.owner = ops[o].owner
    <2>1. ops'[o].state = ops[o].state
      BY <1>0, <1>15 DEF RetryComesDue, OpType
    <2> QED BY <1>0, <1>15, <2>1
  <1> QED BY <1>1, <1>2, <1>3, <1>4, <1>5, <1>6, <1>7, <1>8, <1>9, <1>10, <1>11, <1>12, <1>13, <1>14, <1>15, OperationsTouched
          DEF TouchesOperations, Requests

\* A worker that lost its lease, on the operation or the global one, completes
\* nothing: neither a success, nor a failure, nor a retry (complete_owned_in).
THEOREM CompletionIsFenced == Spec => FencedCompletion
  <1>1. TypeOK /\ WorkIsAccounted /\ [Next]_vars =>
          [\A o \in OpIds :
              /\ ops[o].state = "running"
              /\ ops'[o].state \notin {"running", "unknown"}
              => ops[o].live /\ lease.live /\ lease.owner = ops[o].owner]_vars
    BY FencedStep
  <1> QED BY <1>1, TypeCorrect, PTL DEF Spec, FencedCompletion

-----------------------------------------------------------------------------
(* What a worker read, and the rows it read it from.                       *)

\* A request replaces a desired state by one of the next generation, and leaves
\* the configuration alone otherwise.
CatalogKept ==
    \A c \in Cameras : \/ /\ desired'[c] = desired[c]
                          /\ cam'[c].config = cam[c].config
                       \/ desired'[c].gen = desired[c].gen + 1

\* A request for a change records what it asks for, and moves the generation on.
LEMMA QueueHistory ==
    ASSUME TypeOK, HistoryIsCurrent, NEW c \in Cameras, NEW k \in Configs,
           NEW present \in BOOLEAN, QueueCameraChange(c, k, present),
           \A e \in Cameras : cam'[e].config = IF e = c THEN k ELSE cam[e].config
    PROVE  HistoryIsCurrent' /\ CatalogKept
  <1> DEFINE g == desired[c].gen + 1
             d == [gen |-> g, present |-> present,
                   sub |-> present /\ k.sub # NoSource,
                   record |-> present /\ k.record]
  <1>1. desired[c].gen \in Gens
    BY DEF TypeOK, Desired
  <1>2. /\ desired' = [desired EXCEPT ![c] = d]
        /\ committed' = [committed EXCEPT ![c][g] = Expected(d, k)]
        /\ g \in 1..MaxGen
    BY <1>1, StoreAssumption DEF QueueCameraChange, Gens
  <1>3. \A e \in Cameras : desired'[e] = IF e = c THEN d ELSE desired[e]
    BY <1>2 DEF TypeOK
  <1>4. /\ committed'[c][g] = Expected(d, k)
        /\ \A e \in Cameras : e # c => committed'[e] = committed[e]
    BY <1>2 DEF TypeOK
  <1>5. d.gen = g /\ (d.sub => k.sub # NoSource)
    OBVIOUS
  <1> HIDE DEF g, d
  <1>6. HistoryIsCurrent'
    <2> SUFFICES ASSUME NEW e \in Cameras, desired'[e].gen # 0
                 PROVE  /\ committed'[e][desired'[e].gen]
                             = Expected(desired'[e], cam'[e].config)
                        /\ desired'[e].sub => cam'[e].config.sub # NoSource
      BY DEF HistoryIsCurrent, Expected
    <2>1. CASE e = c
      BY <2>1, <1>3, <1>4, <1>5
    <2>2. CASE e # c
      BY <2>2, <1>3, <1>4 DEF HistoryIsCurrent
    <2> QED BY <2>1, <2>2
  <1>7. CatalogKept
    BY <1>3, <1>5 DEF CatalogKept, g
  <1> QED BY <1>6, <1>7

\* Every step keeps the history of what the current generation asks for true: no
\* camera row is ever changed without a new generation.
LEMMA HistoryStep ==
    TypeOK /\ HistoryIsCurrent /\ [Next]_vars => HistoryIsCurrent' /\ CatalogKept
  <1> SUFFICES ASSUME TypeOK, HistoryIsCurrent, [Next]_vars
               PROVE  HistoryIsCurrent' /\ CatalogKept
    OBVIOUS
  <1>1. CASE UNCHANGED catalog
    <2>1. cam' = cam /\ desired' = desired /\ committed' = committed
      BY <1>1 DEF catalog
    <2>2. HistoryIsCurrent'
      <3> SUFFICES ASSUME NEW e \in Cameras, desired'[e].gen # 0
                   PROVE  /\ committed'[e][desired'[e].gen]
                               = Expected(desired'[e], cam'[e].config)
                          /\ desired'[e].sub => cam'[e].config.sub # NoSource
        BY DEF HistoryIsCurrent, Expected
      <3> QED BY <2>1 DEF HistoryIsCurrent
    <2> QED BY <2>1, <2>2 DEF CatalogKept
  <1>2. ASSUME NEW c \in Cameras, NEW k \in Configs, CreateCamera(c, k)
        PROVE  HistoryIsCurrent' /\ CatalogKept
    <2>1. \A e \in Cameras : cam'[e].config = IF e = c THEN k ELSE cam[e].config
      BY <1>2 DEF CreateCamera, TypeOK
    <2>2. QueueCameraChange(c, k, k.enabled) /\ k.enabled \in BOOLEAN
      BY <1>2, ModelAssumption DEF CreateCamera
    <2> QED BY <2>1, <2>2, QueueHistory
  <1>3. ASSUME NEW c \in Cameras, NEW k \in Configs, UpdateCamera(c, k)
        PROVE  HistoryIsCurrent' /\ CatalogKept
    <2>1. \A e \in Cameras : cam'[e].config = IF e = c THEN k ELSE cam[e].config
      BY <1>3 DEF UpdateCamera, TypeOK
    <2>2. QueueCameraChange(c, k, k.enabled) /\ k.enabled \in BOOLEAN
      BY <1>3, ModelAssumption DEF UpdateCamera
    <2> QED BY <2>1, <2>2, QueueHistory
  <1>4. ASSUME NEW c \in Cameras, DeleteCamera(c)
        PROVE  HistoryIsCurrent' /\ CatalogKept
    <2> DEFINE k == cam[c].config
    <2>1. k \in Configs
      BY DEF TypeOK
    <2>2. \A e \in Cameras : cam'[e].config = IF e = c THEN k ELSE cam[e].config
      BY <1>4 DEF DeleteCamera, TypeOK
    <2>3. QueueCameraChange(c, k, FALSE)
      BY <1>4 DEF DeleteCamera
    <2> HIDE DEF k
    <2> QED BY <2>1, <2>2, <2>3, QueueHistory
  <1>5. ASSUME NEW w \in Workers, Start(w) \/ Step(w) PROVE UNCHANGED catalog
    BY <1>5 DEF Start, Step, BeginCycle, Acquire, LeaseBusy, RenewGlobal, Claim,
       ClaimNothing, ClaimLost, CheckClaim, RenewClaim, VerifyClaim,
       LoadDesired, LoadCamera, SendRequest, ReceiveAnswer, FinishSuperseded,
       FinishSuccess, FinishFailure, FinishRefused, Abandon, Release,
       StartObservation, Observe, LoadDesiredStates, ObservationDone, CompareCamera,
       PersistObserved, CheckDrift, EnqueueDrift
  <1>6. ASSUME Media \/ Time \/ Trouble PROVE UNCHANGED catalog
    BY <1>6 DEF Media, Time, Trouble, MediaExecutes, MediaRefuses, MediaExecutesLate,
       MediaRestarts, LeaseRunsOut, ClaimRunsOut, RetryComesDue, Crash, RequestTimesOut,
       ObserveFails
  <1>7. ASSUME NEW o \in OpIds, NEW r \in Resolutions, ResolveOperation(o, r)
        PROVE  UNCHANGED catalog
    BY <1>7 DEF ResolveOperation
  <1> QED BY <1>1, <1>2, <1>3, <1>4, <1>5, <1>6, <1>7 DEF Next, Requests, vars, catalog

\* What a worker holds about its operation was read by LoadDesired and LoadCamera.
ReadsKept(v) ==
    pc'[v] \in ReadDesired =>
        \/ LoadDesired(v)
        \/ /\ pc[v] \in ReadDesired
           /\ job'[v].op = job[v].op
           /\ job'[v].desired = job[v].desired
           /\ pc'[v] \in ReadCamera =>
                 \/ LoadCamera(v)
                 \/ pc[v] \in ReadCamera /\ job'[v].config = job[v].config

\* What a worker has read of an operation it changes only by reading it again.
LEMMA ReadStep == TypeOK /\ [Next]_vars => \A v \in Workers : ReadsKept(v)
  <1> SUFFICES ASSUME TypeOK, [Next]_vars, NEW v \in Workers PROVE ReadsKept(v)
    OBVIOUS
  <1> USE DEF Goto, ReadsKept, ReadDesired, ReadCamera
  <1>1. ASSUME NEW w \in Workers, BeginCycle(w) PROVE ReadsKept(v)
    BY <1>1 DEF BeginCycle, TypeOK
  <1>2. ASSUME NEW w \in Workers, Acquire(w) PROVE ReadsKept(v)
    BY <1>2 DEF Acquire, TypeOK
  <1>3. ASSUME NEW w \in Workers, LeaseBusy(w) PROVE ReadsKept(v)
    BY <1>3 DEF LeaseBusy, TypeOK
  <1>4. ASSUME NEW w \in Workers, RenewGlobal(w) PROVE ReadsKept(v)
    BY <1>4 DEF RenewGlobal, TypeOK
  <1>5. ASSUME NEW w \in Workers, NEW o \in OpIds, Claim(w, o) PROVE ReadsKept(v)
    BY <1>5 DEF Claim, TypeOK, Job
  <1>6. ASSUME NEW w \in Workers, ClaimNothing(w) PROVE ReadsKept(v)
    BY <1>6 DEF ClaimNothing, TypeOK
  <1>7. ASSUME NEW w \in Workers, ClaimLost(w) PROVE ReadsKept(v)
    BY <1>7 DEF ClaimLost, TypeOK
  <1>8. ASSUME NEW w \in Workers, CheckClaim(w) PROVE ReadsKept(v)
    BY <1>8 DEF CheckClaim, TypeOK
  <1>9. ASSUME NEW w \in Workers, RenewClaim(w) PROVE ReadsKept(v)
    BY <1>9 DEF RenewClaim, TypeOK, Job
  <1>10. ASSUME NEW w \in Workers, VerifyClaim(w) PROVE ReadsKept(v)
    BY <1>10 DEF VerifyClaim, TypeOK, Job
  <1>11. ASSUME NEW w \in Workers, LoadDesired(w) PROVE ReadsKept(v)
    BY <1>11 DEF LoadDesired, TypeOK, Job
  <1>12. ASSUME NEW w \in Workers, LoadCamera(w) PROVE ReadsKept(v)
    BY <1>12 DEF LoadCamera, TypeOK, Job
  <1>13. ASSUME NEW w \in Workers, SendRequest(w) PROVE ReadsKept(v)
    BY <1>13 DEF SendRequest, TypeOK
  <1>14. ASSUME NEW w \in Workers, ReceiveAnswer(w) PROVE ReadsKept(v)
    BY <1>14 DEF ReceiveAnswer, TypeOK, Job
  <1>15. ASSUME NEW w \in Workers, FinishSuperseded(w) PROVE ReadsKept(v)
    BY <1>15 DEF FinishSuperseded, TypeOK
  <1>16. ASSUME NEW w \in Workers, FinishSuccess(w) PROVE ReadsKept(v)
    BY <1>16 DEF FinishSuccess, TypeOK
  <1>17. ASSUME NEW w \in Workers, FinishFailure(w) PROVE ReadsKept(v)
    BY <1>17 DEF FinishFailure, TypeOK
  <1>18. ASSUME NEW w \in Workers, FinishRefused(w) PROVE ReadsKept(v)
    BY <1>18 DEF FinishRefused, TypeOK
  <1>19. ASSUME NEW w \in Workers, Abandon(w) PROVE ReadsKept(v)
    BY <1>19 DEF Abandon, TypeOK
  <1>20. ASSUME NEW w \in Workers, Release(w) PROVE ReadsKept(v)
    BY <1>20 DEF Release, TypeOK, Job
  <1>21. ASSUME NEW w \in Workers, StartObservation(w) PROVE ReadsKept(v)
    BY <1>21 DEF StartObservation, TypeOK
  <1>22. ASSUME NEW w \in Workers, Observe(w) PROVE ReadsKept(v)
    BY <1>22 DEF Observe, TypeOK
  <1>23. ASSUME NEW w \in Workers, LoadDesiredStates(w) PROVE ReadsKept(v)
    BY <1>23 DEF LoadDesiredStates, TypeOK
  <1>24. ASSUME NEW w \in Workers, ObservationDone(w) PROVE ReadsKept(v)
    BY <1>24 DEF ObservationDone, TypeOK
  <1>25. ASSUME NEW w \in Workers, NEW c \in Cameras, CompareCamera(w, c) PROVE ReadsKept(v)
    BY <1>25 DEF CompareCamera, TypeOK
  <1>26. ASSUME NEW w \in Workers, PersistObserved(w) PROVE ReadsKept(v)
    BY <1>26 DEF PersistObserved, TypeOK
  <1>27. ASSUME NEW w \in Workers, CheckDrift(w) PROVE ReadsKept(v)
    BY <1>27 DEF CheckDrift, TypeOK
  <1>28. ASSUME NEW w \in Workers, EnqueueDrift(w) PROVE ReadsKept(v)
    BY <1>28 DEF EnqueueDrift, TypeOK
  <1>29. ASSUME NEW w \in Workers, Start(w) PROVE ReadsKept(v)
    BY <1>29 DEF Start, TypeOK
  <1>30. ASSUME NEW w \in Workers, Crash(w) PROVE ReadsKept(v)
    BY <1>30 DEF Crash, TypeOK, Job
  <1>31. ASSUME NEW w \in Workers, RequestTimesOut(w) PROVE ReadsKept(v)
    BY <1>31 DEF RequestTimesOut, TypeOK, Job
  <1>32. ASSUME NEW w \in Workers, ObserveFails(w) PROVE ReadsKept(v)
    BY <1>32 DEF ObserveFails, TypeOK
  <1>33. ASSUME NEW w \in Workers, MediaExecutes(w) PROVE ReadsKept(v)
    BY <1>33 DEF MediaExecutes, TypeOK
  <1>34. ASSUME NEW w \in Workers, MediaRefuses(w) PROVE ReadsKept(v)
    BY <1>34 DEF MediaRefuses, TypeOK
  <1>35. ASSUME NEW c \in Cameras, NEW k \in Configs, CreateCamera(c, k) PROVE ReadsKept(v)
    BY <1>35 DEF CreateCamera, TypeOK
  <1>36. ASSUME NEW c \in Cameras, NEW k \in Configs, UpdateCamera(c, k) PROVE ReadsKept(v)
    BY <1>36 DEF UpdateCamera, TypeOK
  <1>37. ASSUME NEW c \in Cameras, DeleteCamera(c) PROVE ReadsKept(v)
    BY <1>37 DEF DeleteCamera, TypeOK
  <1>38. ASSUME NEW o \in OpIds, NEW r \in Resolutions, ResolveOperation(o, r) PROVE ReadsKept(v)
    BY <1>38 DEF ResolveOperation, TypeOK
  <1>39. ASSUME NEW q \in orphans, MediaExecutesLate(q) PROVE ReadsKept(v)
    BY <1>39 DEF MediaExecutesLate, TypeOK
  <1>40. ASSUME MediaRestarts PROVE ReadsKept(v)
    BY <1>40 DEF MediaRestarts, TypeOK
  <1>41. ASSUME LeaseRunsOut PROVE ReadsKept(v)
    BY <1>41 DEF LeaseRunsOut, TypeOK
  <1>42. ASSUME NEW o \in OpIds, ClaimRunsOut(o) PROVE ReadsKept(v)
    BY <1>42 DEF ClaimRunsOut, TypeOK
  <1>43. ASSUME NEW o \in OpIds, RetryComesDue(o) PROVE ReadsKept(v)
    BY <1>43 DEF RetryComesDue, TypeOK
  <1>44. CASE UNCHANGED vars
    BY <1>44 DEF vars
  <1> QED BY <1>1, <1>2, <1>3, <1>4, <1>5, <1>6, <1>7, <1>8, <1>9, <1>10, <1>11, <1>12, <1>13, <1>14, <1>15, <1>16, <1>17, <1>18, <1>19, <1>20, <1>21, <1>22, <1>23, <1>24, <1>25, <1>26, <1>27, <1>28, <1>29, <1>30, <1>31, <1>32, <1>33, <1>34, <1>35, <1>36, <1>37, <1>38, <1>39, <1>40, <1>41, <1>42, <1>43, <1>44 DEF Next, Step, Requests, Media, Time, Trouble

\* A worker applies an operation of a committed generation.
LEMMA LoadingPresent ==
    ASSUME TypeOK, WorkIsAccounted, NEW w \in Workers, pc[w] \in Claiming
    PROVE  ops[job[w].op].gen # 0
  <1>1. job[w].op \in OpIds /\ job[w].op <= created
    BY JobOperation
  <1>2. created \in Nat /\ job[w].op \in Nat
    BY <1>1, StoreAssumption DEF OpIds, TypeOK
  <1>3. ~(job[w].op > created)
    BY <1>1, <1>2
  <1> QED BY <1>1, <1>3 DEF WorkIsAccounted, OperationsAreAccounted

\* Every step keeps what a worker has read either current or recognisably old.
LEMMA SnapshotStep ==
    TypeOK /\ WorkIsAccounted /\ HistoryIsCurrent /\ SnapshotIsCurrent /\ [Next]_vars
        => SnapshotIsCurrent'
  <1> SUFFICES ASSUME TypeOK, WorkIsAccounted, HistoryIsCurrent, SnapshotIsCurrent,
                      [Next]_vars, NEW w \in Workers, pc'[w] \in ReadDesired
               PROVE  LET o == job'[w].op
                          c == ops'[o].camera
                          read == job'[w].desired
                      IN  /\ read.gen # 0
                          /\ read.gen = ops'[o].gen
                          /\ read.gen <= desired'[c].gen
                          /\ read.gen = desired'[c].gen => read = desired'[c]
                          /\ pc'[w] \in ReadCamera /\ read.gen = desired'[c].gen =>
                                job'[w].config = cam'[c].config
    BY DEF SnapshotIsCurrent, ReadCamera
  <1> DEFINE o == job[w].op
             c == ops[o].camera
  <1>1. /\ ReadsKept(w) /\ CatalogKept /\ OperationsKept
        /\ TypeOK'
    BY ReadStep, HistoryStep, OperationStep, TypeStep
  <1>2. CASE LoadDesired(w)
    <2>1. o \in OpIds /\ c \in Cameras /\ pc[w] = "load" /\ job[w] \in Job
      BY <1>2, JobOperation DEF LoadDesired, Claiming
    <2>2. /\ job'[w].op = o
          /\ job'[w].desired = desired[c]
          /\ desired[c].gen = ops[o].gen
          /\ pc'[w] = "camera"
          /\ ops' = ops /\ desired' = desired
      BY <1>2, <2>1 DEF LoadDesired, Goto, TypeOK, Job, ReadDesired, store, catalog
    <2>3. ops[o].gen # 0
      BY <2>1, LoadingPresent DEF Claiming
    <2>4. desired[c].gen \in Gens
      BY <2>1 DEF TypeOK, Desired
    <2> QED BY <2>2, <2>3, <2>4, StoreAssumption DEF ReadCamera, ReadDesired, Gens
  <1>3. CASE ~LoadDesired(w)
    <2>1. /\ pc[w] \in ReadDesired
          /\ job'[w].op = o
          /\ job'[w].desired = job[w].desired
          /\ pc'[w] \in ReadCamera =>
                \/ LoadCamera(w)
                \/ pc[w] \in ReadCamera /\ job'[w].config = job[w].config
      BY <1>1, <1>3 DEF ReadsKept
    <2>2. /\ o \in OpIds /\ o <= created /\ c \in Cameras /\ job[w] \in Job
      BY <2>1, JobOperation DEF ReadDesired, Claiming
    <2>3. ops'[o].camera = c /\ ops'[o].gen = ops[o].gen
      BY <1>1, <2>2 DEF OperationsKept
    <2>4. /\ desired[c].gen \in Nat /\ job[w].desired.gen \in Nat
      BY <2>2, StoreAssumption DEF TypeOK, Desired, Job, Gens
    <2>5. /\ job[w].desired.gen # 0
          /\ job[w].desired.gen = ops[o].gen
          /\ job[w].desired.gen <= desired[c].gen
          /\ job[w].desired.gen = desired[c].gen => job[w].desired = desired[c]
          /\ pc[w] \in ReadCamera /\ job[w].desired.gen = desired[c].gen =>
                job[w].config = cam[c].config
      BY <2>1 DEF SnapshotIsCurrent
    <2>6. \/ desired'[c] = desired[c] /\ cam'[c].config = cam[c].config
          \/ desired'[c].gen = desired[c].gen + 1
      BY <1>1, <2>2 DEF CatalogKept
    <2>7. LoadCamera(w) => job'[w].config = cam[c].config /\ cam' = cam
      BY <2>2 DEF LoadCamera, TypeOK, Job, catalog
    <2> HIDE DEF o, c
    <2>8. CASE desired'[c].gen = desired[c].gen + 1
      BY <2>8, <2>1, <2>3, <2>4, <2>5
    <2>9. CASE desired'[c] = desired[c] /\ cam'[c].config = cam[c].config
      BY <2>9, <2>1, <2>3, <2>5, <2>7
    <2> QED BY <2>6, <2>8, <2>9
  <1> QED BY <1>2, <1>3

\* At any time what a worker is about to apply or record is either that of the
\* current generation, desired row and camera row both, or of one that was
\* replaced in the meantime and will be recognised by its number.
THEOREM SnapshotsAreHonest == Spec => []IInv
  <1>1. Init => IInv
    <2>1. Init => HistoryIsCurrent /\ SnapshotIsCurrent
      BY DEF Init, HistoryIsCurrent, SnapshotIsCurrent, ReadDesired, ReadCamera, NoDesired
    <2> QED BY <2>1, InitType DEF IInv
  <1>2. IInv /\ [Next]_vars => IInv'
    BY TypeStep, OperationStep, WorkerStep, ObservationStep, HistoryStep, SnapshotStep
       DEF IInv, WorkIsAccounted
  <1> QED BY <1>1, <1>2, PTL DEF Spec

\* An inserted operation has no result.
LEMMA InsertedResult ==
    ASSUME TypeOK, NEW o \in OpIds, NEW c \in Cameras, NEW g \in Gens, Enqueue(c, g)
    PROVE  ops'[o].result \in {ops[o].result, "none"}
  BY NewOpType DEF Enqueue, TypeOK

\* Nothing but finish_success reports an operation converged.
LEMMA ConvergedBy ==
    ASSUME TypeOK, WorkIsAccounted, [Next]_vars, NEW o \in OpIds,
           ops[o].result = "none", ops'[o].result = "converged"
    PROVE  \E w \in Workers : FinishSuccess(w) /\ StillCurrent(w) /\ o = job[w].op
  <1> USE DEF store
  <1>0. ops \in [OpIds -> OpType] /\ OperationsAreAccounted
    BY DEF TypeOK, WorkIsAccounted
  <1>1. CASE ops' = ops
    BY <1>1
  <1>2. ASSUME NEW w \in Workers, BeginCycle(w) PROVE FALSE
    BY <1>0, <1>2, RecoveredType DEF BeginCycle
  <1>3. ASSUME NEW w \in Workers, NEW q \in OpIds, Claim(w, q) PROVE FALSE
    <2>1. ops[q].attempt < MaxAttempts
      BY <1>0, <1>3 DEF Claim, Claimable, OperationsAreAccounted
    <2>3. me[w] \in Owners
      BY <1>3 DEF Claim, TypeOK, WorkIsAccounted, WorkersAreAccounted
    <2>2. ops' = [ops EXCEPT ![q] = Claimed(ops[q], me[w])]
      BY <1>0, <1>3 DEF Claim
    <2> QED BY <1>0, <1>3, <2>1, <2>2, <2>3, ClaimedType
  <1>4. ASSUME NEW w \in Workers, FinishSuperseded(w) PROVE FALSE
    <2>1. /\ job[w].op \in OpIds
          /\ ops' = [ops EXCEPT ![job[w].op] = Succeed(ops[job[w].op], "superseded")]
          /\ "superseded" \in Results
      BY <1>0, <1>4, JobOperation DEF FinishSuperseded, CompleteSuperseded, Claiming, Results
    <2> QED BY <1>0, <1>4, <2>1, SucceedType
  <1>5. ASSUME NEW w \in Workers, FinishSuccess(w) 
        PROVE  StillCurrent(w) /\ o = job[w].op
    <2>1. job[w].op \in OpIds
      BY <1>0, <1>5, JobOperation DEF FinishSuccess, Claiming
    <2>2. /\ \A q \in OpIds : q # job[w].op => ops'[q] = ops[q]
          /\ ~StillCurrent(w) => ops'[job[w].op]
                = Succeed(ops[job[w].op], "superseded_after_apply")
      BY <1>0, <1>5, <2>1 DEF FinishSuccess, CompleteSuperseded
    <2>3. o = job[w].op
      BY <2>2
    <2>4. "superseded_after_apply" \in Results
      BY DEF Results
    <2> QED BY <1>0, <1>5, <2>1, <2>2, <2>3, <2>4, SucceedType
  <1>6. ASSUME NEW w \in Workers, FinishFailure(w) PROVE FALSE
    <2>1. /\ job[w].op \in OpIds
          /\ ops' = [ops EXCEPT ![job[w].op] = Failed(ops[job[w].op], job[w].outcome)]
      BY <1>0, <1>6, JobOperation DEF FinishFailure, Claiming
    <2>2. job[w].outcome \in Outcomes
      BY DEF TypeOK, Job
    <2> QED BY <1>0, <1>6, <2>1, <2>2, FailedType
  <1>7. ASSUME NEW w \in Workers, Abandon(w) PROVE FALSE
    <2>1. job[w].op \in OpIds /\ ops[job[w].op] \in OpType
      BY <1>0, <1>7, JobOperation DEF Abandon, Claiming
    <2>2. ops' = [ops EXCEPT ![job[w].op] = AbandonClaim(ops[job[w].op], me[w])]
      BY <1>0, <1>7 DEF Abandon
    <2> QED BY <1>0, <1>7, <2>1, <2>2, AbandonType
  <1>8. ASSUME NEW w \in Workers, EnqueueDrift(w) PROVE FALSE
    <2>1. obs[w].camera \in Cameras /\ obs[w].desired \in [Cameras -> Desired]
      BY DEF TypeOK, Observation
    <2>2. obs[w].desired[obs[w].camera].gen \in Gens
      BY <2>1 DEF Desired
    <2> QED BY <1>0, <1>8, <2>1, <2>2, InsertedResult DEF EnqueueDrift
  <1>9. ASSUME NEW w \in Workers, Start(w) PROVE FALSE
    BY <1>0, <1>9, RecoveredType DEF Start
  <1>10. ASSUME NEW c \in Cameras, NEW k \in Configs, CreateCamera(c, k) PROVE FALSE
    <2>1. desired[c].gen \in Gens
      BY DEF TypeOK, Desired
    <2>2. desired[c].gen + 1 \in Gens /\ Enqueue(c, desired[c].gen + 1)
      BY <1>0, <1>10, <2>1, StoreAssumption DEF CreateCamera, QueueCameraChange, Gens
    <2> QED BY <1>0, <1>10, <2>2, InsertedResult
  <1>11. ASSUME NEW c \in Cameras, NEW k \in Configs, UpdateCamera(c, k) PROVE FALSE
    <2>1. desired[c].gen \in Gens
      BY DEF TypeOK, Desired
    <2>2. desired[c].gen + 1 \in Gens /\ Enqueue(c, desired[c].gen + 1)
      BY <1>0, <1>11, <2>1, StoreAssumption DEF UpdateCamera, QueueCameraChange, Gens
    <2> QED BY <1>0, <1>11, <2>2, InsertedResult
  <1>12. ASSUME NEW c \in Cameras, DeleteCamera(c) PROVE FALSE
    <2>1. desired[c].gen \in Gens
      BY DEF TypeOK, Desired
    <2>2. desired[c].gen + 1 \in Gens /\ Enqueue(c, desired[c].gen + 1)
      BY <1>0, <1>12, <2>1, StoreAssumption DEF DeleteCamera, QueueCameraChange, Gens
    <2> QED BY <1>0, <1>12, <2>2, InsertedResult
  <1>13. ASSUME NEW q \in OpIds, NEW r \in Resolutions, ResolveOperation(q, r) PROVE FALSE
    <2>1. ops' = [ops EXCEPT ![q] = Resolved(ops[q], r)]
      BY <1>0, <1>13 DEF ResolveOperation, Resolvable
    <2> QED BY <1>0, <1>13, <2>1, ResolvedType
  <1>14. ASSUME NEW q \in OpIds, ClaimRunsOut(q) PROVE FALSE
    <2>1. ops'[o].result = ops[o].result
      BY <1>0, <1>14 DEF ClaimRunsOut, OpType
    <2> QED BY <1>0, <1>14, <2>1
  <1>15. ASSUME NEW q \in OpIds, RetryComesDue(q) PROVE FALSE
    <2>1. ops'[o].result = ops[o].result
      BY <1>0, <1>15 DEF RetryComesDue, OpType
    <2> QED BY <1>0, <1>15, <2>1
  <1> QED BY <1>1, <1>2, <1>3, <1>4, <1>5, <1>6, <1>7, <1>8, <1>9, <1>10, <1>11, <1>12, <1>13, <1>14, <1>15, OperationsTouched
          DEF TouchesOperations, Requests

\* finish_success records what the generation asked for.
LEMMA RecordedIsExpected ==
    ASSUME NEW d \in Desired, NEW k \in Configs, d.sub => k.sub # NoSource
    PROVE  \A p \in Profiles : Recorded(d, k)[p] = Expected(d, k)[p]
  BY DEF Recorded, Expected, ShouldExist, Profiles, Desired

\* What finish_success records of a generation that is still current.
LEMMA SuccessRecords ==
    ASSUME IInv, NEW w \in Workers, FinishSuccess(w), StillCurrent(w)
    PROVE  LET c == ops[job[w].op].camera
               g == desired[c].gen
           IN  /\ c \in Cameras
               /\ ops[job[w].op].gen = g
               /\ \A e \in Cameras, p \in Profiles :
                     actual'[e][p] = IF e = c THEN [content |-> committed[c][g][p], gen |-> g]
                                     ELSE actual[e][p]
  <1> DEFINE c == ops[job[w].op].camera
             d == job[w].desired
             k == job[w].config
  <1>1. /\ pc[w] = "success" /\ c \in Cameras /\ d \in Desired /\ k \in Configs
        /\ desired[c].gen = d.gen
    BY JobOperation DEF IInv, FinishSuccess, Claiming, Job, StillCurrent
  <1>2. /\ d.gen # 0 /\ d.gen = ops[job[w].op].gen
        /\ d = desired[c] /\ k = cam[c].config
    BY <1>1 DEF IInv, SnapshotIsCurrent, ReadDesired, ReadCamera
  <1>3. /\ committed[c][desired[c].gen] = Expected(desired[c], cam[c].config)
        /\ desired[c].sub => cam[c].config.sub # NoSource
    BY <1>1, <1>2 DEF IInv, HistoryIsCurrent
  <1>4. \A p \in Profiles : Recorded(d, k)[p] = committed[c][desired[c].gen][p]
    <2>1. d.sub => k.sub # NoSource
      BY <1>2, <1>3
    <2>2. \A p \in Profiles : Recorded(d, k)[p] = Expected(d, k)[p]
      BY <1>1, <2>1, RecordedIsExpected
    <2>3. committed[c][desired[c].gen] = Expected(d, k)
      BY <1>2, <1>3
    <2> QED BY <2>2, <2>3
  <1>5. actual' = [actual EXCEPT ![c] =
                     [p \in Profiles |-> [content |-> Recorded(d, k)[p], gen |-> d.gen]]]
    BY DEF FinishSuccess
  <1>6. \A e \in Cameras, p \in Profiles :
           actual'[e][p] = IF e = c THEN [content |-> Recorded(d, k)[p], gen |-> d.gen]
                           ELSE actual[e][p]
    BY <1>1, <1>5 DEF IInv, TypeOK
  <1> HIDE DEF d, k, c
  <1>7. \A e \in Cameras, p \in Profiles :
           actual'[e][p] = IF e = c THEN [content |-> committed[c][desired[c].gen][p],
                                          gen |-> desired[c].gen]
                           ELSE actual[e][p]
    BY <1>1, <1>4, <1>6
  <1> QED BY <1>1, <1>2, <1>7 DEF c

\* Reported converged means: of the generation that is current at that moment, and
\* with exactly what the request that committed it asked for on record, although
\* the desired row, the camera row and the completion are apart in time and
\* requests commit new generations in between.
THEOREM ConvergenceIsHonest == Spec => ConvergedMeansCommitted
  <1>1. ASSUME IInv, [Next]_vars, NEW o \in OpIds,
               ops[o].result = "none", ops'[o].result = "converged"
        PROVE  /\ ops[o].gen = desired[ops[o].camera].gen
               /\ \A p \in Profiles :
                     actual'[ops[o].camera][p] =
                       [content |-> committed[ops[o].camera][ops[o].gen][p],
                        gen |-> ops[o].gen]
    <2>1. PICK w \in Workers : FinishSuccess(w) /\ StillCurrent(w) /\ o = job[w].op
      BY <1>1, ConvergedBy DEF IInv
    <2> DEFINE c == ops[o].camera
               g == desired[c].gen
    <2>2. /\ c \in Cameras /\ ops[o].gen = g
          /\ \A e \in Cameras, p \in Profiles :
                actual'[e][p] = IF e = c THEN [content |-> committed[c][g][p], gen |-> g]
                                ELSE actual[e][p]
      BY <1>1, <2>1, SuccessRecords
    <2> QED BY <2>2
  <1>2. IInv /\ [Next]_vars =>
          [\A o \in OpIds :
             /\ ops[o].result = "none"
             /\ ops'[o].result = "converged"
             => /\ ops[o].gen = desired[ops[o].camera].gen
                /\ \A p \in Profiles :
                      actual'[ops[o].camera][p] =
                        [content |-> committed[ops[o].camera][ops[o].gen][p],
                         gen |-> ops[o].gen]]_vars
    BY <1>1
  <1> QED BY <1>2, SnapshotsAreHonest, PTL DEF Spec, ConvergedMeansCommitted
=============================================================================
