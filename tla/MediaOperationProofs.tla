-------------------------- MODULE MediaOperationProofs --------------------------
(***************************************************************************)
(* The operations of the store.  What owning a claim and a lease           *)
(* guarantees: a request whose effect on MediaMTX is still open never      *)
(* belongs to an operation that is reported as settled or offered for a    *)
(* retry, and passes exclude each other.  MediaReconciliation implements   *)
(* OperationLifecycle: every transaction of the reconciler, of the         *)
(* requests and of the administrator takes each operation along the life   *)
(* its submitter was promised, or leaves it.  And what a camera shows of   *)
(* it: an error is one of its current generation.                          *)
(***************************************************************************)
EXTENDS MediaObservationProofs

-----------------------------------------------------------------------------
(* Steps by what they do to claims.                                        *)

\* An open operation stays open, and none becomes running or changes its owner.
RowsStayOpen ==
    \A o \in OpIds :
        /\ ops[o].state \in OpenStates => ops'[o].state \in OpenStates
        /\ ops'[o].state = "running" =>
              ops[o].state = "running" /\ ops'[o].owner = ops[o].owner

\* No worker takes up an operation, or takes up again one it has failed.
WorkersGoOn ==
    /\ me' = me
    /\ \A v \in Workers :
          /\ job'[v].op = job[v].op
          /\ pc'[v] \in Holding => pc[v] \in Holding
          /\ pc'[v] \in Applying => pc[v] \in Applying
          /\ pc[v] = "failure" /\ pc'[v] \in Applying =>
                pc'[v] = "failure" /\ job'[v].outcome = job[v].outcome

\* Steps that neither take up nor complete an operation and leave no request behind.
LEMMA GoingOn ==
    ASSUME TypeOK, WorkIsAccounted, EffectIInv, RowsStayOpen, WorkersGoOn,
           orphans' \subseteq orphans
    PROVE  (ClaimsAreHeld /\ EffectsAreGivenUp /\ OpenEffectIsNeverReported)'
  <1>1. \A r \in orphans : r.op \in OpIds
    BY DEF TypeOK, Request
  <1>2. \A w \in Workers : pc[w] \in Holding => job[w].op \in OpIds
    BY JobOperation DEF Holding
  <1>3. Applying \subseteq Holding
    BY DEF Applying
  <1>4. ClaimsAreHeld'
    BY <1>2 DEF EffectIInv, ClaimsAreHeld, InPass, RowsStayOpen, WorkersGoOn
  <1>5. EffectsAreGivenUp'
    BY <1>1 DEF EffectIInv, EffectsAreGivenUp, RowsStayOpen, WorkersGoOn
  <1>6. OpenEffectIsNeverReported'
    BY <1>1 DEF EffectIInv, OpenEffectIsNeverReported, RowsStayOpen
  <1> QED BY <1>4, <1>5, <1>6

\* A completion: both leases make the worker the only one that holds the operation,
\* and none of the requests left behind is of it unless it becomes unknown.
LEMMA Completing ==
    ASSUME TypeOK, WorkIsAccounted, EffectIInv, NEW w \in Workers,
           pc[w] \in {"supersede", "success", "failure"}, Fenced(w),
           pc' = [pc EXCEPT ![w] = "releaseMore"],
           me' = me, job' = job, orphans' = orphans,
           NEW x, ops' = [ops EXCEPT ![job[w].op] = x], x.state # "running",
           pc[w] = "failure" /\ job[w].outcome = "unknown" => x.state = "unknown"
    PROVE  (ClaimsAreHeld /\ EffectsAreGivenUp /\ OpenEffectIsNeverReported)'
  <1> DEFINE o == job[w].op
  <1>0. /\ o \in OpIds /\ pc[w] \in Applying /\ "releaseMore" \notin Holding
        /\ Applying \subseteq Holding /\ me[w] # NoOwner
    BY JobOperation DEF Applying, Holding, Claiming, WorkIsAccounted, WorkersAreAccounted
  <1>1. ops[o].state = "running" /\ ops[o].owner = me[w]
    BY DEF Fenced, OwnedBy
  <1>2. \A q \in OpIds : ops'[q] = IF q = o THEN x ELSE ops[q]
    BY DEF TypeOK
  <1>3. \A v \in Workers : pc'[v] = IF v = w THEN "releaseMore" ELSE pc[v]
    BY DEF TypeOK
  <1>4. ASSUME NEW v \in Workers, pc[v] \in Holding, job[v].op = o PROVE v = w
    BY <1>0, <1>1, <1>4 DEF EffectIInv, ClaimsAreHeld, InPass
  <1>5. ASSUME NEW r \in orphans, r.op = o PROVE x.state = "unknown"
    BY <1>0, <1>1, <1>5 DEF EffectIInv, EffectsAreGivenUp
  <1>6. /\ \A r \in orphans : r.op \in OpIds
        /\ \A v \in Workers : pc[v] \in Holding => job[v].op \in OpIds
    BY JobOperation DEF Holding, TypeOK, Request
  <1> HIDE DEF o
  <1>7. ClaimsAreHeld'
    BY <1>0, <1>2, <1>3, <1>4, <1>6 DEF EffectIInv, ClaimsAreHeld, InPass
  <1>8. EffectsAreGivenUp'
    BY <1>0, <1>2, <1>3, <1>4, <1>6 DEF EffectIInv, EffectsAreGivenUp
  <1>9. OpenEffectIsNeverReported'
    BY <1>2, <1>5, <1>6 DEF EffectIInv, OpenEffectIsNeverReported, OpenStates
  <1> QED BY <1>7, <1>8, <1>9

\* A request left behind belongs to an operation that its worker gives up, or that
\* has been taken from it.
LEMMA LeavingBehind ==
    ASSUME TypeOK, WorkIsAccounted, EffectIInv, NEW w \in Workers,
           orphans' = Orphaned(w), ops' = ops,
           \A v \in Workers : v # w => /\ pc'[v] = pc[v] /\ job'[v] = job[v]
                                       /\ me'[v] = me[v],
           \/ pc'[w] = "down" /\ me'[w] = NoOwner
           \/ /\ pc'[w] = "failure" /\ pc[w] \in {"mainWait", "subWait"}
              /\ job'[w].op = job[w].op /\ job'[w].outcome = "unknown" /\ me'[w] = me[w]
    PROVE  (ClaimsAreHeld /\ EffectsAreGivenUp /\ OpenEffectIsNeverReported)'
  <1>0. /\ {"mainWait", "subWait", "failure"} \subseteq Applying
        /\ "down" \notin Holding /\ Applying \subseteq Holding
    BY DEF Applying, Holding, Claiming
  <1>1. ClaimsAreHeld'
    <2>1. \A v \in Workers : InPass(v)' => InPass(v) /\ me'[v] = me[v]
      BY DEF InPass
    <2>2. \A v \in Workers : pc'[v] \in Holding =>
             /\ pc[v] \in Holding /\ job'[v].op = job[v].op /\ me'[v] = me[v]
      BY <1>0
    <2> QED BY <2>1, <2>2 DEF EffectIInv, ClaimsAreHeld, InPass
  <1>2. ASSUME NEW r \in orphans'
        PROVE  r \in orphans \/ (r.op = job[w].op /\ pc[w] \in {"mainWait", "subWait"})
    BY <1>2 DEF Orphaned, WorkIsAccounted, WorkersAreAccounted
  <1>3. pc[w] \in {"mainWait", "subWait"} =>
           /\ ops[job[w].op].state \in OpenStates
           /\ me[w] # NoOwner
           /\ \A v \in Workers : /\ v # w /\ pc[v] \in Applying /\ job[v].op = job[w].op
                                 => ops[job[w].op].state # "running"
    BY <1>0 DEF EffectIInv, ClaimsAreHeld, InPass, WorkIsAccounted, WorkersAreAccounted
  <1>4. EffectsAreGivenUp'
    <2> SUFFICES ASSUME NEW r \in orphans', NEW v \in Workers, ops[r.op].state = "running",
                        job'[v].op = r.op, pc'[v] \in Applying
                 PROVE  pc'[v] = "failure" /\ job'[v].outcome = "unknown"
      BY DEF EffectsAreGivenUp
    <2>1. CASE v = w
      BY <1>0, <2>1
    <2>2. CASE v # w
      BY <1>2, <1>3, <2>2 DEF EffectIInv, EffectsAreGivenUp
    <2> QED BY <2>1, <2>2
  <1>5. OpenEffectIsNeverReported'
    BY <1>2, <1>3 DEF EffectIInv, OpenEffectIsNeverReported
  <1> QED BY <1>1, <1>4, <1>5

-----------------------------------------------------------------------------
(* One case for each action.                                               *)

EffectParts == ClaimsAreHeld /\ EffectsAreGivenUp /\ OpenEffectIsNeverReported

\* Every step keeps the claims held and the effects given up.
LEMMA EffectStep == EffectIInv /\ [Next]_vars => EffectParts'
  <1> SUFFICES ASSUME EffectIInv, [Next]_vars PROVE EffectParts'
    OBVIOUS
  <1> USE DEF store, mediaSide, Goto
  <1>0. /\ TypeOK /\ WorkIsAccounted /\ ops \in [OpIds -> OpType]
        /\ pc \in [Workers -> Locations] /\ job \in [Workers -> Job]
        /\ me \in [Workers -> Owners \cup {NoOwner}]
    BY DEF EffectIInv, TypeOK
  <1> DEFINE quiet == /\ RowsStayOpen /\ WorkersGoOn /\ orphans' \subseteq orphans
  <1>q. quiet => EffectParts'
    BY <1>0, GoingOn DEF EffectParts
  <1>u. ops' = ops => RowsStayOpen
    BY DEF RowsStayOpen
  <1>i. ASSUME NEW c, NEW g, Enqueue(c, g) PROVE RowsStayOpen
    <2>1. ops[created + 1].state = "absent" \/ created + 1 \notin OpIds
      BY <1>0, StoreAssumption DEF TypeOK, WorkIsAccounted, OperationsAreAccounted, OpIds
    <2>2. NewOp(c, g).state = "pending"
      BY DEF NewOp, NoOp
    <2>3. \A q \in OpIds : ops'[q] = IF q = created + 1 THEN NewOp(c, g) ELSE ops[q]
      BY <1>0, <1>i DEF Enqueue
    <2> QED BY <2>1, <2>2, <2>3 DEF RowsStayOpen, OpenStates
  <1>1. ASSUME NEW w \in Workers, BeginCycle(w) PROVE EffectParts'
    <2>1. RowsStayOpen
      BY <1>0, <1>1, RecoveredType DEF BeginCycle, RowsStayOpen, OpenStates
    <2>2. WorkersGoOn /\ orphans' = orphans
      BY <1>0, <1>1 DEF BeginCycle, WorkersGoOn, Holding, Applying, Claiming
    <2> QED BY <1>q, <2>1, <2>2
  <1>2. ASSUME NEW w \in Workers, Acquire(w) PROVE EffectParts'
    <2>1. PICK owner \in Owners \ UsedOwners : me' = [me EXCEPT ![w] = owner]
      BY <1>2 DEF Acquire
    <2>2. /\ \A v \in Workers : me'[v] = IF v = w THEN owner ELSE me[v]
          /\ \A v \in Workers : me[v] # owner
      BY <1>0, <2>1 DEF UsedOwners
    <2>3. \A v \in Workers : /\ job'[v] = job[v]
                             /\ pc'[v] = IF v = w THEN "renew" ELSE pc[v]
      BY <1>0, <1>2 DEF Acquire
    <2>4. "renew" \notin Holding /\ Applying \subseteq Holding
      BY DEF Applying, Holding, Claiming
    <2>5. ops' = ops /\ orphans' = orphans
      BY <1>2 DEF Acquire
    <2>6. ClaimsAreHeld'
      BY <2>2, <2>3, <2>4, <2>5 DEF EffectIInv, ClaimsAreHeld, InPass
    <2>7. EffectsAreGivenUp' /\ OpenEffectIsNeverReported'
      BY <2>3, <2>4, <2>5 DEF EffectIInv, EffectsAreGivenUp, OpenEffectIsNeverReported
    <2> QED BY <2>6, <2>7 DEF EffectParts
  <1>3. ASSUME NEW w \in Workers, LeaseBusy(w) PROVE EffectParts'
    <2>1. WorkersGoOn
      BY <1>0, <1>3 DEF LeaseBusy, WorkersGoOn, Holding, Applying, Claiming, Job
    <2> QED BY <1>q, <1>u, <2>1, <1>3 DEF LeaseBusy
  <1>4. ASSUME NEW w \in Workers, RenewGlobal(w) PROVE EffectParts'
    <2>1. WorkersGoOn
      BY <1>0, <1>4 DEF RenewGlobal, WorkersGoOn, Holding, Applying, Claiming, Job
    <2> QED BY <1>q, <1>u, <2>1, <1>4 DEF RenewGlobal
  <1>5. ASSUME NEW w \in Workers, NEW o \in OpIds, Claim(w, o) PROVE EffectParts'
    <2>1. /\ ops[o] \in OpType /\ ops[o].state = "pending"
          /\ \A q \in OpIds : ops'[q] = IF q = o THEN Claimed(ops[o], me[w]) ELSE ops[q]
          /\ me' = me /\ orphans' = orphans
      BY <1>0, <1>5 DEF Claim, Claimable
    <2>2. /\ Claimed(ops[o], me[w]).state = "running"
          /\ Claimed(ops[o], me[w]).owner = me[w]
      BY <2>1 DEF Claimed, OpType
    <2>3. \A v \in Workers : /\ job'[v].op = IF v = w THEN o ELSE job[v].op
                             /\ job'[v].outcome = job[v].outcome
                             /\ pc'[v] = IF v = w THEN "check" ELSE pc[v]
      BY <1>0, <1>5 DEF Claim, Job
    <2>4. /\ \A v \in Workers : pc[v] \in Holding => job[v].op \in OpIds /\ job[v].op # o
          /\ \A r \in orphans : r.op \in OpIds /\ r.op # o
      BY <1>0, <2>1, JobOperation DEF Holding, TypeOK, Request, EffectIInv, ClaimsAreHeld,
         OpenEffectIsNeverReported, OpenStates
    <2>5. Applying \subseteq Holding /\ "running" \in OpenStates
      BY DEF Applying, OpenStates
    <2>6. ClaimsAreHeld'
      BY <2>1, <2>2, <2>3, <2>4, <2>5 DEF EffectIInv, ClaimsAreHeld, InPass
    <2>7. EffectsAreGivenUp' /\ OpenEffectIsNeverReported'
      BY <2>1, <2>3, <2>4, <2>5 DEF EffectIInv, EffectsAreGivenUp, OpenEffectIsNeverReported
    <2> QED BY <2>6, <2>7 DEF EffectParts
  <1>6. ASSUME NEW w \in Workers, ClaimNothing(w) PROVE EffectParts'
    <2>1. WorkersGoOn
      BY <1>0, <1>6 DEF ClaimNothing, WorkersGoOn, Holding, Applying, Claiming, Job
    <2> QED BY <1>q, <1>u, <2>1, <1>6 DEF ClaimNothing
  <1>7. ASSUME NEW w \in Workers, ClaimLost(w) PROVE EffectParts'
    <2>1. WorkersGoOn
      BY <1>0, <1>7 DEF ClaimLost, WorkersGoOn, Holding, Applying, Claiming, Job
    <2> QED BY <1>q, <1>u, <2>1, <1>7 DEF ClaimLost
  <1>8. ASSUME NEW w \in Workers, CheckClaim(w) PROVE EffectParts'
    <2>1. WorkersGoOn
      BY <1>0, <1>8 DEF CheckClaim, WorkersGoOn, Holding, Applying, Claiming, Job
    <2> QED BY <1>q, <1>u, <2>1, <1>8 DEF CheckClaim
  <1>9. ASSUME NEW w \in Workers, RenewClaim(w) PROVE EffectParts'
    <2>1. WorkersGoOn
      BY <1>0, <1>9 DEF RenewClaim, WorkersGoOn, Holding, Applying, Claiming, Job
    <2> QED BY <1>q, <1>u, <2>1, <1>9 DEF RenewClaim
  <1>10. ASSUME NEW w \in Workers, VerifyClaim(w) PROVE EffectParts'
    <2>1. WorkersGoOn
      BY <1>0, <1>10 DEF VerifyClaim, WorkersGoOn, Holding, Applying, Claiming, Job
    <2> QED BY <1>q, <1>u, <2>1, <1>10 DEF VerifyClaim
  <1>11. ASSUME NEW w \in Workers, LoadDesired(w) PROVE EffectParts'
    <2>1. WorkersGoOn
      BY <1>0, <1>11 DEF LoadDesired, WorkersGoOn, Holding, Applying, Claiming, Job
    <2> QED BY <1>q, <1>u, <2>1, <1>11 DEF LoadDesired
  <1>12. ASSUME NEW w \in Workers, LoadCamera(w) PROVE EffectParts'
    <2>1. WorkersGoOn
      BY <1>0, <1>12 DEF LoadCamera, WorkersGoOn, Holding, Applying, Claiming, Job
    <2> QED BY <1>q, <1>u, <2>1, <1>12 DEF LoadCamera
  <1>13. ASSUME NEW w \in Workers, SendRequest(w) PROVE EffectParts'
    <2>1. WorkersGoOn
      BY <1>0, <1>13 DEF SendRequest, WorkersGoOn, Holding, Applying, Claiming, Job
    <2> QED BY <1>q, <1>u, <2>1, <1>13 DEF SendRequest
  <1>14. ASSUME NEW w \in Workers, ReceiveAnswer(w) PROVE EffectParts'
    <2>1. WorkersGoOn
      BY <1>0, <1>14 DEF ReceiveAnswer, WorkersGoOn, Holding, Applying, Claiming, Job
    <2> QED BY <1>q, <1>u, <2>1, <1>14 DEF ReceiveAnswer
  <1>15. ASSUME NEW w \in Workers, FinishSuperseded(w) PROVE EffectParts'
    <2>1. job[w].op \in OpIds /\ ops[job[w].op] \in OpType
      BY <1>0, <1>15, JobOperation DEF FinishSuperseded, Claiming
    <2>2. Succeed(ops[job[w].op], "superseded").state # "running"
      BY <2>1, SucceedType DEF Results
    <2>3. /\ pc[w] = "supersede" /\ Fenced(w)
          /\ pc' = [pc EXCEPT ![w] = "releaseMore"]
          /\ me' = me /\ job' = job /\ orphans' = orphans
          /\ ops' = [ops EXCEPT ![job[w].op] = Succeed(ops[job[w].op], "superseded")]
      BY <1>15 DEF FinishSuperseded, CompleteSuperseded
    <2> QED BY <1>0, <2>2, <2>3, Completing DEF EffectParts
  <1>16. ASSUME NEW w \in Workers, FinishSuccess(w) PROVE EffectParts'
    <2>1. job[w].op \in OpIds /\ ops[job[w].op] \in OpType
      BY <1>0, <1>16, JobOperation DEF FinishSuccess, Claiming
    <2>2. PICK result \in {"superseded_after_apply", "converged"} :
             ops' = [ops EXCEPT ![job[w].op] = Succeed(ops[job[w].op], result)]
      BY <1>16 DEF FinishSuccess, CompleteSuperseded
    <2>3. Succeed(ops[job[w].op], result).state # "running"
      BY <2>1, SucceedType DEF Results
    <2>4. /\ pc[w] = "success" /\ Fenced(w)
          /\ pc' = [pc EXCEPT ![w] = "releaseMore"]
          /\ me' = me /\ job' = job /\ orphans' = orphans
      BY <1>16 DEF FinishSuccess
    <2> QED BY <1>0, <2>2, <2>3, <2>4, Completing DEF EffectParts
  <1>17. ASSUME NEW w \in Workers, FinishFailure(w) PROVE EffectParts'
    <2>1. /\ job[w].op \in OpIds /\ ops[job[w].op] \in OpType /\ job[w].outcome \in Outcomes
      BY <1>0, <1>17, JobOperation DEF FinishFailure, Claiming, Job
    <2>2. Failed(ops[job[w].op], job[w].outcome).state # "running"
      BY <2>1, FailedType
    <2>4. job[w].outcome = "unknown" =>
             Failed(ops[job[w].op], job[w].outcome).state = "unknown"
      BY <2>1, UnleasedType DEF Failed, MarkIndeterminate, OpStates
    <2>3. /\ pc[w] = "failure" /\ Fenced(w)
          /\ pc' = [pc EXCEPT ![w] = "releaseMore"]
          /\ me' = me /\ job' = job /\ orphans' = orphans
          /\ ops' = [ops EXCEPT ![job[w].op] = Failed(ops[job[w].op], job[w].outcome)]
      BY <1>17 DEF FinishFailure
    <2> QED BY <1>0, <2>2, <2>3, <2>4, Completing DEF EffectParts
  <1>18. ASSUME NEW w \in Workers, FinishRefused(w) PROVE EffectParts'
    <2>1. WorkersGoOn
      BY <1>0, <1>18 DEF FinishRefused, WorkersGoOn, Holding, Applying, Claiming, Job
    <2> QED BY <1>q, <1>u, <2>1, <1>18 DEF FinishRefused
  <1>19. ASSUME NEW w \in Workers, Abandon(w) PROVE EffectParts'
    <2>1. \A q \in OpIds : ops'[q] = IF q = job[w].op THEN AbandonClaim(ops[q], me[w]) ELSE ops[q]
      BY <1>0, <1>19 DEF Abandon
    <2>2. RowsStayOpen
      BY <1>0, <2>1, AbandonType DEF RowsStayOpen, OpenStates
    <2>3. WorkersGoOn /\ orphans' = orphans
      BY <1>0, <1>19 DEF Abandon, WorkersGoOn, Holding, Applying, Claiming
    <2> QED BY <1>q, <2>2, <2>3
  <1>20. ASSUME NEW w \in Workers, Release(w) PROVE EffectParts'
    <2>1. \A v \in Workers : /\ v # w => me'[v] = me[v] /\ job'[v] = job[v] /\ pc'[v] = pc[v]
                             /\ v = w => me'[v] = NoOwner /\ pc'[v] \in {"idle", "acquire"}
      BY <1>0, <1>20 DEF Release
    <2>2. {"idle", "acquire"} \cap Holding = {} /\ Applying \subseteq Holding
      BY DEF Applying, Holding, Claiming
    <2>3. ops' = ops /\ orphans' = orphans
      BY <1>20 DEF Release
    <2>4. ClaimsAreHeld'
      BY <2>1, <2>2, <2>3 DEF EffectIInv, ClaimsAreHeld, InPass
    <2>5. EffectsAreGivenUp' /\ OpenEffectIsNeverReported'
      BY <2>1, <2>2, <2>3 DEF EffectIInv, EffectsAreGivenUp, OpenEffectIsNeverReported
    <2> QED BY <2>4, <2>5 DEF EffectParts
  <1>21. ASSUME NEW w \in Workers, StartObservation(w) PROVE EffectParts'
    <2>1. WorkersGoOn
      BY <1>0, <1>21 DEF StartObservation, WorkersGoOn, Holding, Applying, Claiming, Job
    <2> QED BY <1>q, <1>u, <2>1, <1>21 DEF StartObservation
  <1>22. ASSUME NEW w \in Workers, Observe(w) PROVE EffectParts'
    <2>1. WorkersGoOn
      BY <1>0, <1>22 DEF Observe, WorkersGoOn, Holding, Applying, Claiming, Job
    <2> QED BY <1>q, <1>u, <2>1, <1>22 DEF Observe
  <1>23. ASSUME NEW w \in Workers, LoadDesiredStates(w) PROVE EffectParts'
    <2>1. WorkersGoOn
      BY <1>0, <1>23 DEF LoadDesiredStates, WorkersGoOn, Holding, Applying, Claiming, Job
    <2> QED BY <1>q, <1>u, <2>1, <1>23 DEF LoadDesiredStates
  <1>24. ASSUME NEW w \in Workers, ObservationDone(w) PROVE EffectParts'
    <2>1. WorkersGoOn
      BY <1>0, <1>24 DEF ObservationDone, WorkersGoOn, Holding, Applying, Claiming, Job
    <2> QED BY <1>q, <1>u, <2>1, <1>24 DEF ObservationDone
  <1>25. ASSUME NEW w \in Workers, PersistObserved(w) PROVE EffectParts'
    <2>1. WorkersGoOn
      BY <1>0, <1>25 DEF PersistObserved, WorkersGoOn, Holding, Applying, Claiming, Job
    <2> QED BY <1>q, <1>u, <2>1, <1>25 DEF PersistObserved
  <1>26. ASSUME NEW w \in Workers, CheckDrift(w) PROVE EffectParts'
    <2>1. WorkersGoOn
      BY <1>0, <1>26 DEF CheckDrift, WorkersGoOn, Holding, Applying, Claiming, Job
    <2> QED BY <1>q, <1>u, <2>1, <1>26 DEF CheckDrift
  <1>27. ASSUME NEW w \in Workers, EnqueueDrift(w) PROVE EffectParts'
    <2>1. \E c, g : Enqueue(c, g)
      BY <1>27 DEF EnqueueDrift
    <2>2. WorkersGoOn /\ orphans' = orphans
      BY <1>0, <1>27 DEF EnqueueDrift, WorkersGoOn, Holding, Applying, Claiming
    <2> QED BY <1>q, <1>i, <2>1, <2>2
  <1>28. ASSUME NEW w \in Workers, Start(w) PROVE EffectParts'
    <2>1. RowsStayOpen
      BY <1>0, <1>28, RecoveredType DEF Start, RowsStayOpen, OpenStates
    <2>2. WorkersGoOn /\ orphans' = orphans
      BY <1>0, <1>28 DEF Start, WorkersGoOn, Holding, Applying, Claiming
    <2> QED BY <1>q, <2>1, <2>2
  <1>29. ASSUME NEW w \in Workers, Crash(w) PROVE EffectParts'
    <2>1. /\ ops' = ops /\ orphans' = Orphaned(w)
          /\ pc'[w] = "down" /\ me'[w] = NoOwner
          /\ \A v \in Workers : v # w => /\ pc'[v] = pc[v] /\ job'[v] = job[v]
                                         /\ me'[v] = me[v]
      BY <1>0, <1>29 DEF Crash
    <2> QED BY <1>0, <2>1, LeavingBehind DEF EffectParts
  <1>30. ASSUME NEW w \in Workers, RequestTimesOut(w) PROVE EffectParts'
    <2>1. /\ ops' = ops /\ orphans' = Orphaned(w) /\ me' = me
          /\ pc'[w] = "failure" /\ pc[w] \in {"mainWait", "subWait"}
          /\ \A v \in Workers : v # w => pc'[v] = pc[v] /\ job'[v] = job[v]
      BY <1>0, <1>30 DEF RequestTimesOut
    <2>2. job'[w].op = job[w].op /\ job'[w].outcome = "unknown"
      BY <1>0, <1>30 DEF RequestTimesOut, Job
    <2> QED BY <1>0, <2>1, <2>2, LeavingBehind DEF EffectParts
  <1>31. ASSUME NEW w \in Workers, ObserveFails(w) PROVE EffectParts'
    <2>1. WorkersGoOn
      BY <1>0, <1>31 DEF ObserveFails, WorkersGoOn, Holding, Applying, Claiming, Job
    <2> QED BY <1>q, <1>u, <2>1, <1>31 DEF ObserveFails
  <1>32. ASSUME NEW w \in Workers, MediaExecutes(w) PROVE EffectParts'
    <2>1. WorkersGoOn
      BY <1>0, <1>32 DEF MediaExecutes, WorkersGoOn, Holding, Applying, Claiming, Job
    <2> QED BY <1>q, <1>u, <2>1, <1>32 DEF MediaExecutes
  <1>33. ASSUME NEW w \in Workers, MediaRefuses(w) PROVE EffectParts'
    <2>1. WorkersGoOn
      BY <1>0, <1>33 DEF MediaRefuses, WorkersGoOn, Holding, Applying, Claiming, Job
    <2> QED BY <1>q, <1>u, <2>1, <1>33 DEF MediaRefuses
  <1>34. ASSUME NEW w \in Workers, NEW c \in Cameras, CompareCamera(w, c) PROVE EffectParts'
    <2>1. WorkersGoOn
      BY <1>0, <1>34 DEF CompareCamera, WorkersGoOn, Holding, Applying, Claiming
    <2> QED BY <1>q, <1>u, <2>1, <1>34 DEF CompareCamera
  <1>35. CASE Requests
    <2>1. WorkersGoOn /\ orphans' = orphans
      BY <1>35 DEF Requests, CreateCamera, UpdateCamera, DeleteCamera, ResolveOperation, WorkersGoOn
    <2>2. ASSUME NEW o \in OpIds, NEW r \in Resolutions, ResolveOperation(o, r)
          PROVE  RowsStayOpen
      <3>1. /\ ops[o].state # "running"
            /\ \A q \in OpIds : ops'[q] = IF q = o THEN Resolved(ops[o], r) ELSE ops[q]
        BY <1>0, <2>2 DEF ResolveOperation, Resolvable
      <3> QED BY <1>0, <3>1, ResolvedType DEF RowsStayOpen, OpenStates
    <2>3. ASSUME NEW c, NEW k, NEW present, QueueCameraChange(c, k, present)
          PROVE  RowsStayOpen
      BY <1>i, <2>3 DEF QueueCameraChange
    <2>4. RowsStayOpen
      BY <1>35, <2>2, <2>3 DEF Requests, CreateCamera, UpdateCamera, DeleteCamera
    <2> QED BY <1>q, <2>1, <2>4
  <1>36. CASE LeaseRunsOut
    BY <1>q, <1>u, <1>36 DEF LeaseRunsOut, WorkersGoOn
  <1>37. CASE MediaRestarts
    BY <1>q, <1>u, <1>37 DEF MediaRestarts, WorkersGoOn
  <1>38. ASSUME NEW r \in orphans, MediaExecutesLate(r) PROVE EffectParts'
    BY <1>q, <1>u, <1>38 DEF MediaExecutesLate, WorkersGoOn
  <1>39. ASSUME NEW o \in OpIds, ClaimRunsOut(o) \/ RetryComesDue(o) PROVE EffectParts'
    <2>1. RowsStayOpen
      BY <1>0, <1>39 DEF ClaimRunsOut, RetryComesDue, RowsStayOpen, OpType
    <2> QED BY <1>q, <2>1, <1>39 DEF ClaimRunsOut, RetryComesDue, WorkersGoOn
  <1>40. CASE UNCHANGED vars
    BY <1>q, <1>u, <1>40 DEF vars, WorkersGoOn
  <1> QED BY <1>1, <1>2, <1>3, <1>4, <1>5, <1>6, <1>7, <1>8, <1>9, <1>10,
             <1>11, <1>12, <1>13, <1>14, <1>15, <1>16, <1>17, <1>18, <1>19,
             <1>20, <1>21, <1>22, <1>23, <1>24, <1>25, <1>26, <1>27, <1>28,
             <1>29, <1>30, <1>31, <1>32, <1>33, <1>34, <1>35, <1>36, <1>37,
             <1>38, <1>39, <1>40
          DEF Next, Step, Media, Time, Trouble

\* After a lost answer, a crash, a lease that ran out or a claim that was given up,
\* with any number of servers: as long as MediaMTX may still execute a request, its
\* operation waits for a decision (sanitized_failure, abandon_claimed_operation,
\* recover_interrupted_operations) or is about to be handed over to one.
THEOREM EffectsStayOpen == Spec => []EffectIInv
  <1>1. Init => EffectIInv
    BY InitType DEF Init, EffectIInv, ClaimsAreHeld, EffectsAreGivenUp,
       OpenEffectIsNeverReported, InPass, Holding, Claiming
  <1>2. EffectIInv /\ [Next]_vars => EffectIInv'
    BY EffectStep, TypeStep, OperationStep, WorkerStep, ObservationStep
       DEF EffectIInv, EffectParts, WorkIsAccounted
  <1> QED BY <1>1, <1>2, PTL DEF Spec

\* In particular it is never reported as settled, nor offered for a retry.
THEOREM NoOpenEffectIsReported == Spec => []OpenEffectIsNeverReported
  <1>1. EffectIInv => OpenEffectIsNeverReported
    BY DEF EffectIInv
  <1> QED BY <1>1, EffectsStayOpen, PTL

-----------------------------------------------------------------------------
(* Passes exclude each other as long as no lease runs out under a worker   *)
(* that is still alive: an owner is one worker, and a worker in a pass     *)
(* owns the lease.                                                         *)

\* A worker in a pass holds the global lease, until a lease runs out under a worker.
PassHoldsLease == stalls = 0 => \A w \in Workers : InPass(w) => HoldsLease(w)

\* The lease and its owners change only when it is acquired, released or runs out,
\* and when a worker dies.
LEMMA LeaseStep ==
    ASSUME TypeOK, [Next]_vars
    PROVE  /\ stalls' = 0 => stalls = 0
           /\ \/ lease' = lease /\ me' = me
              \/ \E w \in Workers : Acquire(w) \/ Release(w) \/ Crash(w)
              \/ LeaseRunsOut
  <1> USE DEF bounds
  <1>0. stalls \in Nat
    BY ModelAssumption DEF TypeOK
  <1>1. ASSUME NEW w \in Workers, Start(w) \/ Step(w)
        PROVE  /\ stalls' = stalls
               /\ \/ lease' = lease /\ me' = me
                  \/ Acquire(w) \/ Release(w)
    BY <1>1 DEF Start, Step, BeginCycle, Acquire, LeaseBusy, RenewGlobal, Claim,
       ClaimNothing, ClaimLost, CheckClaim, RenewClaim, VerifyClaim,
       LoadDesired, LoadCamera, SendRequest, ReceiveAnswer, FinishSuperseded,
       FinishSuccess, FinishFailure, FinishRefused, Abandon, Release,
       StartObservation, Observe, LoadDesiredStates, ObservationDone, CompareCamera,
       PersistObserved, CheckDrift, EnqueueDrift
  <1>2. ASSUME Requests \/ Media PROVE stalls' = stalls /\ lease' = lease /\ me' = me
    BY <1>2 DEF Requests, CreateCamera, UpdateCamera, DeleteCamera, ResolveOperation,
       Media, MediaExecutes, MediaRefuses, MediaExecutesLate, MediaRestarts
  <1>3. ASSUME Trouble
        PROVE  /\ stalls' = stalls
               /\ \/ lease' = lease /\ me' = me
                  \/ \E w \in Workers : Crash(w)
    BY <1>3 DEF Trouble, Crash, RequestTimesOut, ObserveFails
  <1>4. ASSUME Time
        PROVE  /\ stalls' \in {stalls, stalls + 1}
               /\ \/ lease' = lease /\ me' = me
                  \/ LeaseRunsOut
    BY <1>4 DEF Time, LeaseRunsOut, ClaimRunsOut, RetryComesDue, RunsOut
  <1>5. CASE UNCHANGED vars
    BY <1>5 DEF vars
  <1> QED BY <1>0, <1>1, <1>2, <1>3, <1>4, <1>5 DEF Next

\* Every step keeps it.
LEMMA PassStep ==
    ASSUME TypeOK, WorkIsAccounted, ClaimsAreHeld, PassHoldsLease, [Next]_vars
    PROVE  PassHoldsLease'
  <1> SUFFICES ASSUME stalls' = 0, NEW w \in Workers, me'[w] # NoOwner
               PROVE  lease'.owner = me'[w] /\ lease'.live
    BY DEF PassHoldsLease, InPass, HoldsLease
  <1>0. /\ stalls = 0 /\ stalls \in Nat
        /\ me \in [Workers -> Owners \cup {NoOwner}]
        /\ \A v \in Workers : me[v] # NoOwner => lease.owner = me[v] /\ lease.live
    BY LeaseStep, ModelAssumption DEF TypeOK, PassHoldsLease, InPass, HoldsLease
  <1>1. CASE lease' = lease /\ me' = me
    BY <1>0, <1>1
  <1>2. ASSUME NEW v \in Workers, Acquire(v) PROVE lease'.owner = me'[w] /\ lease'.live
    <2>1. PICK owner : lease' = [owner |-> owner, live |-> TRUE] /\ me' = [me EXCEPT ![v] = owner]
      BY <1>2 DEF Acquire
    <2>2. me[w] = NoOwner
      BY <1>0, <1>2 DEF Acquire, MayAcquire
    <2> QED BY <1>0, <2>1, <2>2
  <1>3. ASSUME NEW v \in Workers, Release(v) PROVE lease'.owner = me'[w] /\ lease'.live
    <2>1. /\ me' = [me EXCEPT ![v] = NoOwner]
          /\ lease' = IF lease.owner = me[v] THEN FreeLease ELSE lease
          /\ me[v] # NoOwner
      BY <1>3 DEF Release, WorkIsAccounted, WorkersAreAccounted
    <2>2. w # v /\ me'[w] = me[w]
      BY <1>0, <2>1
    <2>3. lease.owner # me[v]
      BY <1>0, <2>1, <2>2 DEF ClaimsAreHeld, InPass
    <2> QED BY <1>0, <2>1, <2>2, <2>3
  <1>4. ASSUME NEW v \in Workers, Crash(v) PROVE lease'.owner = me'[w] /\ lease'.live
    BY <1>0, <1>4 DEF Crash
  <1>5. CASE LeaseRunsOut
    <2>1. me' = me /\ stalls' = stalls
      BY <1>0, <1>5 DEF LeaseRunsOut, RunsOut
    <2>2. ~Attended(lease.owner)
      BY <1>0, <1>5, <2>1 DEF LeaseRunsOut, RunsOut
    <2> QED BY <1>0, <2>1, <2>2 DEF Attended
  <1> QED BY <1>1, <1>2, <1>3, <1>4, <1>5, LeaseStep

\* With any number of servers on one database, at most one is between acquiring and
\* releasing the global lease (acquire_reconciler_lease, release_reconciler_lease).
THEOREM PassesExclude == Spec => []ExclusivePass
  <1>1. Init => PassHoldsLease
    BY DEF Init, PassHoldsLease, InPass
  <1>2. EffectIInv /\ PassHoldsLease /\ [Next]_vars => PassHoldsLease'
    BY PassStep DEF EffectIInv
  <1>3. EffectIInv /\ PassHoldsLease => ExclusivePass
    BY DEF EffectIInv, PassHoldsLease, ClaimsAreHeld, ExclusivePass, InPass, HoldsLease
  <1> QED BY <1>1, <1>2, <1>3, EffectsStayOpen, PTL DEF Spec

-----------------------------------------------------------------------------
(* From rows of the store to lives of operations.                          *)

Life(rows) == [o \in OpIds |-> [target |-> rows[o].camera, state |-> rows[o].state,
                                attempt |-> rows[o].attempt]]

LifeSteps == Lifecycle!Next \/ Life(ops)' = Life(ops)

\* A row that differs from the old one in its state only.
Becomes(o, state) == /\ ops'[o].camera = ops[o].camera
                     /\ ops'[o].state = state
                     /\ ops'[o].attempt = ops[o].attempt

\* A step that changes the camera, the state and the attempt of no operation.
LEMMA LifeStutters ==
    ASSUME \A o \in OpIds : Becomes(o, ops[o].state)
    PROVE  Life(ops)' = Life(ops)
  BY DEF Becomes, Life

\* A step that changes the state of one operation.
LEMMA LifeBecomes ==
    ASSUME NEW o \in OpIds, NEW state, Becomes(o, state),
           \A q \in OpIds : q # o => ops'[q] = ops[q]
    PROVE  Lifecycle!Become(o, state)
  BY DEF Becomes, Lifecycle!Become

\* Steps that lose the outcome of running operations, none or more of them.
LEMMA LifeLoses ==
    ASSUME \A o \in OpIds : \/ ops'[o] = ops[o]
                            \/ ops[o].state = "running" /\ Becomes(o, "unknown")
    PROVE  LifeSteps
  <1> DEFINE lost == {o \in OpIds : ops[o].state = "running" /\ ops'[o].state = "unknown"}
  <1>1. CASE lost = {}
    <2>1. \A o \in OpIds : Becomes(o, ops[o].state)
      BY <1>1 DEF Becomes
    <2> QED BY <2>1, LifeStutters DEF LifeSteps
  <1>2. CASE lost # {}
    <2>1. lost \in SUBSET {o \in OpIds : Life(ops)[o].state = "running"}
      BY DEF Life
    <2>2. Life(ops)' = [o \in OpIds |-> IF o \in lost
                           THEN [Life(ops)[o] EXCEPT !.state = "unknown"] ELSE Life(ops)[o]]
      BY DEF Life, Becomes
    <2> HIDE DEF lost
    <2>3. Lifecycle!Lose
      BY <1>2, <2>1, <2>2 DEF Lifecycle!Lose, Life
    <2> QED BY <2>3 DEF LifeSteps, Lifecycle!Next
  <1> QED BY <1>1, <1>2

\* Inserting an operation submits it.
LEMMA LifeSubmits ==
    ASSUME TypeOK, WorkIsAccounted, NEW c \in Cameras, NEW g \in Gens, Enqueue(c, g)
    PROVE  LifeSteps
  <1>0. PICK new \in OpIds : new = created + 1
    BY EnqueueType
  <1>1. ops' = [ops EXCEPT ![new] = NewOp(c, g)]
    BY <1>0, EnqueueType
  <1>2. ops[new].state = "absent"
    BY <1>0, StoreAssumption DEF TypeOK, WorkIsAccounted, OperationsAreAccounted, OpIds
  <1>3. /\ NewOp(c, g).camera = c /\ NewOp(c, g).state = "pending"
        /\ NewOp(c, g).attempt = 0
    BY NewOpType DEF NewOp, NoOp
  <1>4. \A q \in OpIds : ops'[q] = IF q = new THEN NewOp(c, g) ELSE ops[q]
    BY <1>1 DEF TypeOK
  <1>5. Life(ops)' = [Life(ops) EXCEPT
                        ![new] = [target |-> c, state |-> "pending", attempt |-> 0]]
    BY <1>3, <1>4 DEF Life
  <1>6. Lifecycle!Submit(new)
    BY <1>2, <1>5 DEF Lifecycle!Submit, Life
  <1> QED BY <1>6 DEF LifeSteps, Lifecycle!Next

\* Claiming an operation attempts it once more.
LEMMA LifeAttempts ==
    ASSUME TypeOK, WorkIsAccounted, NEW w \in Workers, NEW o \in OpIds, Claim(w, o)
    PROVE  LifeSteps
  <1>1. /\ ops[o] \in OpType /\ ops[o].state = "pending" /\ ops[o].attempt < MaxAttempts
        /\ ~Occupied(ops, ops[o].camera)
    BY DEF Claim, Claimable, TypeOK, WorkIsAccounted, OperationsAreAccounted
  <1>2. /\ Claimed(ops[o], me[w]).camera = ops[o].camera
        /\ Claimed(ops[o], me[w]).state = "running"
        /\ Claimed(ops[o], me[w]).attempt = ops[o].attempt + 1
    BY <1>1 DEF Claimed, OpType
  <1>3. \A q \in OpIds : ops'[q] = IF q = o THEN Claimed(ops[o], me[w]) ELSE ops[q]
    BY DEF Claim, TypeOK
  <1>4. ~Lifecycle!Closed(ops[o].camera)
    BY <1>1 DEF Occupied, Active, Lifecycle!Closed
  <1>5. Lifecycle!Attempt(o)
    BY <1>1, <1>2, <1>3, <1>4 DEF Lifecycle!Attempt
  <1> QED BY <1>5 DEF LifeSteps, Lifecycle!Next

\* Leaving "running" changes neither the camera nor the attempt of an operation.
LEMMA LifeUnleased ==
    ASSUME NEW op \in OpType, NEW state \in OpStates
    PROVE  /\ Unleased(op, state).camera = op.camera
           /\ Unleased(op, state).state = state
           /\ Unleased(op, state).attempt = op.attempt
  BY UnleasedType

\* A completion settles the operation, or loses the outcome of its attempt.
LEMMA LifeSettles ==
    ASSUME TypeOK, NEW o \in OpIds, NEW x, ops[o].state = "running",
           ops' = [ops EXCEPT ![o] = x],
           x.camera = ops[o].camera, x.attempt = ops[o].attempt,
           \/ x.state \in {"succeeded", "unknown"}
           \/ x.state = "pending" /\ ops[o].attempt < MaxAttempts
           \/ x.state = "dead_letter" /\ ops[o].attempt = MaxAttempts
    PROVE  LifeSteps
  <1>1. \A q \in OpIds : ops'[q] = IF q = o THEN x ELSE ops[q]
    BY DEF TypeOK
  <1>2. Becomes(o, x.state)
    BY <1>1 DEF Becomes
  <1>3. CASE x.state = "unknown"
    BY <1>1, <1>2, <1>3, LifeLoses
  <1>4. CASE x.state # "unknown"
    <2>1. Lifecycle!Become(o, x.state)
      BY <1>1, <1>2, LifeBecomes
    <2>2. Lifecycle!Settle(o)
      BY <1>4, <2>1 DEF Lifecycle!Settle
    <2> QED BY <2>2 DEF LifeSteps, Lifecycle!Next
  <1> QED BY <1>3, <1>4
-----------------------------------------------------------------------------
(* The refinement.                                                         *)

\* Every step takes each operation along its promised life, or leaves it.
LEMMA LifeStep == TypeOK /\ WorkIsAccounted /\ [Next]_vars => LifeSteps
  <1> SUFFICES ASSUME TypeOK, WorkIsAccounted, [Next]_vars PROVE LifeSteps
    OBVIOUS
  <1>0. ops \in [OpIds -> OpType]
    BY DEF TypeOK
  <1>1. CASE ops' = ops
    BY <1>1, LifeLoses
  <1>2. ASSUME NEW w \in Workers, Start(w) \/ BeginCycle(w) PROVE LifeSteps
    <2>1. ASSUME NEW o \in OpIds
          PROVE  \/ ops'[o] = ops[o]
                 \/ ops[o].state = "running" /\ Becomes(o, "unknown")
      BY <1>0, <1>2, LifeUnleased
         DEF Start, BeginCycle, RecoverRunning, RecoverExpired, Becomes, OpStates
    <2> QED BY <2>1, LifeLoses
  <1>3. ASSUME NEW w \in Workers, Abandon(w) PROVE LifeSteps
    <2>1. job[w].op \in OpIds
      BY <1>3, JobOperation DEF Abandon, Claiming
    <2>2. \A o \in OpIds : ops'[o] = IF o = job[w].op
                                     THEN AbandonClaim(ops[o], me[w]) ELSE ops[o]
      BY <1>0, <1>3 DEF Abandon
    <2>3. \A o \in OpIds : \/ ops'[o] = ops[o]
                           \/ ops[o].state = "running" /\ Becomes(o, "unknown")
      BY <1>0, <2>1, <2>2, LifeUnleased DEF AbandonClaim, Becomes, OpStates
    <2> QED BY <2>3, LifeLoses
  <1>4. ASSUME NEW w \in Workers, EnqueueDrift(w) PROVE LifeSteps
    <2>1. obs[w] \in Observation
      BY DEF TypeOK
    <2>2. obs[w].camera \in Cameras /\ obs[w].desired[obs[w].camera] \in Desired
      BY <2>1 DEF Observation
    <2>3. obs[w].desired[obs[w].camera].gen \in Gens
      BY <2>2 DEF Desired
    <2> QED BY <1>4, <2>2, <2>3, LifeSubmits DEF EnqueueDrift
  <1>5. ASSUME NEW w \in Workers, NEW o \in OpIds, Claim(w, o) PROVE LifeSteps
    BY <1>5, LifeAttempts
  <1>6. ASSUME NEW w \in Workers, FinishSuperseded(w) \/ FinishSuccess(w) PROVE LifeSteps
    <2>1. /\ job[w].op \in OpIds /\ ops[job[w].op] \in OpType
          /\ ops[job[w].op].state = "running"
      BY <1>6, JobOperation DEF FinishSuperseded, FinishSuccess, Claiming, Fenced, OwnedBy
    <2>2. PICK result \in Results :
             ops' = [ops EXCEPT ![job[w].op] = Succeed(ops[job[w].op], result)]
      BY <1>6 DEF FinishSuperseded, FinishSuccess, CompleteSuperseded, Results
    <2>3. LET x == Succeed(ops[job[w].op], result)
          IN  /\ x.camera = ops[job[w].op].camera
              /\ x.attempt = ops[job[w].op].attempt
              /\ x.state = "succeeded"
      BY <2>1, LifeUnleased DEF Succeed, Unleased, OpStates, OpType
    <2> QED BY <2>1, <2>2, <2>3, LifeSettles
  <1>7. ASSUME NEW w \in Workers, FinishFailure(w) PROVE LifeSteps
    <2> DEFINE op == ops[job[w].op]
               x == Failed(op, job[w].outcome)
    <2>1. job[w].op \in OpIds /\ op \in OpType /\ op.state = "running"
      BY <1>7, JobOperation DEF FinishFailure, Claiming, Fenced, OwnedBy
    <2>2. ops' = [ops EXCEPT ![job[w].op] = x]
      BY <1>7 DEF FinishFailure
    <2>3. \/ x = Unleased(op, "unknown")
          \/ x = Unleased(op, "pending") /\ op.attempt < MaxAttempts
          \/ x = Unleased(op, "dead_letter") /\ op.attempt = MaxAttempts
      BY <2>1, StoreAssumption DEF Failed, MarkIndeterminate, Fail, OpType
    <2>4. {"unknown", "pending", "dead_letter"} \subseteq OpStates
      BY DEF OpStates
    <2> HIDE DEF op, x
    <2>5. /\ x.camera = op.camera /\ x.attempt = op.attempt
          /\ \/ x.state = "unknown"
             \/ x.state = "pending" /\ op.attempt < MaxAttempts
             \/ x.state = "dead_letter" /\ op.attempt = MaxAttempts
      BY <2>1, <2>3, <2>4, LifeUnleased
    <2> QED BY <2>1, <2>2, <2>5, LifeSettles DEF op
  <1>8. ASSUME NEW c \in Cameras, NEW k, NEW present, QueueCameraChange(c, k, present)
        PROVE  LifeSteps
    <2>1. desired[c].gen \in Gens
      BY DEF TypeOK, Desired
    <2>2. desired[c].gen + 1 \in Gens /\ Enqueue(c, desired[c].gen + 1)
      BY <1>8, <2>1, StoreAssumption DEF QueueCameraChange, Gens
    <2> QED BY <2>2, LifeSubmits
  <1>9. ASSUME NEW o \in OpIds, NEW r \in Resolutions, ResolveOperation(o, r) PROVE LifeSteps
    <2>1. \A q \in OpIds : ops'[q] = IF q = o THEN Resolved(ops[o], r) ELSE ops[q]
      BY <1>0, <1>9 DEF ResolveOperation
    <2>2. /\ Resolved(ops[o], r).camera = ops[o].camera
          /\ Resolved(ops[o], r).attempt = ops[o].attempt
          /\ Resolved(ops[o], r).state = IF r = "confirmed" THEN "resolved" ELSE "dead_letter"
      BY <1>0 DEF Resolved, OpType
    <2>3. Lifecycle!Become(o, IF r = "confirmed" THEN "resolved" ELSE "dead_letter")
      BY <2>1, <2>2, LifeBecomes DEF Becomes
    <2>4. Resolvable(ops[o], r)
      BY <1>9 DEF ResolveOperation
    <2>5. Lifecycle!Decide(o)
      BY <2>3, <2>4 DEF Lifecycle!Decide, Resolvable
    <2> QED BY <2>5 DEF LifeSteps, Lifecycle!Next
  <1>10. ASSUME NEW o \in OpIds, ClaimRunsOut(o) \/ RetryComesDue(o) PROVE LifeSteps
    <2>1. \A q \in OpIds : Becomes(q, ops[q].state)
      BY <1>0, <1>10 DEF ClaimRunsOut, RetryComesDue, Becomes, OpType
    <2> QED BY <2>1, LifeStutters DEF LifeSteps
  <1>11. CASE Requests
    BY <1>8, <1>9, <1>11 DEF Requests, CreateCamera, UpdateCamera, DeleteCamera
  <1> QED BY <1>1, <1>2, <1>3, <1>4, <1>5, <1>6, <1>7, <1>10, <1>11, OperationsTouched
          DEF TouchesOperations

\* Whatever the workers, the requests, the faults and the lease expiries: an
\* operation is attempted at most max_attempts times and one at a time for a
\* camera; an attempt whose outcome is unknown is never picked up again; and what
\* is settled stays settled.
THEOREM ImplementsLifecycle == Spec => LifecycleSpec
  <1>1. Init => Lifecycle!Init
    BY DEF Init, Lifecycle!Init, NoOp
  <1>2. TypeOK /\ WorkIsAccounted /\ [Next]_vars =>
          [Lifecycle!Next]_([o \in OpIds |-> [target |-> ops[o].camera,
                                              state |-> ops[o].state,
                                              attempt |-> ops[o].attempt]])
    BY LifeStep DEF LifeSteps, Life
  <1> QED BY <1>1, <1>2, TypeCorrect, PTL DEF Spec, LifecycleSpec, Lifecycle!Spec

-----------------------------------------------------------------------------
(* The errors that cameras show.                                           *)

\* Operations and desired states are those of cameras that exist, and an operation
\* has been attempted if it is running, and not if it is not there.
RowsBelong ==
    /\ \A c \in Cameras : desired[c].gen # 0 => cam[c].state # "none"
    /\ \A o \in OpIds :
          /\ ops[o].state # "absent" => cam[ops[o].camera].state # "none"
          /\ ops[o].state = "running" => ops[o].attempt > 0
          /\ ops[o].state = "absent" => ops[o].attempt = 0

\* A camera that does not exist yet shows no error.
ErrorsAreShown == \A c \in Cameras : cam[c].state = "none" => status[c] # "error"

ErrorIInv ==
    ObservationIInv /\ RowsBelong /\ ErrorsAreShown /\ ErrorIsOfCurrentGeneration

\* Along its life an operation is attempted more and more.
LEMMA AttemptStep ==
    ASSUME ErrorIInv, [Next]_vars, NEW o \in OpIds
    PROVE  /\ ops[o].state # "absent" => ops'[o].attempt >= ops[o].attempt
           /\ ops'[o].state = "running" => ops'[o].attempt > 0
           /\ ops'[o].state = "absent" => ops'[o].attempt = 0
  <1>1. LifeSteps
    BY LifeStep DEF ErrorIInv, ObservationIInv, IInv
  <1>2. /\ ops[o].attempt \in Nat
        /\ ops[o].state = "running" => ops[o].attempt > 0
        /\ ops[o].state = "absent" => ops[o].attempt = 0
    BY StoreAssumption DEF ErrorIInv, RowsBelong, ObservationIInv, IInv, TypeOK, OpType
  <1>3. \/ ops'[o].state = ops[o].state /\ ops'[o].attempt = ops[o].attempt
        \/ /\ ops[o].state # "absent" /\ ops'[o].state \notin {"absent", "running"}
           /\ ops'[o].attempt = ops[o].attempt
        \/ /\ ops[o].state # "absent" /\ ops'[o].state = "running"
           /\ ops'[o].attempt = ops[o].attempt + 1
        \/ ops[o].state = "absent" /\ ops'[o].state = "pending"
    <2> DEFINE now == Life(ops)
               then == Life(ops)'
    <2>0. /\ now[o].state = ops[o].state /\ now[o].attempt = ops[o].attempt
          /\ then[o].state = ops'[o].state /\ then[o].attempt = ops'[o].attempt
          /\ now = [q \in OpIds |-> now[q]] /\ then = [q \in OpIds |-> then[q]]
      BY DEF Life
    <2>1. CASE Life(ops)' = Life(ops)
      BY <2>1 DEF Life
    <2>2. CASE Lifecycle!Lose
      <3>1. PICK lost \in SUBSET {q \in OpIds : now[q].state = "running"} :
               then = [q \in OpIds |-> IF q \in lost
                          THEN [now[q] EXCEPT !.state = "unknown"] ELSE now[q]]
        BY <2>2 DEF Lifecycle!Lose, Life
      <3>2. then[o] = IF o \in lost THEN [now[o] EXCEPT !.state = "unknown"] ELSE now[o]
        BY <3>1 DEF Life
      <3>3. \/ then[o] = now[o]
            \/ /\ now[o].state = "running" /\ then[o].state = "unknown"
               /\ then[o].attempt = now[o].attempt
        BY <3>1, <3>2 DEF Life
      <3> HIDE DEF now, then
      <3> QED BY <2>0, <3>3
    <2>3. ASSUME NEW q \in OpIds, Lifecycle!Submit(q)
          PROVE  \/ ops'[o].state = ops[o].state /\ ops'[o].attempt = ops[o].attempt
                 \/ ops[o].state = "absent" /\ ops'[o].state = "pending"
      <3>1. /\ now[q].state = "absent"
            /\ \E t : then = [now EXCEPT ![q] = [target |-> t, state |-> "pending",
                                                 attempt |-> 0]]
        BY <2>3 DEF Lifecycle!Submit, Life
      <3> HIDE DEF now, then
      <3> QED BY <2>0, <3>1
    <2>4. ASSUME NEW q \in OpIds, Lifecycle!Attempt(q)
          PROVE  \/ ops'[o].state = ops[o].state /\ ops'[o].attempt = ops[o].attempt
                 \/ /\ ops[o].state # "absent" /\ ops'[o].state = "running"
                    /\ ops'[o].attempt = ops[o].attempt + 1
      <3>1. /\ now[q].state = "pending"
            /\ then = [now EXCEPT ![q].state = "running", ![q].attempt = @ + 1]
        BY <2>4 DEF Lifecycle!Attempt, Life
      <3>2. now[q] = [target |-> ops[q].camera, state |-> ops[q].state,
                      attempt |-> ops[q].attempt]
        BY DEF Life
      <3>3. then[q] = [now[q] EXCEPT !.state = "running", !.attempt = @ + 1]
        BY <2>0, <3>1
      <3>4. /\ then[q].state = "running" /\ then[q].attempt = now[q].attempt + 1
            /\ q # o => then[o] = now[o]
        BY <2>0, <3>1, <3>2, <3>3
      <3>5. CASE q = o
        <4>1. now[o].state = "pending" /\ then[o].state = "running"
                /\ then[o].attempt = now[o].attempt + 1
          BY <3>1, <3>4, <3>5
        <4> HIDE DEF now, then
        <4> QED BY <2>0, <4>1
      <3>6. CASE q # o
        <4> HIDE DEF now, then
        <4> QED BY <2>0, <3>4, <3>6
      <3> QED BY <3>5, <3>6
    <2>5. ASSUME NEW q \in OpIds, Lifecycle!Settle(q) \/ Lifecycle!Decide(q)
          PROVE  \/ ops'[o].state = ops[o].state /\ ops'[o].attempt = ops[o].attempt
                 \/ /\ ops[o].state # "absent" /\ ops'[o].state \notin {"absent", "running"}
                    /\ ops'[o].attempt = ops[o].attempt
      <3>1. /\ now[q].state # "absent"
            /\ \E state : /\ state \notin {"absent", "running"}
                          /\ then = [now EXCEPT ![q].state = state]
        BY <2>5 DEF Lifecycle!Settle, Lifecycle!Decide, Lifecycle!Become, Life
      <3>2. \E state : /\ state \notin {"absent", "running"}
                       /\ then[q].state = state /\ then[q].attempt = now[q].attempt
                       /\ q # o => then[o] = now[o]
        BY <3>1 DEF Life
      <3> HIDE DEF now, then
      <3> QED BY <2>0, <3>1, <3>2
    <2> QED BY <1>1, <2>1, <2>2, <2>3, <2>4, <2>5 DEF LifeSteps, Lifecycle!Next
  <1> QED BY <1>2, <1>3

\* Cameras come into being with their first desired state, and are never removed;
\* the other steps leave them, and all but completions leave their status.
LEMMA CameraStep ==
    ASSUME TypeOK, [Next]_vars, NEW c \in Cameras
    PROVE  \/ /\ cam'[c] = cam[c] /\ desired'[c] = desired[c]
              /\ \/ status'[c] = status[c]
                 \/ \E w \in Workers : FinishSuccess(w) /\ status'[c] # "error"
                 \/ \E w \in Workers : /\ FinishFailure(w) /\ c = ops[job[w].op].camera
                                       /\ ShowsError(ops[job[w].op])
           \/ /\ cam'[c].state # "none"
              /\ cam'[c].state = "live" /\ status'[c] = "error" =>
                    cam[c].state = "none" /\ status'[c] = status[c]
  <1> USE DEF catalog
  <1>0. /\ cam \in [Cameras -> [state : {"none", "live", "deleted"}, config : Configs]]
        /\ desired \in [Cameras -> Desired]
        /\ status \in [Cameras -> {"pending", "disabled", "error"}]
    BY DEF TypeOK
  <1>1. CASE UNCHANGED <<cam, desired, status>>
    BY <1>1
  <1>2. ASSUME NEW e \in Cameras, NEW k \in Configs, CreateCamera(e, k) PROVE
           \/ cam'[c] = cam[c] /\ desired'[c] = desired[c] /\ status'[c] = status[c]
           \/ cam'[c].state # "none" /\ cam[c].state = "none" /\ status'[c] = status[c]
    BY <1>0, <1>2 DEF CreateCamera, QueueCameraChange
  <1>3. ASSUME NEW e \in Cameras, NEW k \in Configs, UpdateCamera(e, k) PROVE
           \/ cam'[c] = cam[c] /\ desired'[c] = desired[c] /\ status'[c] = status[c]
           \/ cam'[c].state # "none" /\ status'[c] # "error"
    BY <1>0, <1>3 DEF UpdateCamera, QueueCameraChange
  <1>4. ASSUME NEW e \in Cameras, DeleteCamera(e) PROVE
           \/ cam'[c] = cam[c] /\ desired'[c] = desired[c] /\ status'[c] = status[c]
           \/ cam'[c].state = "deleted"
    BY <1>0, <1>4 DEF DeleteCamera, QueueCameraChange
  <1>5. ASSUME NEW w \in Workers, FinishSuccess(w)
        PROVE  cam' = cam /\ desired' = desired /\ status'[c] \in {status[c], "pending", "disabled"}
    BY <1>0, <1>5 DEF FinishSuccess, CompleteSuperseded
  <1>6. ASSUME NEW w \in Workers, FinishFailure(w)
        PROVE  /\ cam' = cam /\ desired' = desired
               /\ \/ status'[c] = status[c]
                  \/ c = ops[job[w].op].camera /\ ShowsError(ops[job[w].op])
    BY <1>0, <1>6 DEF FinishFailure
  <1>7. ASSUME NEW w \in Workers, Start(w) \/ Step(w), ~FinishSuccess(w), ~FinishFailure(w)
        PROVE  UNCHANGED <<cam, desired, status>>
    BY <1>7 DEF Start, Step, BeginCycle, Acquire, LeaseBusy, RenewGlobal, Claim,
       ClaimNothing, ClaimLost, CheckClaim, RenewClaim, VerifyClaim,
       LoadDesired, LoadCamera, SendRequest, ReceiveAnswer, FinishSuperseded,
       CompleteSuperseded, FinishRefused, Abandon, Release,
       StartObservation, Observe, LoadDesiredStates, ObservationDone, CompareCamera,
       PersistObserved, CheckDrift, EnqueueDrift
  <1>8. ASSUME Media \/ Time \/ Trouble PROVE UNCHANGED <<cam, desired, status>>
    BY <1>8 DEF Media, Time, Trouble, MediaExecutes, MediaRefuses, MediaExecutesLate,
       MediaRestarts, LeaseRunsOut, ClaimRunsOut, RetryComesDue, Crash, RequestTimesOut,
       ObserveFails
  <1>9. ASSUME NEW o \in OpIds, NEW r \in Resolutions, ResolveOperation(o, r)
        PROVE  UNCHANGED <<cam, desired, status>>
    BY <1>9 DEF ResolveOperation
  <1> QED BY <1>1, <1>2, <1>3, <1>4, <1>5, <1>6, <1>7, <1>8, <1>9
          DEF Next, Requests, vars

\* An inserted operation is that of a request, or of a camera that has been observed.
LEMMA InsertedBy ==
    ASSUME TypeOK, WorkIsAccounted, [Next]_vars, NEW o \in OpIds,
           ops[o].state = "absent", ops'[o].state # "absent"
    PROVE  \/ \E w \in Workers : EnqueueDrift(w) /\ ops'[o].camera = obs[w].camera
           \/ \E c \in Cameras : /\ ops'[o].camera = c
                                 /\ desired'[c].gen # 0 /\ cam'[c].state # "none"
  <1> USE DEF store
  <1>0. ops \in [OpIds -> OpType] /\ OperationsAreAccounted
    BY DEF TypeOK, WorkIsAccounted
  <1>1. CASE ops' = ops
    BY <1>1
  <1>2. ASSUME NEW w \in Workers, Start(w) \/ BeginCycle(w) PROVE FALSE
    BY <1>0, <1>2, RecoveredType DEF Start, BeginCycle
  <1>3. ASSUME NEW w \in Workers, NEW q \in OpIds, Claim(w, q) PROVE FALSE
    BY <1>0, <1>3 DEF Claim, Claimable
  <1>4. ASSUME NEW w \in Workers, FinishSuperseded(w) \/ FinishSuccess(w) \/ FinishFailure(w)
        PROVE  FALSE
    <2>1. ops[job[w].op].state = "running"
      BY <1>4 DEF FinishSuperseded, FinishSuccess, FinishFailure, Fenced, OwnedBy
    <2>2. \A q \in OpIds : q # job[w].op => ops'[q] = ops[q]
      BY <1>0, <1>4 DEF FinishSuperseded, FinishSuccess, FinishFailure, CompleteSuperseded
    <2> QED BY <2>1, <2>2
  <1>5. ASSUME NEW w \in Workers, Abandon(w) PROVE FALSE
    <2>1. ops'[o] = ops[o] \/ ops'[o] = AbandonClaim(ops[o], me[w])
      BY <1>0, <1>5 DEF Abandon
    <2> QED BY <1>0, <2>1, AbandonType
  <1>6. ASSUME NEW c, NEW g, Enqueue(c, g) PROVE ops'[o].camera = c
    <2>1. o = created + 1 /\ ops'[o] = NewOp(c, g)
      BY <1>0, <1>6 DEF Enqueue
    <2> QED BY <2>1 DEF NewOp, NoOp
  <1>7. ASSUME NEW w \in Workers, EnqueueDrift(w) PROVE ops'[o].camera = obs[w].camera
    BY <1>6, <1>7 DEF EnqueueDrift
  <1>8. ASSUME NEW c \in Cameras, NEW k, NEW present, QueueCameraChange(c, k, present)
        PROVE  ops'[o].camera = c /\ desired'[c].gen # 0
    <2>1. desired[c].gen \in Nat
      BY StoreAssumption DEF TypeOK, Desired, Gens
    <2>2. desired'[c].gen = desired[c].gen + 1 /\ Enqueue(c, desired[c].gen + 1)
      BY <1>8 DEF QueueCameraChange, TypeOK
    <2> QED BY <1>6, <2>1, <2>2
  <1>9. ASSUME NEW c \in Cameras, NEW k \in Configs, CreateCamera(c, k) \/ UpdateCamera(c, k)
        PROVE  ops'[o].camera = c /\ desired'[c].gen # 0 /\ cam'[c].state # "none"
    BY <1>8, <1>9 DEF CreateCamera, UpdateCamera, TypeOK
  <1>10. ASSUME NEW c \in Cameras, DeleteCamera(c)
         PROVE  ops'[o].camera = c /\ desired'[c].gen # 0 /\ cam'[c].state # "none"
    BY <1>8, <1>10 DEF DeleteCamera, TypeOK
  <1>11. ASSUME NEW q \in OpIds, NEW r \in Resolutions, ResolveOperation(q, r) PROVE FALSE
    BY <1>0, <1>11 DEF ResolveOperation, Resolvable
  <1>12. ASSUME NEW q \in OpIds, ClaimRunsOut(q) \/ RetryComesDue(q) PROVE FALSE
    BY <1>0, <1>12 DEF ClaimRunsOut, RetryComesDue, OpType
  <1> QED BY <1>1, <1>2, <1>3, <1>4, <1>5, <1>7, <1>9, <1>10, <1>11, <1>12, OperationsTouched
          DEF TouchesOperations, Requests

\* Every step keeps operations with cameras that exist.
LEMMA BelongStep == ErrorIInv /\ [Next]_vars => RowsBelong' /\ ErrorsAreShown'
  <1> SUFFICES ASSUME ErrorIInv, [Next]_vars PROVE RowsBelong' /\ ErrorsAreShown'
    OBVIOUS
  <1>0. /\ TypeOK /\ WorkIsAccounted /\ RowsBelong /\ ErrorsAreShown
        /\ IInv /\ ObservationIsCurrent /\ OperationsKept
    BY OperationStep DEF ErrorIInv, ObservationIInv, IInv
  <1>1. \A c \in Cameras : cam'[c].state = "none" =>
           cam[c].state = "none" /\ desired'[c] = desired[c]
    BY <1>0, CameraStep
  <1>2. ErrorsAreShown'
    <2>1. ASSUME NEW c \in Cameras, cam'[c].state = "none", status'[c] = "error" PROVE FALSE
      <3>1. cam[c].state = "none" /\ status[c] # "error"
        BY <1>0, <1>1, <2>1 DEF ErrorsAreShown
      <3>2. PICK w \in Workers : FinishFailure(w) /\ c = ops[job[w].op].camera
        BY <1>0, <2>1, <3>1, CameraStep
      <3>3. job[w].op \in OpIds /\ ops[job[w].op].state = "running"
        BY <1>0, <3>2, JobOperation DEF FinishFailure, Claiming, Fenced, OwnedBy
      <3> QED BY <1>0, <3>1, <3>2, <3>3 DEF RowsBelong
    <2> QED BY <2>1 DEF ErrorsAreShown
  <1>3. ASSUME NEW o \in OpIds, ops'[o].state # "absent"
        PROVE  cam'[ops'[o].camera].state # "none"
    <2>1. CASE ops[o].state # "absent"
      <3>1. ops'[o].camera = ops[o].camera /\ ops[o].camera \in Cameras
        <4>1. o <= created
          BY <1>0, <2>1, StoreAssumption
             DEF OpIds, TypeOK, WorkIsAccounted, OperationsAreAccounted
        <4> QED BY <1>0, <4>1 DEF OperationsKept, TypeOK, OpType
      <3> QED BY <1>0, <1>1, <2>1, <3>1 DEF RowsBelong
    <2>2. CASE ops[o].state = "absent"
      <3>1. ASSUME NEW w \in Workers, EnqueueDrift(w), ops'[o].camera = obs[w].camera
            PROVE  cam'[ops'[o].camera].state # "none"
        <4> DEFINE c == obs[w].camera
        <4>1. c \in Cameras /\ obs[w].desired \in [Cameras -> Desired]
          BY <1>0 DEF TypeOK, Observation
        <4>2. /\ obs[w].desired[c].gen # 0
              /\ obs[w].desired[c].gen <= desired[c].gen
          BY <1>0, <3>1, <4>1 DEF EnqueueDrift, Persisting, WorkIsAccounted,
             ObservationsAreAccounted, ObservationIsCurrent
        <4>3. obs[w].desired[c].gen \in Nat /\ desired[c].gen \in Nat
          BY <1>0, <4>1, StoreAssumption DEF TypeOK, Desired, Gens
        <4> HIDE DEF c
        <4>4. cam[c].state # "none"
          BY <1>0, <4>1, <4>2, <4>3 DEF RowsBelong
        <4> QED BY <1>1, <3>1, <4>1, <4>4 DEF c
      <3> QED BY <1>0, <1>3, <2>2, <3>1, InsertedBy
    <2> QED BY <2>1, <2>2
  <1>4. RowsBelong'
    BY <1>0, <1>1, <1>3, AttemptStep DEF RowsBelong
  <1> QED BY <1>2, <1>4

\* Every step keeps the errors shown those of the current generation.
LEMMA ErrorStep == ErrorIInv /\ [Next]_vars => ErrorIsOfCurrentGeneration'
  <1> SUFFICES ASSUME ErrorIInv, [Next]_vars, NEW c \in Cameras,
                      cam'[c].state = "live", status'[c] = "error"
               PROVE  \E o \in OpIds : /\ ops'[o].camera = c
                                       /\ ops'[o].gen = desired'[c].gen
                                       /\ ops'[o].attempt > 0
    BY DEF ErrorIsOfCurrentGeneration
  <1>0. /\ TypeOK /\ WorkIsAccounted /\ RowsBelong /\ ErrorsAreShown
        /\ ErrorIsOfCurrentGeneration /\ OperationsKept
    BY OperationStep DEF ErrorIInv, ObservationIInv, IInv
  <1>1. PICK o \in OpIds : /\ ops[o].camera = c /\ ops[o].gen = desired[c].gen
                           /\ ops[o].attempt > 0
                           /\ desired'[c] = desired[c]
    <2>1. CASE cam'[c] = cam[c] /\ desired'[c] = desired[c] /\ status'[c] = status[c]
      BY <1>0, <2>1 DEF ErrorIsOfCurrentGeneration
    <2>2. ASSUME NEW w \in Workers, FinishFailure(w), c = ops[job[w].op].camera,
                 ShowsError(ops[job[w].op]), desired'[c] = desired[c]
          PROVE  \E o \in OpIds : /\ ops[o].camera = c /\ ops[o].gen = desired[c].gen
                                  /\ ops[o].attempt > 0
                                  /\ desired'[c] = desired[c]
      <3>1. job[w].op \in OpIds /\ ops[job[w].op].state = "running"
        BY <1>0, <2>2, JobOperation DEF FinishFailure, Claiming, Fenced, OwnedBy
      <3> QED BY <1>0, <2>2, <3>1 DEF RowsBelong, ShowsError
    <2> QED BY <1>0, <2>1, <2>2, CameraStep DEF ErrorsAreShown
  <1>2. ops[o].state # "absent" /\ o <= created
    BY <1>0, <1>1, StoreAssumption
       DEF RowsBelong, OpIds, TypeOK, WorkIsAccounted, OperationsAreAccounted
  <1>3. ops'[o].attempt >= ops[o].attempt /\ ops[o].attempt \in Nat
    BY <1>0, <1>2, AttemptStep, StoreAssumption DEF TypeOK, OpType
  <1>4. ops'[o].attempt \in Nat
    BY <1>0, TypeStep, StoreAssumption DEF TypeOK, OpType
  <1> QED BY <1>0, <1>1, <1>2, <1>3, <1>4 DEF OperationsKept

\* A camera never shows the error of a generation that has been replaced: a late
\* failure leaves the status to the generation that replaced its own (finish_failure).
THEOREM ErrorsAreCurrent == Spec => []ErrorIsOfCurrentGeneration
  <1>1. Init => RowsBelong /\ ErrorsAreShown /\ ErrorIsOfCurrentGeneration
    <2> SUFFICES ASSUME Init PROVE RowsBelong /\ ErrorsAreShown /\ ErrorIsOfCurrentGeneration
      OBVIOUS
    <2>1. \A c \in Cameras : /\ desired[c].gen = 0 /\ status[c] = "pending"
                             /\ cam[c].state = "none"
      BY DEF Init, NoDesired
    <2>2. \A o \in OpIds : ops[o].state = "absent" /\ ops[o].attempt = 0
      BY DEF Init, NoOp
    <2> QED BY <2>1, <2>2 DEF RowsBelong, ErrorsAreShown, ErrorIsOfCurrentGeneration
  <1>2. ObservationIInv /\ ObservationIInv' /\ RowsBelong /\ ErrorsAreShown
           /\ ErrorIsOfCurrentGeneration /\ [Next]_vars
        => RowsBelong' /\ ErrorsAreShown' /\ ErrorIsOfCurrentGeneration'
    BY BelongStep, ErrorStep DEF ErrorIInv
  <1> QED BY <1>1, <1>2, ObservationsAreHonest, PTL DEF Spec
=============================================================================
