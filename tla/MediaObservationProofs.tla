------------------------ MODULE MediaObservationProofs ------------------------
(***************************************************************************)
(* A recorded path that carries the current generation of its camera shows *)
(* what that generation asks for, whoever recorded it: a completion, or an *)
(* observation, which no lease fences and which reads the inventory, the   *)
(* desired rows and each camera row one after the other.                   *)
(***************************************************************************)
EXTENDS MediaReconciliationProofs

-----------------------------------------------------------------------------
(* What an observation has read.                                           *)

Comparing == {"cameras"} \cup Persisting
Recording == {"persistMain", "persistSub"}

\* What a worker observed was read by LoadDesiredStates and CompareCamera.
ObservedKept(v) ==
    /\ pc'[v] \in Comparing => /\ pc[v] \in Comparing
                               /\ obs'[v].desired = obs[v].desired
    /\ pc'[v] \in Recording => /\ pc[v] \in Recording
                               /\ obs'[v].camera = obs[v].camera
                               /\ obs'[v].media = obs[v].media
                               /\ obs'[v].match = obs[v].match

\* What a completion adds to an observation is not what it has read.
LEMMA OvertakesReads ==
    ASSUME TypeOK, NEW o, NEW rows, NEW v \in Workers
    PROVE  /\ Overtakes(o, rows)[v].desired = obs[v].desired
           /\ Overtakes(o, rows)[v].camera = obs[v].camera
           /\ Overtakes(o, rows)[v].media = obs[v].media
           /\ Overtakes(o, rows)[v].match = obs[v].match
  BY DEF Overtakes, TypeOK, Observation

\* What a worker has observed it changes only by reading it again.
LEMMA ObservedStep ==
    ASSUME TypeOK, [Next]_vars, NEW v \in Workers
    PROVE  \/ LoadDesiredStates(v)
           \/ \E c \in Cameras : CompareCamera(v, c)
           \/ ObservedKept(v)
  <1> USE DEF Goto, ObservedKept, Comparing, Recording, Persisting
  <1>0. /\ pc \in [Workers -> Locations] /\ obs \in [Workers -> Observation]
    BY DEF TypeOK
  <1>1. ASSUME NEW w \in Workers, BeginCycle(w) PROVE ObservedKept(v)
    BY <1>0, <1>1 DEF BeginCycle
  <1>2. ASSUME NEW w \in Workers, Acquire(w) PROVE ObservedKept(v)
    BY <1>0, <1>2 DEF Acquire
  <1>3. ASSUME NEW w \in Workers, LeaseBusy(w) PROVE ObservedKept(v)
    BY <1>0, <1>3 DEF LeaseBusy
  <1>4. ASSUME NEW w \in Workers, RenewGlobal(w) PROVE ObservedKept(v)
    BY <1>0, <1>4 DEF RenewGlobal
  <1>5. ASSUME NEW w \in Workers, ClaimNothing(w) PROVE ObservedKept(v)
    BY <1>0, <1>5 DEF ClaimNothing
  <1>6. ASSUME NEW w \in Workers, ClaimLost(w) PROVE ObservedKept(v)
    BY <1>0, <1>6 DEF ClaimLost
  <1>7. ASSUME NEW w \in Workers, CheckClaim(w) PROVE ObservedKept(v)
    BY <1>0, <1>7 DEF CheckClaim
  <1>8. ASSUME NEW w \in Workers, RenewClaim(w) PROVE ObservedKept(v)
    BY <1>0, <1>8 DEF RenewClaim
  <1>9. ASSUME NEW w \in Workers, VerifyClaim(w) PROVE ObservedKept(v)
    BY <1>0, <1>9 DEF VerifyClaim
  <1>10. ASSUME NEW w \in Workers, LoadDesired(w) PROVE ObservedKept(v)
    BY <1>0, <1>10 DEF LoadDesired
  <1>11. ASSUME NEW w \in Workers, LoadCamera(w) PROVE ObservedKept(v)
    BY <1>0, <1>11 DEF LoadCamera
  <1>12. ASSUME NEW w \in Workers, SendRequest(w) PROVE ObservedKept(v)
    BY <1>0, <1>12 DEF SendRequest
  <1>13. ASSUME NEW w \in Workers, ReceiveAnswer(w) PROVE ObservedKept(v)
    BY <1>0, <1>13 DEF ReceiveAnswer
  <1>14. ASSUME NEW w \in Workers, FinishRefused(w) PROVE ObservedKept(v)
    BY <1>0, <1>14 DEF FinishRefused
  <1>15. ASSUME NEW w \in Workers, Abandon(w) PROVE ObservedKept(v)
    BY <1>0, <1>15 DEF Abandon
  <1>16. ASSUME NEW w \in Workers, Release(w) PROVE ObservedKept(v)
    BY <1>0, <1>16 DEF Release
  <1>17. ASSUME NEW w \in Workers, Observe(w) PROVE ObservedKept(v)
    BY <1>0, <1>17 DEF Observe, Observation
  <1>18. ASSUME NEW w \in Workers, ObservationDone(w) PROVE ObservedKept(v)
    BY <1>0, <1>18 DEF ObservationDone
  <1>19. ASSUME NEW w \in Workers, CheckDrift(w) PROVE ObservedKept(v)
    BY <1>0, <1>19 DEF CheckDrift
  <1>20. ASSUME NEW w \in Workers, EnqueueDrift(w) PROVE ObservedKept(v)
    BY <1>0, <1>20 DEF EnqueueDrift
  <1>21. ASSUME NEW w \in Workers, Start(w) PROVE ObservedKept(v)
    BY <1>0, <1>21 DEF Start
  <1>22. ASSUME NEW w \in Workers, Crash(w) PROVE ObservedKept(v)
    BY <1>0, <1>22 DEF Crash
  <1>23. ASSUME NEW w \in Workers, RequestTimesOut(w) PROVE ObservedKept(v)
    BY <1>0, <1>23 DEF RequestTimesOut
  <1>24. ASSUME NEW w \in Workers, ObserveFails(w) PROVE ObservedKept(v)
    BY <1>0, <1>24 DEF ObserveFails
  <1>25. ASSUME NEW w \in Workers, MediaExecutes(w) PROVE ObservedKept(v)
    BY <1>0, <1>25 DEF MediaExecutes
  <1>26. ASSUME NEW w \in Workers, MediaRefuses(w) PROVE ObservedKept(v)
    BY <1>0, <1>26 DEF MediaRefuses
  <1>27. ASSUME NEW w \in Workers, FinishFailure(w) PROVE ObservedKept(v)
    BY <1>0, <1>27 DEF FinishFailure
  <1>28. ASSUME NEW w \in Workers, NEW o \in OpIds, Claim(w, o) PROVE ObservedKept(v)
    BY <1>0, <1>28 DEF Claim
  <1>29. ASSUME NEW w \in Workers, StartObservation(w) PROVE ObservedKept(v)
    <2>1. pc'[w] = "inventory" /\ (v # w => pc'[v] = pc[v])
      BY <1>0, <1>29 DEF StartObservation
    <2>2. v # w => obs'[v] = [obs[v] EXCEPT !.older = obs[v].older \ {w}]
      BY <1>29 DEF StartObservation
    <2>3. v # w => /\ obs'[v].desired = obs[v].desired /\ obs'[v].camera = obs[v].camera
                   /\ obs'[v].media = obs[v].media /\ obs'[v].match = obs[v].match
      BY <1>0, <2>2 DEF Observation
    <2> QED BY <2>1, <2>3
  <1>30. ASSUME NEW w \in Workers, PersistObserved(w) PROVE ObservedKept(v)
    <2>1. PICK newer : obs'[v] \in {obs[v], [obs[v] EXCEPT !.newer = newer]}
      BY <1>0, <1>30 DEF PersistObserved
    <2>2. /\ obs'[v].desired = obs[v].desired /\ obs'[v].camera = obs[v].camera
          /\ obs'[v].media = obs[v].media /\ obs'[v].match = obs[v].match
      BY <1>0, <2>1 DEF Observation
    <2>3. /\ pc[w] \in {"persistMain", "persistSub"}
          /\ pc'[w] \in {"persistSub", "cameras", "drift"}
          /\ v # w => pc'[v] = pc[v]
      BY <1>0, <1>30 DEF PersistObserved
    <2> QED BY <2>2, <2>3
  <1>31. ASSUME NEW w \in Workers, FinishSuperseded(w) PROVE ObservedKept(v)
    <2>1. PICK o, rows : obs' = Overtakes(o, rows)
      BY <1>31 DEF FinishSuperseded, CompleteSuperseded
    <2>2. /\ obs'[v].desired = obs[v].desired /\ obs'[v].camera = obs[v].camera
          /\ obs'[v].media = obs[v].media /\ obs'[v].match = obs[v].match
      BY <2>1, OvertakesReads
    <2>3. pc' = [pc EXCEPT ![w] = "releaseMore"]
      BY <1>31 DEF FinishSuperseded
    <2> QED BY <1>0, <2>2, <2>3
  <1>32. ASSUME NEW w \in Workers, FinishSuccess(w) PROVE ObservedKept(v)
    <2>1. PICK o, rows : obs' = Overtakes(o, rows)
      BY <1>32 DEF FinishSuccess, CompleteSuperseded
    <2>2. /\ obs'[v].desired = obs[v].desired /\ obs'[v].camera = obs[v].camera
          /\ obs'[v].media = obs[v].media /\ obs'[v].match = obs[v].match
      BY <2>1, OvertakesReads
    <2>3. pc' = [pc EXCEPT ![w] = "releaseMore"]
      BY <1>32 DEF FinishSuccess
    <2> QED BY <1>0, <2>2, <2>3
  <1>33. ASSUME NEW w \in Workers, LoadDesiredStates(w), v # w PROVE ObservedKept(v)
    BY <1>0, <1>33 DEF LoadDesiredStates
  <1>34. ASSUME NEW w \in Workers, NEW c \in Cameras, CompareCamera(w, c), v # w
        PROVE  ObservedKept(v)
    BY <1>0, <1>34 DEF CompareCamera
  <1>35. CASE Requests
    BY <1>35 DEF Requests, CreateCamera, UpdateCamera, DeleteCamera, ResolveOperation
  <1>36. CASE LeaseRunsOut
    BY <1>36 DEF LeaseRunsOut
  <1>37. CASE MediaRestarts
    BY <1>37 DEF MediaRestarts
  <1>38. ASSUME NEW r \in orphans, MediaExecutesLate(r) PROVE ObservedKept(v)
    BY <1>38 DEF MediaExecutesLate
  <1>39. ASSUME NEW o \in OpIds, ClaimRunsOut(o) \/ RetryComesDue(o) PROVE ObservedKept(v)
    BY <1>39 DEF ClaimRunsOut, RetryComesDue
  <1>40. CASE UNCHANGED vars
    BY <1>40 DEF vars
  <1> QED BY <1>1, <1>2, <1>3, <1>4, <1>5, <1>6, <1>7, <1>8, <1>9, <1>10,
             <1>11, <1>12, <1>13, <1>14, <1>15, <1>16, <1>17, <1>18, <1>19,
             <1>20, <1>21, <1>22, <1>23, <1>24, <1>25, <1>26, <1>27, <1>28,
             <1>29, <1>30, <1>31, <1>32, <1>33, <1>34, <1>35, <1>36, <1>37,
             <1>38, <1>39, <1>40
          DEF Next, Step, Media, Time, Trouble

\* Nothing but a completion and an observation records paths.
LEMMA ActualStep ==
    ASSUME [Next]_vars
    PROVE  \/ actual' = actual
           \/ \E w \in Workers : \/ FinishSuccess(w) /\ StillCurrent(w)
                                 \/ PersistObserved(w)
  <1>1. ASSUME NEW w \in Workers, Start(w) \/ Step(w), ~FinishSuccess(w), ~PersistObserved(w)
        PROVE  actual' = actual
    BY <1>1 DEF Start, Step, BeginCycle, Acquire, LeaseBusy, RenewGlobal, Claim,
       ClaimNothing, ClaimLost, CheckClaim, RenewClaim, VerifyClaim,
       LoadDesired, LoadCamera, SendRequest, ReceiveAnswer, FinishSuperseded,
       CompleteSuperseded, FinishFailure, FinishRefused, Abandon, Release,
       StartObservation, Observe, LoadDesiredStates, ObservationDone, CompareCamera,
       CheckDrift, EnqueueDrift
  <1>2. ASSUME NEW w \in Workers, FinishSuccess(w), ~StillCurrent(w) PROVE actual' = actual
    BY <1>2 DEF FinishSuccess, CompleteSuperseded
  <1>3. ASSUME Requests \/ Media \/ Time \/ Trouble PROVE actual' = actual
    BY <1>3 DEF Requests, CreateCamera, UpdateCamera, DeleteCamera, ResolveOperation,
       Media, Time, Trouble, MediaExecutes, MediaRefuses, MediaExecutesLate,
       MediaRestarts, LeaseRunsOut, ClaimRunsOut, RetryComesDue, Crash, RequestTimesOut,
       ObserveFails
  <1> QED BY <1>1, <1>2, <1>3 DEF Next, vars

-----------------------------------------------------------------------------
(* The invariant.                                                          *)

\* A path that matches is the expected one (config_matches).
LEMMA MatchesExpected ==
    ASSUME NEW d \in Desired, NEW k \in Configs, NEW found, NEW p \in Profiles,
           Matches(found, d, k)[p]
    PROVE  found[p] = Expected(d, k)[p]
  BY DEF Matches, Expected, ShouldExist, Profiles, Desired

\* A desired state and its history stay, or the generation moves on.
LEMMA GenerationStep ==
    ASSUME IInv, [Next]_vars, NEW c \in Cameras
    PROVE  /\ desired[c].gen \in Nat
           /\ \/ /\ desired'[c] = desired[c]
                 /\ desired[c].gen # 0 =>
                       committed'[c][desired[c].gen] = committed[c][desired[c].gen]
              \/ desired'[c].gen = desired[c].gen + 1
  <1>1. HistoryIsCurrent /\ HistoryIsCurrent' /\ CatalogKept
    BY HistoryStep DEF IInv
  <1>2. desired[c].gen \in Nat
    BY StoreAssumption DEF IInv, TypeOK, Desired, Gens
  <1>3. CASE desired'[c] = desired[c] /\ cam'[c].config = cam[c].config
    <2>1. desired[c].gen # 0 =>
             committed'[c][desired'[c].gen] = Expected(desired'[c], cam'[c].config)
      BY <1>1, <1>3 DEF HistoryIsCurrent, Expected
    <2>2. Expected(desired'[c], cam'[c].config) = Expected(desired[c], cam[c].config)
      BY <1>3
    <2>3. desired[c].gen # 0 =>
             committed[c][desired[c].gen] = Expected(desired[c], cam[c].config)
      BY <1>1 DEF HistoryIsCurrent
    <2> QED BY <1>2, <1>3, <2>1, <2>2, <2>3
  <1> QED BY <1>1, <1>2, <1>3 DEF CatalogKept

\* Every step keeps what is observed either current or recognisably old.
LEMMA ObservationCurrentStep ==
    ASSUME IInv, ObservationIsCurrent, [Next]_vars
    PROVE  ObservationIsCurrent'
  <1> SUFFICES ASSUME NEW w \in Workers
               PROVE  /\ pc'[w] \in Comparing => \A c \in Cameras :
                            /\ obs'[w].desired[c].gen <= desired'[c].gen
                            /\ obs'[w].desired[c].gen = desired'[c].gen =>
                                  obs'[w].desired[c] = desired'[c]
                      /\ /\ pc'[w] \in Recording
                         /\ obs'[w].desired[obs'[w].camera].gen
                              = desired'[obs'[w].camera].gen
                         => \A p \in Profiles : obs'[w].match[p] =>
                               obs'[w].media[obs'[w].camera][p] =
                                  committed'[obs'[w].camera][desired'[obs'[w].camera].gen][p]
    BY DEF ObservationIsCurrent, Comparing, Recording
  <1>0. /\ TypeOK /\ WorkIsAccounted /\ obs[w] \in Observation
        /\ \A c \in Cameras : obs[w].desired[c] \in Desired /\ obs[w].desired[c].gen \in Nat
        /\ obs[w].camera \in Cameras
    <2>1. TypeOK /\ WorkIsAccounted /\ obs[w] \in Observation
      BY DEF IInv, TypeOK
    <2>2. obs[w].desired \in [Cameras -> Desired] /\ obs[w].camera \in Cameras
      BY <2>1 DEF Observation
    <2>3. \A d \in Desired : d.gen \in Nat
      BY StoreAssumption DEF Desired, Gens
    <2> QED BY <2>1, <2>2, <2>3
  <1>1. Recording \subseteq Persisting /\ Recording \subseteq Comparing
    BY DEF Recording, Persisting, Comparing
  <1>2. CASE LoadDesiredStates(w)
    <2>1. /\ pc'[w] = "cameras" /\ obs'[w].desired = desired /\ desired' = desired
      BY <1>0, <1>2 DEF LoadDesiredStates, Goto, TypeOK, Observation, catalog
    <2>2. "cameras" \notin Recording
      BY DEF Recording
    <2>3. \A c \in Cameras : desired[c].gen \in Nat
      BY GenerationStep
    <2> QED BY <2>1, <2>2, <2>3
  <1>3. ASSUME NEW c \in Cameras, CompareCamera(w, c)
        PROVE  /\ pc'[w] \in Comparing => \A e \in Cameras :
                     /\ obs'[w].desired[e].gen <= desired'[e].gen
                     /\ obs'[w].desired[e].gen = desired'[e].gen =>
                           obs'[w].desired[e] = desired'[e]
               /\ obs'[w].desired[obs'[w].camera].gen = desired'[obs'[w].camera].gen
                  => \A p \in Profiles : obs'[w].match[p] =>
                        obs'[w].media[obs'[w].camera][p] =
                           committed'[obs'[w].camera][desired'[obs'[w].camera].gen][p]
    <2>1. /\ pc[w] \in Comparing /\ c \in obs[w].todo
          /\ obs'[w].camera = c
          /\ obs'[w].desired = obs[w].desired /\ obs'[w].media = obs[w].media
          /\ obs'[w].match = Matches(obs[w].media[c], obs[w].desired[c], cam[c].config)
          /\ desired' = desired /\ committed' = committed
      BY <1>0, <1>3 DEF CompareCamera, TypeOK, Observation, catalog, Comparing
    <2>2. \A e \in Cameras : /\ obs[w].desired[e].gen <= desired[e].gen
                             /\ obs[w].desired[e].gen = desired[e].gen =>
                                   obs[w].desired[e] = desired[e]
      BY <2>1 DEF ObservationIsCurrent, Comparing
    <2>3. obs[w].desired[c].gen # 0 /\ cam[c].config \in Configs
      BY <1>0, <2>1 DEF WorkIsAccounted, ObservationsAreAccounted, TypeOK
    <2>4. ASSUME obs[w].desired[c].gen = desired[c].gen, NEW p \in Profiles, obs'[w].match[p]
          PROVE  obs[w].media[c][p] = committed[c][desired[c].gen][p]
      <3>1. obs[w].media[c][p] = Expected(obs[w].desired[c], cam[c].config)[p]
        BY <1>0, <2>1, <2>3, <2>4, MatchesExpected
      <3>2. committed[c][desired[c].gen] = Expected(desired[c], cam[c].config)
        BY <2>3, <2>4 DEF IInv, HistoryIsCurrent
      <3> QED BY <2>2, <2>4, <3>1, <3>2
    <2> QED BY <2>1, <2>2, <2>4
  <1>4. CASE ObservedKept(w)
    <2>1. ASSUME pc'[w] \in Comparing, NEW c \in Cameras
          PROVE  /\ obs'[w].desired[c].gen <= desired'[c].gen
                 /\ obs'[w].desired[c].gen = desired'[c].gen => obs'[w].desired[c] = desired'[c]
      <3>1. /\ pc[w] \in Comparing /\ obs'[w].desired = obs[w].desired
            /\ obs[w].desired[c].gen <= desired[c].gen
            /\ obs[w].desired[c].gen = desired[c].gen => obs[w].desired[c] = desired[c]
        BY <1>4, <2>1 DEF ObservedKept, ObservationIsCurrent, Comparing
      <3> QED BY <1>0, <3>1, GenerationStep
    <2>2. ASSUME pc'[w] \in Recording, NEW p \in Profiles, obs'[w].match[p],
                 obs'[w].desired[obs'[w].camera].gen = desired'[obs'[w].camera].gen
          PROVE  obs'[w].media[obs'[w].camera][p] =
                    committed'[obs'[w].camera][desired'[obs'[w].camera].gen][p]
      <3> DEFINE c == obs[w].camera
      <3>1. /\ pc[w] \in Recording /\ obs'[w].camera = c
            /\ obs'[w].desired = obs[w].desired
            /\ obs'[w].media = obs[w].media /\ obs'[w].match = obs[w].match
        BY <1>1, <1>4, <2>2 DEF ObservedKept
      <3>2. /\ obs[w].desired[c].gen # 0
            /\ obs[w].desired[c].gen <= desired[c].gen
            /\ obs[w].desired[c].gen = desired[c].gen =>
                  obs[w].media[c][p] = committed[c][desired[c].gen][p]
        BY <1>0, <1>1, <2>2, <3>1
           DEF WorkIsAccounted, ObservationsAreAccounted, ObservationIsCurrent,
               Comparing, Recording
      <3> HIDE DEF c
      <3>3. c \in Cameras
        BY <1>0 DEF c
      <3> QED BY <1>0, <2>2, <3>1, <3>2, <3>3, GenerationStep
    <2> QED BY <2>1, <2>2
  <1> QED BY <1>2, <1>3, <1>4, ObservedStep, <1>0

\* Every step keeps the recorded generations honest.
LEMMA AppliedStep ==
    ASSUME ObservationIInv, [Next]_vars
    PROVE  (AppliedIsCommitted /\ AppliedGenerationIsHonest)'
  <1> SUFFICES ASSUME NEW c \in Cameras, NEW p \in Profiles
               PROVE  /\ actual'[c][p].gen <= desired'[c].gen
                      /\ actual'[c][p].gen # 0 /\ actual'[c][p].gen = desired'[c].gen =>
                            actual'[c][p].content = committed'[c][desired'[c].gen][p]
    BY DEF AppliedIsCommitted, AppliedGenerationIsHonest
  <1>0. /\ IInv /\ TypeOK /\ WorkIsAccounted /\ actual[c][p].gen \in Nat
        /\ desired[c].gen \in Nat
        /\ actual[c][p].gen <= desired[c].gen
        /\ actual[c][p].gen # 0 /\ actual[c][p].gen = desired[c].gen =>
              actual[c][p].content = committed[c][desired[c].gen][p]
    BY StoreAssumption, GenerationStep
       DEF ObservationIInv, IInv, TypeOK, Gens, AppliedIsCommitted, AppliedGenerationIsHonest
  <1>1. CASE actual' = actual
    BY <1>0, <1>1, GenerationStep
  <1>2. ASSUME NEW w \in Workers, FinishSuccess(w), StillCurrent(w)
        PROVE  /\ desired' = desired /\ committed' = committed
               /\ \/ actual'[c][p] = actual[c][p]
                  \/ actual'[c][p] = [content |-> committed[c][desired[c].gen][p],
                                      gen |-> desired[c].gen]
    <2> DEFINE e == ops[job[w].op].camera
    <2>1. actual'[c][p] = IF c = e THEN [content |-> committed[e][desired[e].gen][p],
                                         gen |-> desired[e].gen]
                          ELSE actual[c][p]
      BY <1>0, <1>2, SuccessRecords
    <2>2. desired' = desired /\ committed' = committed
      BY <1>2 DEF FinishSuccess, catalog
    <2> QED BY <2>1, <2>2
  <1>3. ASSUME NEW w \in Workers, PersistObserved(w)
        PROVE  /\ desired' = desired /\ committed' = committed
               /\ \/ actual'[c][p] = actual[c][p]
                  \/ actual'[c][p].gen = 0
                  \/ /\ actual'[c][p].gen <= desired[c].gen
                     /\ actual'[c][p].gen = desired[c].gen =>
                           actual'[c][p].content = committed[c][desired[c].gen][p]
    <2> DEFINE e == obs[w].camera
               q == IF pc[w] = "persistMain" THEN "main" ELSE "sub"
    <2>1. /\ desired' = desired /\ committed' = committed
          /\ pc[w] \in Recording /\ pc[w] \in Comparing
      BY <1>3 DEF PersistObserved, catalog, Recording, Comparing, Persisting
    <2>2. /\ e \in Cameras /\ q \in Profiles /\ obs[w] \in Observation
      BY <1>0 DEF TypeOK, Observation, Profiles
    <2>3. \/ actual' = actual
          \/ actual' = [actual EXCEPT ![e][q] =
                          [content |-> obs[w].media[e][q],
                           gen |-> IF obs[w].match[q] THEN obs[w].desired[e].gen ELSE 0]]
      BY <1>3 DEF PersistObserved, AppliedGeneration
    <2>4. /\ obs[w].desired[e].gen <= desired[e].gen
          /\ obs[w].desired[e].gen = desired[e].gen /\ obs[w].match[q] =>
                obs[w].media[e][q] = committed[e][desired[e].gen][q]
      BY <2>1, <2>2 DEF ObservationIInv, ObservationIsCurrent, Comparing, Recording
    <2> HIDE DEF e, q
    <2>5. \/ actual'[c][p] = actual[c][p]
          \/ /\ c = e /\ p = q
             /\ actual'[c][p] =
                  [content |-> obs[w].media[e][q],
                   gen |-> IF obs[w].match[q] THEN obs[w].desired[e].gen ELSE 0]
      BY <1>0, <2>2, <2>3 DEF TypeOK
    <2> QED BY <2>1, <2>4, <2>5
  <1>4. ASSUME NEW w \in Workers,
               \/ FinishSuccess(w) /\ StillCurrent(w)
               \/ PersistObserved(w)
        PROVE  /\ actual'[c][p].gen <= desired'[c].gen
               /\ actual'[c][p].gen # 0 /\ actual'[c][p].gen = desired'[c].gen =>
                     actual'[c][p].content = committed'[c][desired'[c].gen][p]
    BY <1>0, <1>2, <1>3, <1>4
  <1> QED BY <1>1, <1>4, ActualStep

\* Whatever falls between the reads of an observation (a request that commits a new
\* generation, another server's completion), and although persist_observed_path is
\* fenced by no lease: what media_actual_paths shows as applied of the current
\* generation is what the request that committed it asked for.
THEOREM ObservationsAreHonest == Spec => []ObservationIInv
  <1>1. Init => ObservationIInv
    <2>1. Init => IInv
      <3>1. Init => HistoryIsCurrent /\ SnapshotIsCurrent
        BY DEF Init, HistoryIsCurrent, SnapshotIsCurrent, ReadDesired, ReadCamera, NoDesired
      <3> QED BY <3>1, InitType DEF IInv
    <2>2. Init => ObservationIsCurrent /\ AppliedIsCommitted /\ AppliedGenerationIsHonest
      BY DEF Init, ObservationIsCurrent, AppliedIsCommitted, AppliedGenerationIsHonest,
         Persisting, NoRow, NoDesired
    <2> QED BY <2>1, <2>2 DEF ObservationIInv
  <1>2. ObservationIInv /\ [Next]_vars => ObservationIInv'
    BY TypeStep, OperationStep, WorkerStep, ObservationStep, HistoryStep, SnapshotStep,
       ObservationCurrentStep, AppliedStep
       DEF IInv, ObservationIInv, WorkIsAccounted
  <1> QED BY <1>1, <1>2, PTL DEF Spec

\* In particular no recorded path claims a current generation it does not have.
THEOREM AppliedIsHonest == Spec => []AppliedGenerationIsHonest
  <1>1. ObservationIInv => AppliedGenerationIsHonest
    BY DEF ObservationIInv
  <1> QED BY <1>1, ObservationsAreHonest, PTL
=============================================================================
