----------------------------- MODULE ConsoleProofs -----------------------------
(***************************************************************************)
(* Proofs about Console: the requests, the tokens and the audit delivery,  *)
(* for any number of requests at a time, any patches, clock, lifetime and  *)
(* bounds.                                                                 *)
(***************************************************************************)
EXTENDS Console, Integers, TLAPS

USE RequestsAssumption, TokensAssumption, DeliveryAssumption, ConsoleAssumption

-----------------------------------------------------------------------------
(* Whole seconds.                                                          *)

\* The time in whole seconds does not exceed the time, and is less than a second
\* behind it (Timestamp).
LEMMA Second ==
    ASSUME NEW t \in Nat
    PROVE  /\ Timestamp(t) \in Nat
           /\ TicksPerSecond * Timestamp(t) <= t
           /\ t < TicksPerSecond * Timestamp(t) + TicksPerSecond
  BY DEF Timestamp

\* Seconds are compared by the times they begin at.
LEMMA SecondOrder ==
    ASSUME NEW x \in Int, NEW y \in Int,
           TicksPerSecond * x < TicksPerSecond * y + TicksPerSecond
    PROVE  x <= y
<1>1. CASE x >= y + 1
  <2>1. TicksPerSecond * x >= TicksPerSecond * (y + 1) BY <1>1
  <2> QED BY <2>1
<1> QED BY <1>1

\* Timestamp is monotone.
LEMMA SecondMonotone ==
    ASSUME NEW s \in Nat, NEW t \in Nat, s <= t
    PROVE  Timestamp(s) <= Timestamp(t)
<1>1. /\ Timestamp(s) \in Nat /\ Timestamp(t) \in Nat
      /\ TicksPerSecond * Timestamp(s) <= s
      /\ t < TicksPerSecond * Timestamp(t) + TicksPerSecond
  BY Second
<1> QED BY <1>1, SecondOrder

\* A lifetime is a whole number of seconds: the claims differ by exactly that number,
\* at whatever tick of a second a token is issued (issue_media_token).
LEMMA LifetimeInSeconds ==
    ASSUME NEW t \in Nat
    PROVE  /\ ExpiresAt(t) \in Nat
           /\ Timestamp(ExpiresAt(t)) = Timestamp(t) + Lifetime
<1>1. ExpiresAt(t) \in Nat /\ ExpiresAt(t) = t + Lifetime * TicksPerSecond
  BY DEF ExpiresAt
<1> DEFINE q == Timestamp(ExpiresAt(t))
           b == Timestamp(t)
<1>2. q \in Nat /\ TicksPerSecond * q <= ExpiresAt(t)
      /\ ExpiresAt(t) < TicksPerSecond * q + TicksPerSecond
  BY <1>1, Second
<1>3. b \in Nat /\ TicksPerSecond * b <= t /\ t < TicksPerSecond * b + TicksPerSecond
  BY Second
<1>4. TicksPerSecond * (b + Lifetime) = TicksPerSecond * b + Lifetime * TicksPerSecond
  BY <1>3
<1> HIDE DEF q, b
<1>5. q <= b + Lifetime BY <1>1, <1>2, <1>3, <1>4, SecondOrder
<1>6. b + Lifetime <= q BY <1>1, <1>2, <1>3, <1>4, SecondOrder
<1>7. q = b + Lifetime BY <1>2, <1>3, <1>5, <1>6
<1> QED BY <1>1, <1>7 DEF q, b

\* A token that is issued is honoured until it expires, and for less than a second
\* more (decode_media_token).
LEMMA TokenHonoured ==
    ASSUME NEW i \in Nat, NEW t \in Nat, NEW action, NEW path
    PROVE  LET k == Token(action, path, i) IN
           /\ i <= t /\ t <= k.expires_at => Decoded(k, t)
           /\ Decoded(k, t) => t < k.expires_at + TicksPerSecond
<1> DEFINE k == Token(action, path, i)
<1>1. /\ k.iat = Timestamp(i) /\ k.exp = Timestamp(ExpiresAt(i))
      /\ k.expires_at = ExpiresAt(i)
  BY DEF Token
<1>2. /\ Timestamp(i) \in Nat /\ ExpiresAt(i) \in Nat
      /\ Timestamp(ExpiresAt(i)) = Timestamp(i) + Lifetime
  BY Second, LifetimeInSeconds
<1>3. ASSUME i <= t, t <= ExpiresAt(i)
      PROVE  Decoded(k, t)
  <2>1. Timestamp(i) <= Timestamp(t) /\ Timestamp(t) <= Timestamp(ExpiresAt(i))
    BY <1>2, <1>3, SecondMonotone
  <2> QED BY <1>1, <1>2, <2>1 DEF Decoded
<1>4. ASSUME Decoded(k, t)
      PROVE  t < ExpiresAt(i) + TicksPerSecond
  <2>1. Timestamp(t) <= Timestamp(ExpiresAt(i)) BY <1>1, <1>4 DEF Decoded
  <2>2. /\ Timestamp(t) \in Nat /\ t < TicksPerSecond * Timestamp(t) + TicksPerSecond
        /\ TicksPerSecond * Timestamp(ExpiresAt(i)) <= ExpiresAt(i)
    BY <1>2, Second
  <2>3. Timestamp(ExpiresAt(i)) \in Nat BY <1>2
  <2>4. TicksPerSecond * Timestamp(t) <= TicksPerSecond * Timestamp(ExpiresAt(i))
    BY <2>1, <2>2, <2>3
  <2> QED BY <1>2, <2>2, <2>3, <2>4
<1> QED BY <1>1, <1>3, <1>4

-----------------------------------------------------------------------------
(* Types.                                                                  *)

Request == [at : {"free", "loaded"}, kind : Kinds, named : SUBSET Fields,
            fields : [Fields -> BOOLEAN], profile : Profiles, overtaken : BOOLEAN]

LEMMA FreeType == Free \in Request
  BY DEF Free, Request, Kinds, Fields, Profiles

\* A patch names fields, and what is merged is a value of every field.
LEMMA MergedType ==
    ASSUME NEW patch \in Patches, NEW existing \in [Fields -> BOOLEAN]
    PROVE  DOMAIN patch \in SUBSET Fields /\ Merged(patch, existing) \in [Fields -> BOOLEAN]
<1>1. PICK S \in SUBSET Fields : patch \in [S -> BOOLEAN]
  BY DEF RequestsAssumption
<1> QED BY <1>1 DEF Merged

LEMMA QueuedType ==
    ASSUME NEW present \in BOOLEAN, NEW fields \in [Fields -> BOOLEAN]
    PROVE  Queued(present, fields) \in [present : BOOLEAN, sub : BOOLEAN]
  BY DEF Queued, Fields

LEMMA RequestsTypeInit == RequestsInit => RequestsTypeOK
<1> SUFFICES ASSUME RequestsInit PROVE RequestsTypeOK
  OBVIOUS
<1>1. row \in [deleted : BOOLEAN, fields : [Fields -> BOOLEAN]]
  BY DEF RequestsInit
<1>2. desired \in [present : BOOLEAN, sub : BOOLEAN]
  BY <1>1, QueuedType DEF RequestsInit, Fields
<1> QED BY <1>1, <1>2, FreeType DEF RequestsInit, RequestsTypeOK, Request

\* A load keeps the types of the requests (load_camera and what follows it).
LEMMA LoadTypes ==
    ASSUME RequestsTypeOK, NEW r \in Requests, Load(r)
    PROVE  RequestsTypeOK'
<1>1. ASSUME NEW patch \in Patches, LoadForUpdate(r, patch)
      PROVE  RequestsTypeOK'
  <2>1. DOMAIN patch \in SUBSET Fields /\ Merged(patch, row.fields) \in [Fields -> BOOLEAN]
    BY MergedType DEF RequestsTypeOK
  <2> QED BY <1>1, <2>1 DEF LoadForUpdate, RequestsTypeOK, Free, Kinds, Fields, Profiles
<1>2. ASSUME LoadForDelete(r)
      PROVE  RequestsTypeOK'
  BY <1>2 DEF LoadForDelete, RequestsTypeOK, Free, Kinds, Fields, Profiles
<1>3. ASSUME NEW profile \in Profiles, LoadForTicket(r, profile)
      PROVE  RequestsTypeOK'
  BY <1>3 DEF LoadForTicket, RequestsTypeOK, Free, Kinds, Fields, Profiles
<1>4. ASSUME NEW profile \in Profiles, LoadForPlayback(r, profile)
      PROVE  RequestsTypeOK'
  BY <1>4 DEF LoadForPlayback, RequestsTypeOK, Free, Kinds, Fields, Profiles
<1> QED BY <1>1, <1>2, <1>3, <1>4 DEF Load

LEMMA AnsweredType ==
    ASSUME RequestsTypeOK, NEW r \in Requests, request' = Answered(r) \/ request' = Overtaken(r)
    PROVE  request' \in [Requests -> Request]
<1>1. request \in [Requests -> Request] BY DEF RequestsTypeOK, Request
<1>2. CASE request' = Answered(r) BY <1>1, <1>2, FreeType DEF Answered
<1>3. CASE request' = Overtaken(r)
  <2> SUFFICES ASSUME NEW q \in Requests
               PROVE  Overtaken(r)[q] \in Request
    BY <1>3 DEF Overtaken
  <2>1. [request[q] EXCEPT !.overtaken = @ \/ Loaded(q, "update")] \in Request
    BY <1>1 DEF Request, Loaded
  <2> QED BY <1>3, <2>1, FreeType DEF Overtaken
<1> QED BY <1>2, <1>3

\* A transaction keeps the types (update_camera, delete_camera).
LEMMA CommitTypes ==
    ASSUME RequestsTypeOK, NEW r \in Requests, UpdateCamera(r) \/ DeleteCamera(r)
    PROVE  RequestsTypeOK'
<1>1. request' \in [Requests -> Request]
  BY AnsweredType DEF UpdateCamera, DeleteCamera
<1>2. CASE UpdateCamera(r)
  <2>1. request[r].fields \in [Fields -> BOOLEAN] BY DEF RequestsTypeOK
  <2>2. desired' \in [present : BOOLEAN, sub : BOOLEAN]
    BY <1>2, <2>1, QueuedType DEF UpdateCamera, Fields
  <2>3. row' \in [deleted : BOOLEAN, fields : [Fields -> BOOLEAN]]
    BY <1>2, <2>1 DEF UpdateCamera, RequestsTypeOK
  <2> QED BY <1>1, <2>2, <2>3 DEF RequestsTypeOK, Request
<1>3. CASE DeleteCamera(r)
  <2>1. row.fields \in [Fields -> BOOLEAN] BY DEF RequestsTypeOK
  <2>2. desired' \in [present : BOOLEAN, sub : BOOLEAN]
    BY <1>3, <2>1, QueuedType DEF DeleteCamera
  <2>3. row' \in [deleted : BOOLEAN, fields : [Fields -> BOOLEAN]]
    BY <1>3 DEF DeleteCamera, RequestsTypeOK
  <2> QED BY <1>1, <2>2, <2>3 DEF RequestsTypeOK, Request
<1> QED BY <1>2, <1>3

\* What is delivered and what waits are events (flush_operation_audit).
LEMMA DeliveryTypes ==
    ASSUME DeliveryTypeOK, Happen \/ BeginFlush \/ Deliver \/ FlushFails \/ Restart
    PROVE  DeliveryTypeOK'
<1>1. CASE Happen
  <2>1. happened' \in 0..MaxEvents /\ happened + 1 \in Events
    BY <1>1 DEF Happen, DeliveryTypeOK, Events, DeliveryAssumption
  <2> QED BY <1>1, <2>1 DEF Happen, DeliveryTypeOK
<1>2. CASE BeginFlush BY <1>2 DEF BeginFlush, Oldest, DeliveryTypeOK
<1>3. CASE Deliver BY <1>3 DEF Deliver, DeliveryTypeOK
<1>4. CASE FlushFails BY <1>4 DEF FlushFails, DeliveryTypeOK, DeliveryAssumption
<1>5. CASE Restart BY <1>5 DEF Restart, DeliveryTypeOK, DeliveryAssumption
<1> QED BY <1>1, <1>2, <1>3, <1>4, <1>5

TokensTypeOK ==
    /\ now \in 0..MaxTime
    /\ tokens \subseteq {Token(a, p, t) : a \in {"read", "playback"}, p \in Profiles,
                                          t \in 0..MaxTime}
    /\ age \in [Requests -> 0..MaxDelay]
    /\ downSince \in [Profiles -> 0..MaxTime]

LEMMA TypeInit == Init => TypeOK
<1> SUFFICES ASSUME Init PROVE TypeOK
  OBVIOUS
<1>1. RequestsTypeOK BY RequestsTypeInit DEF Init
<1>2. DeliveryTypeOK
  BY DEF Init, DeliveryInit, DeliveryTypeOK, DeliveryAssumption
<1>3. TokensTypeOK
  BY DEF Init, TokensInit, TokensTypeOK, TokensAssumption, ConsoleAssumption
<1> QED BY <1>1, <1>2, <1>3 DEF TypeOK, TokensTypeOK

LEMMA TypeStep == TypeOK /\ [Next]_vars => TypeOK'
<1> SUFFICES ASSUME TypeOK, [Next]_vars PROVE TypeOK'
  OBVIOUS
<1> USE DEF cameraVars, tokenVars, auditVars
<1>0. RequestsTypeOK /\ DeliveryTypeOK /\ TokensTypeOK
  BY DEF TypeOK, TokensTypeOK
<1> SUFFICES RequestsTypeOK' /\ DeliveryTypeOK' /\ TokensTypeOK'
  BY DEF TypeOK, TokensTypeOK
<1>1. ASSUME NEW r \in Requests, Load(r)
      PROVE  RequestsTypeOK' /\ DeliveryTypeOK' /\ TokensTypeOK'
  <2>1. RequestsTypeOK' BY <1>0, <1>1, LoadTypes
  <2>2. DeliveryTypeOK' BY <1>0, <1>1 DEF Load, DeliveryTypeOK
  <2>3. TokensTypeOK' BY <1>0, <1>1 DEF Load, TokensTypeOK, ConsoleAssumption
  <2> QED BY <2>1, <2>2, <2>3
<1>2. ASSUME NEW r \in Requests, Commit(r)
      PROVE  RequestsTypeOK' /\ DeliveryTypeOK' /\ TokensTypeOK'
  <2>1. RequestsTypeOK' BY <1>0, <1>2, CommitTypes DEF Commit
  <2>2. DeliveryTypeOK' BY <1>0, <1>2, DeliveryTypes DEF Commit
  <2>3. downSince' \in [Profiles -> 0..MaxTime]
    BY <1>0, <1>2 DEF Commit, TokensTypeOK, TokensAssumption
  <2>4. TokensTypeOK' BY <1>0, <1>2, <2>3 DEF Commit, TokensTypeOK
  <2> QED BY <2>1, <2>2, <2>4
<1>3. ASSUME NEW r \in Requests, GiveUp(r)
      PROVE  RequestsTypeOK' /\ DeliveryTypeOK' /\ TokensTypeOK'
  <2>1. request' \in [Requests -> Request]
    BY <1>0, <1>3, AnsweredType DEF GiveUp, UpdateRefused, RequestFails
  <2>2. RequestsTypeOK'
    BY <1>0, <1>3, <2>1 DEF GiveUp, UpdateRefused, RequestFails, RequestsTypeOK, Request
  <2> QED BY <1>0, <1>3, <2>2 DEF GiveUp, DeliveryTypeOK, TokensTypeOK
<1>4. ASSUME NEW r \in Requests, IssueToken(r)
      PROVE  RequestsTypeOK' /\ DeliveryTypeOK' /\ TokensTypeOK'
  <2>1. request' \in [Requests -> Request]
    BY <1>0, <1>4, AnsweredType DEF IssueToken
  <2>2. RequestsTypeOK' BY <1>0, <1>4, <2>1 DEF IssueToken, RequestsTypeOK, Request
  <2>3. TokensTypeOK'
    <3>1. request[r].profile \in Profiles BY <1>0 DEF RequestsTypeOK
    <3> QED BY <1>0, <1>4, <3>1 DEF IssueToken, Issue, TokensTypeOK
  <2> QED BY <1>0, <1>4, <2>2, <2>3 DEF IssueToken, DeliveryTypeOK
<1>5. CASE Clock
  <2>1. age' \in [Requests -> 0..MaxDelay]
    BY <1>0, <1>5 DEF Clock, TokensTypeOK, ConsoleAssumption
  <2>2. TokensTypeOK' BY <1>0, <1>5, <2>1 DEF Clock, Tick, TokensTypeOK, TokensAssumption
  <2> QED BY <1>0, <1>5, <2>2 DEF Clock, RequestsTypeOK, DeliveryTypeOK
<1>6. CASE Delivery
  <2>1. DeliveryTypeOK' BY <1>0, <1>6, DeliveryTypes DEF Delivery, Flush
  <2> QED BY <1>0, <1>6, <2>1 DEF Delivery, RequestsTypeOK, TokensTypeOK
<1>7. CASE RestartServer
  <2>1. DeliveryTypeOK' BY <1>0, <1>7, DeliveryTypes DEF RestartServer
  <2>2. RequestsTypeOK'
    BY <1>0, <1>7, FreeType DEF RestartServer, RequestsTypeOK, Request
  <2> QED BY <1>0, <1>7, <2>1, <2>2 DEF RestartServer, TokensTypeOK
<1>8. CASE UNCHANGED vars
  BY <1>0, <1>8 DEF vars, RequestsTypeOK, DeliveryTypeOK, TokensTypeOK
<1> QED BY <1>1, <1>2, <1>3, <1>4, <1>5, <1>6, <1>7, <1>8 DEF Next

\* Type correctness of the composition.
THEOREM ConsoleTypes == Spec => []TypeOK
<1>1. Init => TypeOK BY TypeInit
<1>2. TypeOK /\ [Next]_vars => TypeOK' BY TypeStep
<1> QED BY <1>1, <1>2, PTL DEF Spec

-----------------------------------------------------------------------------
(* Requests.                                                               *)

\* Fields that a request does not name and no other write overtook are those of the
\* row still.
LoadedIsCurrent ==
    \A r \in Requests, f \in Fields :
        Loaded(r, "update") /\ ~request[r].overtaken /\ f \notin request[r].named
            => request[r].fields[f] = row.fields[f]

RequestsIInv == DesiredFollowsRow /\ LoadedIsCurrent

LEMMA RequestsInitially == Init => RequestsIInv
<1> SUFFICES ASSUME Init PROVE RequestsIInv
  OBVIOUS
<1>1. RequestsTypeOK BY TypeInit DEF TypeOK
<1>2. row.deleted = FALSE /\ desired = Queued(row.fields["enabled"], row.fields)
  BY DEF Init, RequestsInit
<1>3. DesiredFollowsRow BY <1>1, <1>2 DEF DesiredFollowsRow, Queued, Served, RequestsTypeOK, Fields
<1>4. \A r \in Requests : request[r].at = "free" BY DEF Init, RequestsInit, Free
<1> QED BY <1>3, <1>4 DEF RequestsIInv, LoadedIsCurrent, Loaded

\* A transaction keeps the desired state with the row, and overtakes the others.
LEMMA CommitKeepsRequests ==
    ASSUME TypeOK, RequestsIInv, NEW r \in Requests, UpdateCamera(r) \/ DeleteCamera(r)
    PROVE  RequestsIInv'
<1>1. RequestsTypeOK BY DEF TypeOK
<1>2. DesiredFollowsRow'
  <2>1. CASE UpdateCamera(r)
    BY <1>1, <2>1 DEF UpdateCamera, Updated, DesiredFollowsRow, Queued, Served, RequestsTypeOK,
                      Fields
  <2>2. CASE DeleteCamera(r)
    BY <1>1, <2>2 DEF DeleteCamera, DesiredFollowsRow, Queued, Served, RequestsTypeOK
  <2> QED BY <2>1, <2>2
<1>3. LoadedIsCurrent'
  <2> SUFFICES ASSUME NEW q \in Requests, Loaded(q, "update")', ~request'[q].overtaken
               PROVE  FALSE
    BY DEF LoadedIsCurrent
  <2>1. request' = Overtaken(r) BY DEF UpdateCamera, DeleteCamera
  <2>2. q # r BY <2>1 DEF Overtaken, Loaded, Free
  <2>3. /\ request'[q].at = request[q].at /\ request'[q].kind = request[q].kind
        /\ request'[q].overtaken = (request[q].overtaken \/ Loaded(q, "update"))
    BY <1>1, <2>1, <2>2 DEF Overtaken, RequestsTypeOK
  <2> QED BY <2>3 DEF Loaded
<1> QED BY <1>2, <1>3 DEF RequestsIInv

\* A load takes the fields as they are.
LEMMA LoadKeepsRequests ==
    ASSUME TypeOK, RequestsIInv, NEW r \in Requests, Load(r)
    PROVE  RequestsIInv'
<1>1. RequestsTypeOK BY DEF TypeOK
<1>2. DesiredFollowsRow'
  BY DEF Load, LoadForUpdate, LoadForDelete, LoadForTicket, LoadForPlayback, RequestsIInv,
         DesiredFollowsRow, Served
<1>3. LoadedIsCurrent'
  <2> SUFFICES ASSUME NEW q \in Requests, NEW f \in Fields, Loaded(q, "update")',
                      ~request'[q].overtaken, f \notin request'[q].named
               PROVE  request'[q].fields[f] = row'.fields[f]
    BY DEF LoadedIsCurrent
  <2>1. row' = row
    BY DEF Load, LoadForUpdate, LoadForDelete, LoadForTicket, LoadForPlayback
  <2>2. CASE q # r
    <3>1. request'[q] = request[q]
      BY <1>1, <2>2 DEF Load, LoadForUpdate, LoadForDelete, LoadForTicket, LoadForPlayback,
                        RequestsTypeOK
    <3> QED BY <2>1, <3>1 DEF RequestsIInv, LoadedIsCurrent, Loaded
  <2>3. CASE q = r
    <3>1. PICK patch \in Patches : LoadForUpdate(r, patch)
      <4>1. request'[r].kind = "update" BY <2>3 DEF Loaded
      <4>0. r \in DOMAIN request BY <1>1 DEF RequestsTypeOK
      <4>2. ~LoadForDelete(r)
        <5> SUFFICES ASSUME LoadForDelete(r) PROVE request'[r].kind = "delete"
          BY <4>1
        <5> QED BY <4>0 DEF LoadForDelete, Free
      <4>3. ASSUME NEW profile \in Profiles PROVE ~LoadForTicket(r, profile)
        <5> SUFFICES ASSUME LoadForTicket(r, profile) PROVE request'[r].kind = "read"
          BY <4>1
        <5> QED BY <4>0 DEF LoadForTicket, Free
      <4>4. ASSUME NEW profile \in Profiles PROVE ~LoadForPlayback(r, profile)
        <5> SUFFICES ASSUME LoadForPlayback(r, profile) PROVE request'[r].kind = "playback"
          BY <4>1
        <5> QED BY <4>0 DEF LoadForPlayback, Free
      <4> QED BY <4>2, <4>3, <4>4 DEF Load
    <3>2. request'[r].named = DOMAIN patch /\ request'[r].fields = Merged(patch, row.fields)
      BY <1>1, <3>1 DEF LoadForUpdate, Free, RequestsTypeOK
    <3> QED BY <2>1, <2>3, <3>2 DEF Merged
  <2> QED BY <2>2, <2>3
<1> QED BY <1>2, <1>3 DEF RequestsIInv

\* What is over is not loaded.
LEMMA AnswerKeepsRequests ==
    ASSUME TypeOK, RequestsIInv, NEW r \in Requests, request' = Answered(r),
           UNCHANGED <<row, desired>>
    PROVE  RequestsIInv'
<1>1. DesiredFollowsRow' BY DEF RequestsIInv, DesiredFollowsRow, Served
<1>2. ASSUME NEW q \in Requests
      PROVE  request'[q] = Free \/ request'[q] = request[q]
  BY DEF Answered, TypeOK, RequestsTypeOK
<1>3. LoadedIsCurrent'
  BY <1>2 DEF RequestsIInv, LoadedIsCurrent, Loaded, Free
<1> QED BY <1>1, <1>3 DEF RequestsIInv

LEMMA RequestsStep == TypeOK /\ RequestsIInv /\ [Next]_vars => RequestsIInv'
<1> SUFFICES ASSUME TypeOK, RequestsIInv, [Next]_vars PROVE RequestsIInv'
  OBVIOUS
<1>1. ASSUME UNCHANGED cameraVars PROVE RequestsIInv'
  BY <1>1 DEF cameraVars, RequestsIInv, DesiredFollowsRow, Served, LoadedIsCurrent, Loaded
<1>2. ASSUME NEW r \in Requests, Load(r) PROVE RequestsIInv'
  BY <1>2, LoadKeepsRequests
<1>3. ASSUME NEW r \in Requests, Commit(r) PROVE RequestsIInv'
  BY <1>3, CommitKeepsRequests DEF Commit
<1>4. ASSUME NEW r \in Requests, GiveUp(r) PROVE RequestsIInv'
  BY <1>4, AnswerKeepsRequests DEF GiveUp, UpdateRefused, RequestFails
<1>5. ASSUME NEW r \in Requests, IssueToken(r) PROVE RequestsIInv'
  BY <1>5, AnswerKeepsRequests DEF IssueToken
<1>6. CASE RestartServer
  BY <1>6 DEF RestartServer, RequestsIInv, DesiredFollowsRow, Served, LoadedIsCurrent, Loaded, Free
<1>7. CASE Clock BY <1>1, <1>7 DEF Clock
<1>8. CASE Delivery BY <1>1, <1>8 DEF Delivery
<1>9. CASE UNCHANGED vars BY <1>1, <1>9 DEF vars
<1> QED BY <1>2, <1>3, <1>4, <1>5, <1>6, <1>7, <1>8, <1>9 DEF Next

LEMMA RequestsAlways == Spec => [](TypeOK /\ RequestsIInv)
<1>1. Init => RequestsIInv BY RequestsInitially
<1>2. TypeOK /\ RequestsIInv /\ [Next]_vars => RequestsIInv' BY RequestsStep
<1> QED BY <1>1, <1>2, ConsoleTypes, PTL DEF Spec

\* What MediaMTX is asked to serve is what the row says, whatever requests overlap
\* (update_camera, delete_camera, queue_camera_change).
THEOREM DesiredStateFollowsRow == Spec => []DesiredFollowsRow
<1>1. TypeOK /\ RequestsIInv => DesiredFollowsRow BY DEF RequestsIInv
<1> QED BY <1>1, RequestsAlways, PTL

\* An update loses only updates it overlaps with (update_camera).
THEOREM UpdatesAreKept == Spec => LostUpdatesOverlap
<1> DEFINE Kept == \A f \in Fields : row'.fields[f] # row.fields[f] =>
                     \E r \in Requests :
                       /\ Loaded(r, "update") /\ request'[r].at = "free"
                       /\ f \in request[r].named \/ request[r].overtaken
<1>1. TypeOK /\ RequestsIInv /\ [Next]_vars => [Kept]_cameraVars
  <2> SUFFICES ASSUME TypeOK, RequestsIInv, [Next]_vars,
                      NEW f \in Fields, row'.fields[f] # row.fields[f]
               PROVE  \E r \in Requests :
                        /\ Loaded(r, "update") /\ request'[r].at = "free"
                        /\ f \in request[r].named \/ request[r].overtaken
    OBVIOUS
  <2>0. RequestsTypeOK BY DEF TypeOK
  <2>1. row' # row OBVIOUS
  <2>2. PICK r \in Requests : UpdateCamera(r) \/ DeleteCamera(r)
    BY <2>1 DEF Next, vars, cameraVars, Load, LoadForUpdate, LoadForDelete, LoadForTicket,
                LoadForPlayback, Commit, GiveUp, UpdateRefused, RequestFails, IssueToken, Clock,
                Delivery, RestartServer
  <2>3. UpdateCamera(r) BY <2>0, <2>2 DEF DeleteCamera, RequestsTypeOK
  <2>4. request'[r].at = "free" BY <2>3 DEF UpdateCamera, Overtaken, Free
  <2>5. row'.fields[f] = request[r].fields[f] BY <2>0, <2>3 DEF UpdateCamera, RequestsTypeOK
  <2>6. Loaded(r, "update") BY <2>3 DEF UpdateCamera
  <2> QED BY <2>4, <2>5, <2>6 DEF RequestsIInv, LoadedIsCurrent
<1> QED BY <1>1, RequestsAlways, PTL DEF LostUpdatesOverlap, Spec

-----------------------------------------------------------------------------
(* The audit log.                                                          *)

DeliveryIInv ==
    /\ outbox \cup audit \subseteq 1..happened
    /\ outbox \cap audit = {}
    /\ batch \subseteq outbox

LEMMA DeliveryInitially == Init => DeliveryIInv
  BY DEF Init, DeliveryInit, DeliveryIInv

\* Every step of the delivery is one of the abstract log, or none.
LEMMA DeliveryRefines ==
    ASSUME DeliveryTypeOK, DeliveryIInv, Happen \/ BeginFlush \/ Deliver \/ FlushFails \/ Restart
    PROVE  DeliveryIInv' /\ [Log!Next]_<<outbox, audit>>
<1>1. CASE Happen
  <2> DEFINE e == happened + 1
  <2>1. e \in 1..MaxEvents /\ e \notin outbox \cup audit
    BY <1>1 DEF Happen, DeliveryTypeOK, DeliveryIInv, DeliveryAssumption
  <2>2. Log!Happen(e) BY <1>1, <2>1 DEF Happen, Log!Happen
  <2>3. DeliveryIInv' BY <1>1, <2>1 DEF Happen, DeliveryTypeOK, DeliveryIInv
  <2> QED BY <2>1, <2>2, <2>3 DEF Log!Next
<1>2. CASE BeginFlush BY <1>2 DEF BeginFlush, Oldest, DeliveryIInv
<1>3. CASE Deliver
  <2>1. PICK e \in batch : /\ audit' = audit \cup {e} /\ outbox' = outbox \ {e}
                           /\ batch' = batch \ {e} /\ happened' = happened
    BY <1>3 DEF Deliver
  <2>2. Log!Log(e) BY <2>1 DEF Log!Log, DeliveryIInv
  <2>3. e \in 1..MaxEvents BY DEF DeliveryTypeOK, Events
  <2>4. DeliveryIInv' BY <2>1 DEF DeliveryIInv
  <2> QED BY <2>2, <2>3, <2>4 DEF Log!Next
<1>4. CASE FlushFails BY <1>4 DEF FlushFails, DeliveryIInv
<1>5. CASE Restart BY <1>5 DEF Restart, DeliveryIInv
<1> QED BY <1>1, <1>2, <1>3, <1>4, <1>5

\* The outbox and audit_logs implement the audit log, whatever errors and restarts
\* come between the batches and within them (flush_operation_audit).
THEOREM DeliveryImplementsAuditLog == Spec => ImplementsAuditLog
<1>1. Init => Log!Init BY DEF Init, DeliveryInit, Log!Init
<1>2. TypeOK /\ DeliveryIInv /\ [Next]_vars => DeliveryIInv' /\ [Log!Next]_<<outbox, audit>>
  <2> SUFFICES ASSUME TypeOK, DeliveryIInv, [Next]_vars
               PROVE  DeliveryIInv' /\ [Log!Next]_<<outbox, audit>>
    OBVIOUS
  <2>1. \/ Happen \/ BeginFlush \/ Deliver \/ FlushFails \/ Restart
        \/ UNCHANGED auditVars
    BY DEF Next, vars, Load, Commit, GiveUp, IssueToken, Clock, Delivery, Flush, RestartServer
  <2>2. CASE UNCHANGED auditVars BY <2>2 DEF auditVars, DeliveryIInv
  <2> QED BY <2>1, <2>2, DeliveryRefines DEF TypeOK
<1> QED BY <1>1, <1>2, ConsoleTypes, DeliveryInitially, PTL DEF ImplementsAuditLog, Log!Spec, Spec

-----------------------------------------------------------------------------
(* Tokens.                                                                 *)

Span == Lifetime * TicksPerSecond

\* Every token was issued at some time.
IssuedBefore ==
    \A k \in tokens : \E a \in {"read", "playback"}, p \in Profiles, t \in 0..now :
        k = Token(a, p, t)

\* A ticket whose path was taken away since it loaded the row has been waiting since.
TicketsAreRecent ==
    \A r \in Requests :
        Loaded(r, "read") /\ ~Served(request[r].profile)
            => now <= downSince[request[r].profile] + age[r]

\* A token was issued before its path was taken away, or the longest delay after it.
TokensAreRecent ==
    \A k \in tokens :
        k.action = "read" /\ ~Served(k.path)
            => k.expires_at <= downSince[k.path] + MaxDelay + Span

TokensIInv == IssuedBefore /\ TicketsAreRecent /\ TokensAreRecent

LEMMA TokenFields ==
    ASSUME NEW a, NEW p, NEW t \in Nat
    PROVE  /\ Token(a, p, t).action = a /\ Token(a, p, t).path = p
           /\ Token(a, p, t).expires_at = t + Span
  BY DEF Token, ExpiresAt, Span

LEMMA SpanType == Span \in Nat
  BY DEF Span

LEMMA TokensInitially == Init => TokensIInv
  BY DEF Init, RequestsInit, TokensInit, TokensIInv, IssuedBefore, TicketsAreRecent,
         TokensAreRecent, Loaded, Free

\* A transaction that takes a path away does it now.
LEMMA CommitKeepsTokens ==
    ASSUME TypeOK, TokensIInv, NEW r \in Requests, Commit(r)
    PROVE  TokensIInv'
<1>1. RequestsTypeOK /\ TokensTypeOK BY DEF TypeOK, TokensTypeOK
<1>2. now' = now /\ tokens' = tokens /\ age' = age BY DEF Commit, tokenVars
<1>3. ASSUME NEW p \in Profiles, ~Served(p)'
      PROVE  IF Served(p) THEN downSince'[p] = now ELSE downSince'[p] = downSince[p]
  BY <1>3 DEF Commit
<1>4. IssuedBefore' BY <1>2 DEF TokensIInv, IssuedBefore
<1>5. TicketsAreRecent'
  <2>1. ASSUME NEW q \in Requests, Loaded(q, "read")'
        PROVE  Loaded(q, "read") /\ request'[q].profile = request[q].profile
    <3>1. request' = Overtaken(r) BY DEF Commit, UpdateCamera, DeleteCamera
    <3>2. q # r BY <2>1, <3>1 DEF Overtaken, Loaded, Free
    <3>3. /\ request'[q].at = request[q].at /\ request'[q].kind = request[q].kind
          /\ request'[q].profile = request[q].profile
      BY <1>1, <3>1, <3>2 DEF Overtaken, RequestsTypeOK
    <3> QED BY <2>1, <3>3 DEF Loaded
  <2>2. ASSUME NEW q \in Requests, Loaded(q, "read"), NEW p \in Profiles,
               p = request[q].profile, ~Served(p)'
        PROVE  now <= downSince'[p] + age[q]
    <3>1. now \in Nat /\ age[q] \in Nat BY <1>1 DEF TokensTypeOK
    <3>2. CASE Served(p) BY <1>3, <2>2, <3>1, <3>2
    <3>3. CASE ~Served(p)
      <4>1. downSince'[p] = downSince[p] BY <1>3, <2>2, <3>3
      <4> QED BY <2>2, <3>3, <4>1 DEF TokensIInv, TicketsAreRecent
    <3> QED BY <3>2, <3>3
  <2>3. ASSUME NEW q \in Requests, Loaded(q, "read")', ~Served(request[q].profile)'
        PROVE  now' <= downSince'[request'[q].profile] + age'[q]
    <3> DEFINE p == request[q].profile
    <3>1. p \in Profiles BY <1>1 DEF RequestsTypeOK
    <3>2. p = request'[q].profile /\ Loaded(q, "read") BY <2>1, <2>3
    <3> HIDE DEF p
    <3>3. ~Served(p)' BY <2>3, <3>2 DEF Served, p
    <3>4. now <= downSince'[p] + age[q] BY <2>2, <3>1, <3>2, <3>3 DEF p
    <3> QED BY <1>2, <3>2, <3>4
  <2> QED BY <2>3 DEF TicketsAreRecent
<1>6. TokensAreRecent'
  <2> SUFFICES ASSUME NEW k \in tokens, k.action = "read", ~Served(k.path)'
               PROVE  k.expires_at <= downSince'[k.path] + MaxDelay + Span
    BY <1>2 DEF TokensAreRecent
  <2>1. PICK a \in {"read", "playback"}, p \in Profiles, t \in 0..now : k = Token(a, p, t)
    BY DEF TokensIInv, IssuedBefore
  <2>2. k.path \in Profiles /\ k.expires_at = t + Span /\ t \in Nat /\ now \in Nat
    BY <1>1, <2>1, TokenFields DEF TokensTypeOK
  <2>3. CASE Served(k.path)
    <3>1. downSince'[k.path] = now BY <1>3, <2>2, <2>3
    <3> QED BY <2>1, <2>2, <3>1, SpanType, ConsoleAssumption DEF ConsoleAssumption
  <2>4. CASE ~Served(k.path)
    <3>1. downSince'[k.path] = downSince[k.path] BY <1>3, <2>2, <2>4
    <3> QED BY <2>4, <3>1 DEF TokensIInv, TokensAreRecent
  <2> QED BY <2>3, <2>4
<1> QED BY <1>4, <1>5, <1>6 DEF TokensIInv

\* A ticket is loaded only while its path is served.
LEMMA LoadKeepsTokens ==
    ASSUME TypeOK, TokensIInv, NEW r \in Requests, Load(r)
    PROVE  TokensIInv'
<1>1. RequestsTypeOK /\ TokensTypeOK BY DEF TypeOK, TokensTypeOK
<1>2. /\ now' = now /\ tokens' = tokens /\ downSince' = downSince /\ row' = row
      /\ age' = [age EXCEPT ![r] = 0]
  BY DEF Load, tokenVars, LoadForUpdate, LoadForDelete, LoadForTicket, LoadForPlayback
<1>3. \A p : Served(p)' <=> Served(p) BY <1>2 DEF Served
<1>4. IssuedBefore' /\ TokensAreRecent'
  BY <1>2, <1>3 DEF TokensIInv, IssuedBefore, TokensAreRecent
<1>5. TicketsAreRecent'
  <2> SUFFICES ASSUME NEW q \in Requests, Loaded(q, "read")', ~Served(request'[q].profile)
               PROVE  now <= downSince[request'[q].profile] + age'[q]
    BY <1>2 DEF TicketsAreRecent, Served
  <2>0. r \in DOMAIN request BY <1>1 DEF RequestsTypeOK
  <2>1. CASE q = r
    <3>1. request'[r].kind = "read" BY <2>1 DEF Loaded
    <3>2. ASSUME NEW patch \in Patches PROVE ~LoadForUpdate(r, patch)
      <4> SUFFICES ASSUME LoadForUpdate(r, patch) PROVE request'[r].kind = "update"
        BY <3>1
      <4> QED BY <2>0 DEF LoadForUpdate, Free
    <3>3. ~LoadForDelete(r)
      <4> SUFFICES ASSUME LoadForDelete(r) PROVE request'[r].kind = "delete"
        BY <3>1
      <4> QED BY <2>0 DEF LoadForDelete, Free
    <3>4. ASSUME NEW profile \in Profiles PROVE ~LoadForPlayback(r, profile)
      <4> SUFFICES ASSUME LoadForPlayback(r, profile) PROVE request'[r].kind = "playback"
        BY <3>1
      <4> QED BY <2>0 DEF LoadForPlayback, Free
    <3>5. PICK profile \in Profiles : LoadForTicket(r, profile)
      BY <3>2, <3>3, <3>4 DEF Load
    <3>6. request'[r].profile = profile BY <2>0, <3>5 DEF LoadForTicket, Free
    <3>7. Served(profile) BY <3>5 DEF LoadForTicket, Loading, MayRead, Served
    <3> QED BY <2>1, <3>6, <3>7
  <2>2. CASE q # r
    <3>0. \E free : request' = [request EXCEPT ![r] = free]
      BY Zenon DEF Load, LoadForUpdate, LoadForDelete, LoadForTicket, LoadForPlayback
    <3>1. request'[q] = request[q] /\ age'[q] = age[q]
      BY <1>1, <1>2, <2>2, <3>0 DEF RequestsTypeOK, TokensTypeOK
    <3> QED BY <3>1 DEF TokensIInv, TicketsAreRecent, Loaded
  <2> QED BY <2>1, <2>2
<1> QED BY <1>4, <1>5 DEF TokensIInv

\* A token is issued at most the longest delay after its row was loaded.
LEMMA IssueKeepsTokens ==
    ASSUME TypeOK, TokensIInv, NEW r \in Requests, IssueToken(r)
    PROVE  TokensIInv'
<1>1. RequestsTypeOK /\ TokensTypeOK BY DEF TypeOK, TokensTypeOK
<1>2. PICK action \in {"read", "playback"} :
        Loaded(r, action) /\ Issue(action, request[r].profile)
  BY DEF IssueToken
<1> DEFINE profile == request[r].profile
           new == Token(action, profile, now)
<1>3. /\ now' = now /\ downSince' = downSince /\ row' = row /\ age' = age
      /\ tokens' = tokens \cup {new} /\ request' = Answered(r)
  BY <1>2 DEF IssueToken, Issue
<1>4. now \in Nat /\ profile \in Profiles BY <1>1 DEF RequestsTypeOK, TokensTypeOK
<1>5. \A p : Served(p)' <=> Served(p) BY <1>3 DEF Served
<1>6. IssuedBefore' BY <1>3, <1>4 DEF TokensIInv, IssuedBefore
<1>7. TicketsAreRecent'
  <2>1. ASSUME NEW q \in Requests, Loaded(q, "read")'
        PROVE  request'[q] = request[q]
    BY <1>1, <1>3, <2>1 DEF Answered, Free, Loaded, RequestsTypeOK
  <2> QED BY <1>3, <1>5, <2>1 DEF TokensIInv, TicketsAreRecent, Loaded, Served
<1>8. TokensAreRecent'
  <2> SUFFICES ASSUME action = "read", ~Served(profile)
               PROVE  new.expires_at <= downSince[profile] + MaxDelay + Span
    <3>1. new.action = action /\ new.path = profile BY <1>4, TokenFields
    <3> QED BY <1>3, <1>5, <3>1 DEF TokensIInv, TokensAreRecent
  <2>1. now <= downSince[profile] + age[r] BY <1>2 DEF TokensIInv, TicketsAreRecent
  <2>2. new.expires_at = now + Span BY <1>4, TokenFields
  <2>3. age[r] \in 0..MaxDelay /\ downSince[profile] \in Nat
    BY <1>1, <1>4 DEF TokensTypeOK
  <2> HIDE DEF profile, new
  <2> QED BY <1>4, <2>1, <2>2, <2>3, SpanType, ConsoleAssumption DEF ConsoleAssumption
<1> QED BY <1>6, <1>7, <1>8 DEF TokensIInv

LEMMA ClockKeepsTokens ==
    ASSUME TypeOK, TokensIInv, Clock
    PROVE  TokensIInv'
<1>1. RequestsTypeOK /\ TokensTypeOK BY DEF TypeOK, TokensTypeOK
<1>2. /\ now' = now + 1 /\ downSince' = downSince /\ row' = row /\ tokens' = tokens
      /\ request' = request
      /\ age' = [r \in Requests |-> IF Waiting(r) THEN age[r] + 1 ELSE age[r]]
  BY DEF Clock, Tick, cameraVars
<1>3. \A p : Served(p)' <=> Served(p) BY <1>2 DEF Served
<1>4. IssuedBefore'
  <2>1. 0..now \subseteq 0..now' BY <1>1, <1>2 DEF TokensTypeOK
  <2> QED BY <1>2, <2>1 DEF TokensIInv, IssuedBefore
<1>5. TokensAreRecent' BY <1>2, <1>3 DEF TokensIInv, TokensAreRecent
<1>6. TicketsAreRecent'
  <2> SUFFICES ASSUME NEW q \in Requests, Loaded(q, "read"), ~Served(request[q].profile)
               PROVE  now + 1 <= downSince[request[q].profile] + age'[q]
    BY <1>2, <1>3 DEF TicketsAreRecent, Loaded, Served
  <2>1. age'[q] = age[q] + 1 BY <1>2 DEF Waiting
  <2>2. now <= downSince[request[q].profile] + age[q]
    BY DEF TokensIInv, TicketsAreRecent
  <2>3. request[q].profile \in Profiles BY <1>1 DEF RequestsTypeOK
  <2>4. now \in Nat /\ age[q] \in Nat /\ downSince[request[q].profile] \in Nat
    BY <1>1, <2>3 DEF TokensTypeOK
  <2> QED BY <2>1, <2>2, <2>4
<1> QED BY <1>4, <1>5, <1>6 DEF TokensIInv

LEMMA TokensStep == TypeOK /\ TokensIInv /\ [Next]_vars => TokensIInv'
<1> SUFFICES ASSUME TypeOK, TokensIInv, [Next]_vars PROVE TokensIInv'
  OBVIOUS
<1>1. ASSUME UNCHANGED <<row, tokenVars, age, downSince>>,
             \A q \in Requests : Loaded(q, "read")' => request'[q] = request[q]
      PROVE  TokensIInv'
  BY <1>1 DEF tokenVars, TokensIInv, IssuedBefore, TicketsAreRecent, TokensAreRecent, Served, Loaded
<1>2. ASSUME NEW r \in Requests, GiveUp(r) PROVE TokensIInv'
  <2>1. \A q \in Requests : Loaded(q, "read")' => request'[q] = request[q]
    BY <1>2 DEF GiveUp, UpdateRefused, RequestFails, Answered, Loaded, Free, TypeOK, RequestsTypeOK
  <2> QED BY <1>1, <1>2, <2>1 DEF GiveUp, UpdateRefused, RequestFails
<1>3. CASE Delivery BY <1>1, <1>3 DEF Delivery, cameraVars
<1>4. CASE RestartServer BY <1>1, <1>4 DEF RestartServer, Loaded, Free
<1>5. CASE UNCHANGED vars BY <1>1, <1>5 DEF vars, cameraVars
<1> QED BY <1>2, <1>3, <1>4, <1>5, LoadKeepsTokens, CommitKeepsTokens, IssueKeepsTokens,
           ClockKeepsTokens DEF Next

LEMMA TokensAlways == Spec => [](TypeOK /\ TokensIInv)
<1>1. Init => TokensIInv BY TokensInitially
<1>2. TypeOK /\ TokensIInv /\ [Next]_vars => TokensIInv' BY TokensStep
<1> QED BY <1>1, <1>2, ConsoleTypes, PTL DEF Spec

\* A token is good until the client was told it expires, and less than a second more
\* (issue_media_token, decode_media_token).
THEOREM TokensAreGoodUntilExpiry == Spec => []TokenIsGoodUntilExpiry
<1>1. TypeOK /\ TokensIInv => TokenIsGoodUntilExpiry
  <2> SUFFICES ASSUME TypeOK, TokensIInv, NEW k \in tokens, NEW t \in Later
               PROVE  /\ t <= k.expires_at => Authorised(k, k.action, k.path, t)
                      /\ Authorised(k, k.action, k.path, t) => t < k.expires_at + TicksPerSecond
    BY DEF TokenIsGoodUntilExpiry
  <2>1. PICK a \in {"read", "playback"}, p \in Profiles, i \in 0..now : k = Token(a, p, i)
    BY DEF TokensIInv, IssuedBefore
  <2>2. now \in Nat /\ t \in Nat /\ i \in Nat /\ i <= t BY DEF TypeOK, Later
  <2>3. /\ i <= t /\ t <= k.expires_at => Decoded(k, t)
        /\ Decoded(k, t) => t < k.expires_at + TicksPerSecond
    BY <2>1, <2>2, TokenHonoured
  <2> QED BY <2>2, <2>3 DEF Authorised
<1> QED BY <1>1, TokensAlways, PTL

\* What was taken away is not read much longer than a token lives (stream_ticket,
\* media_auth).
THEOREM ReadTokensEndWithCamera == Spec => []ReadTokenEndsWithCamera
<1>1. TypeOK /\ TokensIInv => ReadTokenEndsWithCamera
  <2> SUFFICES ASSUME TypeOK, TokensIInv, NEW k \in tokens, NEW p \in Profiles, NEW t \in Later,
                      Authorised(k, "read", p, t), ~Served(p)
               PROVE  t - downSince[p] < (Lifetime + 1) * TicksPerSecond + MaxDelay
    BY DEF ReadTokenEndsWithCamera
  <2>1. PICK a \in {"read", "playback"}, q \in Profiles, i \in 0..now : k = Token(a, q, i)
    BY DEF TokensIInv, IssuedBefore
  <2>2. now \in Nat /\ t \in Nat /\ i \in Nat /\ downSince[p] \in Nat
    BY DEF TypeOK, Later
  <2>3. t < k.expires_at + TicksPerSecond BY <2>1, <2>2, TokenHonoured DEF Authorised
  <2>4. k.expires_at = i + Span BY <2>1, <2>2, TokenFields
  <2>5. k.expires_at <= downSince[p] + MaxDelay + Span
    BY DEF Authorised, TokensIInv, TokensAreRecent
  <2>6. (Lifetime + 1) * TicksPerSecond = Span + TicksPerSecond BY DEF Span
  <2> QED BY <2>2, <2>3, <2>4, <2>5, <2>6, SpanType
<1> QED BY <1>1, TokensAlways, PTL
=============================================================================
