------------------------------- MODULE Console -------------------------------
(***************************************************************************)
(* The requests about a camera, the tokens they issue and the audit of the *)
(* operations they queue, composed: they share the server's database and   *)
(* its clock.                                                              *)
(***************************************************************************)
EXTENDS CameraRequests, MediaTokens, AuditDelivery

CONSTANTS
    MaxDelay     \* bound: ticks between a request's load and its token

ASSUME ConsoleAssumption == MaxDelay \in Nat

VARIABLES
    age,         \* ticks since each request loaded the row
    downSince    \* history: when each path was taken from the camera, 0 while it has it

vars == <<cameraVars, tokenVars, auditVars, age, downSince>>

TypeOK ==
    /\ RequestsTypeOK
    /\ DeliveryTypeOK
    /\ now \in 0..MaxTime
    /\ tokens \subseteq {Token(a, p, t) : a \in {"read", "playback"}, p \in Profiles,
                                          t \in 0..MaxTime}
    /\ age \in [Requests -> 0..MaxDelay]
    /\ downSince \in [Profiles -> 0..MaxTime]

Init ==
    /\ RequestsInit
    /\ TokensInit
    /\ DeliveryInit
    /\ age = [r \in Requests |-> 0]
    /\ downSince = [p \in Profiles |-> 0]

Waiting(r) == Loaded(r, "read") \/ Loaded(r, "playback")

Load(r) ==
    /\ \/ \E patch \in Patches : LoadForUpdate(r, patch)
       \/ LoadForDelete(r)
       \/ /\ Cardinality(tokens) + Cardinality({q \in Requests : Waiting(q)}) < MaxTokens
          /\ \E profile \in Profiles : LoadForTicket(r, profile) \/ LoadForPlayback(r, profile)
    /\ age' = [age EXCEPT ![r] = 0]
    /\ UNCHANGED <<tokenVars, auditVars, downSince>>

\* The transaction of a request queues an operation, which leaves an event; the
\* events of the operation's later transitions are no different.
Commit(r) ==
    /\ UpdateCamera(r) \/ DeleteCamera(r)
    /\ Happen
    /\ downSince' = [p \in Profiles |->
           CASE Served(p)' -> 0
             [] ~Served(p)' /\ Served(p) -> now
             [] OTHER -> downSince[p]]
    /\ UNCHANGED <<tokenVars, age>>

GiveUp(r) ==
    /\ UpdateRefused(r) \/ RequestFails(r)
    /\ UNCHANGED <<tokenVars, auditVars, age, downSince>>

\* The end of stream_ticket, list_recordings and play_recording; nothing is awaited
\* between the row they read and the token.
IssueToken(r) ==
    \E action \in {"read", "playback"} :
        /\ Loaded(r, action)
        /\ Issue(action, request[r].profile)
        /\ request' = Answered(r)
        /\ UNCHANGED <<row, desired, auditVars, age, downSince>>

Clock ==
    /\ Tick
    /\ \A r \in Requests : Waiting(r) => age[r] < MaxDelay
    /\ age' = [r \in Requests |-> IF Waiting(r) THEN age[r] + 1 ELSE age[r]]
    /\ UNCHANGED <<cameraVars, auditVars, downSince>>

Delivery ==
    /\ Flush \/ FlushFails
    /\ UNCHANGED <<cameraVars, tokenVars, age, downSince>>

\* A restart loses the requests that were being handled; the tokens stay good.
RestartServer ==
    /\ Restart
    /\ request' = [r \in Requests |-> Free]
    /\ UNCHANGED <<row, desired, tokenVars, age, downSince>>

Next ==
    \/ \E r \in Requests : Load(r) \/ Commit(r) \/ GiveUp(r) \/ IssueToken(r)
    \/ Clock
    \/ Delivery
    \/ RestartServer

\* operation_audit_loop ticks for as long as its task runs.
Spec ==
    /\ Init /\ [][Next]_vars
    /\ WF_vars(Flush /\ UNCHANGED <<cameraVars, tokenVars, age, downSince>>)

-----------------------------------------------------------------------------
\* A camera that is switched off or deleted, or a sub stream that is removed, is not
\* read on a token much longer than a token lives: the row a ticket is issued from
\* was up when it was loaded (stream_ticket, media_auth).
ReadTokenEndsWithCamera ==
    \A k \in tokens, p \in Profiles, t \in Later :
        Authorised(k, "read", p, t) /\ ~Served(p) =>
            t - downSince[p] < (Lifetime + 1) * TicksPerSecond + MaxDelay
=============================================================================
