----------------------------- MODULE MediaServing -----------------------------
(***************************************************************************)
(* What MediaMTX really has, beside what the reconciler records and        *)
(* reports: MediaReconciliation with a history variable.  MediaMTX knows   *)
(* neither generations nor leases, so nothing in it refuses a request of a *)
(* worker that has lost its claim, or one that nobody awaits any more.     *)
(* The history tells the paths that were changed in such a way, which the  *)
(* code cannot notice before it observes MediaMTX again, from those that   *)
(* must be what was reported.                                              *)
(***************************************************************************)
EXTENDS MediaReconciliation

VARIABLE
    disturbed   \* history: the paths last changed by a restart of MediaMTX, or by a
                \* request that no claim covered any more

servingVars == <<vars, disturbed>>

AllPaths == Cameras \X Profiles

ServingTypeOK == disturbed \in SUBSET AllPaths

\* The claim of a worker is still its own, whether its lease has run out or not.
HoldsClaim(w) ==
    ops[job[w].op].state = "running" /\ ops[job[w].op].owner = me[w]

\* The path of the request a worker is awaiting.
PathOf(w) == <<ops[job[w].op].camera, inflight[w].profile>>

ServingInit == Init /\ disturbed = {}

Executes(w) ==
    /\ MediaExecutes(w)
    /\ disturbed' = IF HoldsClaim(w) THEN disturbed \ {PathOf(w)}
                    ELSE disturbed \cup {PathOf(w)}

ExecutesLate(r) ==
    /\ MediaExecutesLate(r)
    /\ disturbed' = disturbed \cup {<<r.camera, r.profile>>}

Restarts == MediaRestarts /\ disturbed' = AllPaths

\* Everything else leaves the paths of MediaMTX as they are.
Others ==
    /\ \/ \E w \in Workers : Start(w) \/ Step(w) \/ MediaRefuses(w)
       \/ Requests \/ Time \/ Trouble
    /\ UNCHANGED disturbed

ServingNext ==
    \/ \E w \in Workers : Executes(w)
    \/ \E r \in orphans : ExecutesLate(r)
    \/ Restarts
    \/ Others

ServingSpec == ServingInit /\ [][ServingNext]_servingVars

-----------------------------------------------------------------------------
(* Properties.                                                             *)

\* When an operation is reported converged, MediaMTX has on both paths what the
\* request that committed the generation asked for, whatever leases ran out, unless
\* MediaMTX restarted meanwhile or executed a request whose claim was gone
\* (apply_desired and finish_success are separate, and MediaMTX is not fenced).
ConvergedIsServed ==
    [][\A o \in OpIds :
          /\ ops[o].result = "none"
          /\ ops'[o].result = "converged"
          => \A p \in Profiles :
               \/ media[ops[o].camera][p] = committed[ops[o].camera][ops[o].gen][p]
               \/ <<ops[o].camera, p>> \in disturbed]_servingVars

\* As long as no lease ran out under a live worker: a path that is on record with the
\* current generation is, at any time, what MediaMTX has, with the same exceptions.
\* Requests that commit a new generation, crashes and observations leave it so
\* (persist_observed_path, finish_success).
RecordIsServed ==
    stalls = 0 => \A c \in Cameras, p \in Profiles :
        /\ actual[c][p].gen # 0
        /\ actual[c][p].gen = desired[c].gen
        /\ <<c, p>> \notin disturbed
        => media[c][p] = committed[c][desired[c].gen][p]

-----------------------------------------------------------------------------
(* What makes them inductive (see MediaServingProofs).                     *)

\* A request under way is the one that the desired state and the row read ask for.
RequestsAreExpected ==
    \A w \in Workers : inflight[w].st # "none" =>
        /\ inflight[w].profile = Profile(w)
        /\ inflight[w].content = Expected(job[w].desired, job[w].config)[Profile(w)]

\* MediaMTX has executed the worker's request for a path.
Wrote(w, p) ==
    \/ pc[w] = "success"
    \/ pc[w] \in {"sub", "subWait"} /\ p = "main"
    \/ /\ pc[w] \in {"mainWait", "subWait"} /\ p = Profile(w)
       /\ inflight[w].st = "ok"

\* What a worker wrote stays while it has its claim: a camera has one claim.
WrittenIsServed ==
    \A w \in Workers, p \in Profiles :
        Wrote(w, p) /\ HoldsClaim(w) =>
            LET c == ops[job[w].op].camera IN
            \/ <<c, p>> \in disturbed
            \/ media[c][p] = Expected(job[w].desired, job[w].config)[p]

OneClaimPerCamera ==
    \A o, q \in OpIds : /\ Active(ops[o]) /\ Active(ops[q])
                        /\ ops[o].camera = ops[q].camera
                        => o = q

\* While a worker observes, no other one is in a pass: what it saw is still there.
Observed == {"desired", "cameras"} \cup Persisting
ObservedIsServed ==
    \A w \in Workers, c \in Cameras, p \in Profiles :
        pc[w] \in Observed /\ <<c, p>> \notin disturbed =>
            media[c][p] = obs[w].media[c][p]

\* A generation that is committed while an older one is being applied is not on record
\* before that is over.
ReplacedIsNotRecorded ==
    \A w \in Workers, p \in Profiles :
        LET c == ops[job[w].op].camera IN
        /\ pc[w] \in ReadDesired
        /\ job[w].desired.gen # desired[c].gen
        => actual[c][p].gen # desired[c].gen

ServingIInv ==
    /\ ServingTypeOK
    /\ RequestsAreExpected /\ WrittenIsServed /\ OneClaimPerCamera
    /\ stalls = 0 => ObservedIsServed /\ ReplacedIsNotRecorded
    /\ RecordIsServed
=============================================================================
