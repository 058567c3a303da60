--------------------------- MODULE OperationStore ---------------------------
(***************************************************************************)
(* The durable operation store of the Foundation crate, as far as the      *)
(* media reconciler uses it (SqliteOperationStore: enqueue_in,             *)
(* claim_next_in, apply_transition_owned_in, abandon_claim,                *)
(* recover_running, recover_expired, latest_for_target, resolve_in).       *)
(* The crate is not part of the repository; what follows is read off the   *)
(* calls in src/src/reconciliation.rs and src/src/routes.rs, their tests,  *)
(* the generated schema (the states, the partial unique index on the       *)
(* targets that are running or unknown) and docs/operations.md.            *)
(*                                                                         *)
(* Time is abstracted to the comparisons the store makes: "due" is         *)
(* not_before <= now, "live" is lease_expiry > now.                        *)
(***************************************************************************)
EXTENDS Naturals

CONSTANTS
    Cameras,      \* operation targets
    Owners,       \* lease owners, a fresh UUIDv4 for each reconciliation pass
    NoOwner,      \* the NULL lease owner
    MaxGen,       \* bound: generations committed per camera
    MaxOps,       \* bound: operations ever enqueued
    MaxAttempts   \* max_attempts of an operation (8 in the code)

ASSUME StoreAssumption ==
    /\ Cameras # {}
    /\ NoOwner \notin Owners
    /\ MaxGen \in Nat \ {0}
    /\ MaxOps \in Nat \ {0}
    /\ MaxAttempts \in Nat \ {0}

OpIds == 1..MaxOps
Gens == 0..MaxGen

OpStates == {"absent", "pending", "running", "succeeded", "failed",
             "unknown", "dead_letter", "resolved"}

\* result payload of a succeeded operation
Results == {"none", "converged", "superseded", "superseded_after_apply"}

OpType == [camera  : Cameras,
           gen     : Gens,
           state   : OpStates,
           attempt : 0..MaxAttempts,
           due     : BOOLEAN,
           owner   : Owners \cup {NoOwner},
           live    : BOOLEAN,
           result  : Results]

\* A row that has not been inserted yet.
NoOp == [camera |-> CHOOSE c \in Cameras : TRUE, gen |-> 0, state |-> "absent",
         attempt |-> 0, due |-> FALSE, owner |-> NoOwner, live |-> FALSE,
         result |-> "none"]

\* enqueue_in: the operation is due at once (not_before = created_at = now).
NewOp(c, g) == [NoOp EXCEPT !.camera = c, !.gen = g, !.state = "pending",
                            !.due = TRUE]

-----------------------------------------------------------------------------
(* A target is occupied while one of its operations is running or unknown. *)

Active(op) == op.state \in {"running", "unknown"}

Occupied(ops, c) == \E o \in OpIds : ops[o].camera = c /\ Active(ops[o])

\* Mutant of Claimable: another active operation of the camera is not looked for.
ClaimableBesideActive(ops, o) == ops[o].state = "pending" /\ ops[o].due

\* What claim_next_in may pick.
Claimable(ops, o) ==
    /\ ops[o].state = "pending"
    /\ ops[o].due
    /\ ~Occupied(ops, ops[o].camera)

Claimed(op, owner) ==
    [op EXCEPT !.state = "running", !.attempt = @ + 1, !.due = FALSE,
               !.owner = owner, !.live = TRUE]

-----------------------------------------------------------------------------
(* Leaving "running" always clears the lease (owner and expiry are NULL    *)
(* together in every other state).                                         *)

Unleased(op, state) ==
    [op EXCEPT !.state = state, !.owner = NoOwner, !.live = FALSE]

\* apply_transition_owned_in refuses a caller that lost the operation lease.
OwnedBy(op, owner) == op.state = "running" /\ op.owner = owner /\ op.live

Succeed(op, result) == [Unleased(op, "succeeded") EXCEPT !.result = result]

\* Mutant of Fail: a retryable failure is retried for ever.
FailWithoutLimit(op, retryable) == Unleased(op, IF retryable THEN "pending" ELSE "failed")

\* Fail: a retryable failure waits for its retry time while attempts are left.
Fail(op, retryable) ==
    Unleased(op, IF ~retryable THEN "failed"
                 ELSE IF op.attempt < MaxAttempts THEN "pending"
                 ELSE "dead_letter")

MarkIndeterminate(op) == Unleased(op, "unknown")

\* Mutant of AbandonClaim: a claim that is given up is offered for another attempt.
AbandonClaimForRetry(op, owner) ==
    IF op.state = "running" /\ op.owner = owner THEN Unleased(op, "pending") ELSE op

\* abandon_claim: only the very claim that was captured. A pass uses a fresh
\* owner and claims at most once, so the owner identifies the attempt too.
AbandonClaim(op, owner) ==
    IF op.state = "running" /\ op.owner = owner THEN Unleased(op, "unknown") ELSE op

\* recover_running: every running operation of the namespace, whatever its lease.
RecoverRunning(ops) ==
    [o \in OpIds |-> IF ops[o].state = "running"
                     THEN Unleased(ops[o], "unknown") ELSE ops[o]]

\* recover_expired: the running operations whose lease has run out.
RecoverExpired(ops) ==
    [o \in OpIds |-> IF ops[o].state = "running" /\ ~ops[o].live
                     THEN Unleased(ops[o], "unknown") ELSE ops[o]]

-----------------------------------------------------------------------------
(* Resolutions of an administrator (docs/operations.md).                   *)

Resolutions == {"confirmed", "unable_to_confirm"}

Resolvable(op, resolution) ==
    IF resolution = "confirmed"
    THEN op.state \in {"unknown", "failed", "dead_letter"}
    ELSE op.state = "unknown"

Resolved(op, resolution) ==
    [op EXCEPT !.state = IF resolution = "confirmed" THEN "resolved" ELSE "dead_letter"]

\* latest_for_target: 0 when the target has no operation. Identifiers grow
\* with creation.
LatestFor(ops, c) ==
    LET mine == {o \in OpIds : ops[o].camera = c /\ ops[o].state # "absent"}
    IN  IF mine = {} THEN 0 ELSE CHOOSE o \in mine : \A q \in mine : q <= o
=============================================================================
