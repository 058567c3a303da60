---------------------------- MODULE LeaseBudget ----------------------------
(***************************************************************************)
(* How long the leases of a reconciliation pass last, in seconds, against  *)
(* how long the pass may take between the points where it renews them.     *)
(* MediaReconciliation lets a lease run out under a live worker only as a  *)
(* bounded "stall"; this module shows what a stall takes: a request never  *)
(* outlasts request_timeout (the timeout of the HTTP client), so a lease   *)
(* is lost only if the work of the server itself (the database, the write  *)
(* lock, the scheduler) takes the whole safety margin between two          *)
(* renewals.                                                               *)
(*                                                                         *)
(* Time is what is left of each lease; "expires_at > now" is left > 0.     *)
(***************************************************************************)
EXTENDS Integers

CONSTANTS
    Timeouts,      \* values of REQUEST_TIMEOUT_SECS (1..300 in config.rs)
    Durations      \* how long a request or a stretch of local work takes

LEASE_SAFETY_MARGIN_SECONDS == 30
GLOBAL_LEASE_REQUEST_BUDGET == 6

\* Mutant of OPERATION_LEASE_REQUEST_BUDGET: one exchange is not counted.
ThreeRequests == 3

OPERATION_LEASE_REQUEST_BUDGET == 4

ASSUME BudgetAssumption ==
    /\ Timeouts \subseteq Nat \ {0}
    /\ Durations \subseteq Nat

VARIABLES
    timeout,       \* request_timeout, fixed when the server starts
    stage,         \* where the pass is
    requests,      \* requests it has still to make in this stage
    globalLeft,    \* seconds left of the global lease
    claimLeft,     \* seconds left of the claim's deadline
    sinceRenewal,  \* local work since the global lease was last extended
    sinceClaim     \* local work since the claim's deadline was computed

vars == <<timeout, stage, requests, globalLeft, claimLeft, sinceRenewal, sinceClaim>>

Stages == {"renew", "claim", "claiming", "observe", "renewAgain", "claimAgain",
           "claimingAgain", "renewClaim", "apply", "finish", "done", "lost"}

\* The stages in which the pass holds, or is about to get, a claim.
Claimed == {"claiming", "claimingAgain", "renewClaim", "apply", "finish"}

LeaseSeconds(budget) ==
    LET seconds == timeout * budget + LEASE_SAFETY_MARGIN_SECONDS
    IN  IF seconds > 60 THEN seconds ELSE 60

GlobalLease == LeaseSeconds(GLOBAL_LEASE_REQUEST_BUDGET)
ClaimLease == LeaseSeconds(OPERATION_LEASE_REQUEST_BUDGET)

\* One inventory is two requests (path_configs, paths).
ObservationRequests == 2

\* Mutant of ApplyRequests: each path is looked up once more after its update.
CheckedApplyRequests == {2, 3, 4, 5, 6}

\* upsert_path makes two requests (the lookup, then PATCH or POST), delete_path
\* one; each operation touches the main and the sub path.
ApplyRequests == {1 + 1, 2 + 1, 2 + 2}

Init ==
    /\ timeout \in Timeouts
    /\ stage = "renew"
    /\ requests = 0
    /\ globalLeft = GlobalLease
    /\ claimLeft = 0
    /\ sinceRenewal = 0
    /\ sinceClaim = 0

Extend == globalLeft' = GlobalLease /\ sinceRenewal' = 0

\* Whatever the server does itself. It stays below the safety margin between two
\* renewals, and between the claim and its completion.
Work ==
    /\ stage \notin {"done", "lost"}
    /\ \E d \in Durations :
          /\ d > 0
          /\ sinceRenewal + d < LEASE_SAFETY_MARGIN_SECONDS
          /\ stage \in Claimed => sinceClaim + d < LEASE_SAFETY_MARGIN_SECONDS
          /\ sinceRenewal' = sinceRenewal + d
          /\ globalLeft' = globalLeft - d
          /\ IF stage \in Claimed
             THEN sinceClaim' = sinceClaim + d /\ claimLeft' = claimLeft - d
             ELSE UNCHANGED <<sinceClaim, claimLeft>>
    /\ UNCHANGED <<timeout, stage, requests>>

\* One HTTP exchange. While an operation is applied, one that fails is the last.
Exchange ==
    /\ stage \in {"observe", "apply"}
    /\ requests > 0
    /\ \E d \in Durations :
          /\ d <= timeout
          /\ globalLeft' = globalLeft - d
          /\ claimLeft' = IF stage = "apply" THEN claimLeft - d ELSE claimLeft
    /\ requests' = requests - 1
    /\ UNCHANGED <<timeout, stage, sinceRenewal, sinceClaim>>

Renew ==
    /\ stage \in {"renew", "renewAgain"}
    /\ IF globalLeft > 0
       THEN /\ Extend
            /\ stage' = IF stage = "renew" THEN "claim" ELSE "claimAgain"
       ELSE stage' = "lost" /\ UNCHANGED <<globalLeft, sinceRenewal>>
    /\ UNCHANGED <<timeout, requests, claimLeft, sinceClaim>>

\* claim_next_operation computes the deadline before it waits for the write lock.
StartClaim ==
    /\ stage \in {"claim", "claimAgain"}
    /\ IF globalLeft > 0
       THEN /\ stage' = IF stage = "claim" THEN "claiming" ELSE "claimingAgain"
            /\ claimLeft' = ClaimLease
            /\ sinceClaim' = 0
       ELSE stage' = "lost" /\ UNCHANGED <<claimLeft, sinceClaim>>
    /\ UNCHANGED <<timeout, requests, globalLeft, sinceRenewal>>

Claim ==
    /\ stage \in {"claiming", "claimingAgain"}
    /\ stage' = "renewClaim"
    /\ UNCHANGED <<timeout, requests, globalLeft, claimLeft, sinceRenewal, sinceClaim>>

NothingToClaim ==
    /\ stage \in {"claiming", "claimingAgain"}
    /\ stage' = IF stage = "claiming" THEN "observe" ELSE "done"
    /\ requests' = IF stage = "claiming" THEN ObservationRequests ELSE 0
    /\ UNCHANGED <<timeout, globalLeft, claimLeft, sinceRenewal, sinceClaim>>

Observed ==
    /\ stage = "observe"
    /\ requests = 0
    /\ stage' = "renewAgain"
    /\ UNCHANGED <<timeout, requests, globalLeft, claimLeft, sinceRenewal, sinceClaim>>

\* renew_claimed_leases extends the global lease and only looks at the claim.
RenewClaim ==
    /\ stage = "renewClaim"
    /\ IF globalLeft > 0 /\ claimLeft > 0
       THEN Extend /\ stage' = "apply" /\ requests' \in ApplyRequests
       ELSE stage' = "lost" /\ UNCHANGED <<globalLeft, sinceRenewal, requests>>
    /\ UNCHANGED <<timeout, claimLeft, sinceClaim>>

Applied ==
    /\ stage = "apply"
    /\ stage' = "finish"
    /\ requests' = 0
    /\ UNCHANGED <<timeout, globalLeft, claimLeft, sinceRenewal, sinceClaim>>

\* complete_owned_in requires both leases.
Finish ==
    /\ stage = "finish"
    /\ stage' = IF globalLeft > 0 /\ claimLeft > 0 THEN "done" ELSE "lost"
    /\ UNCHANGED <<timeout, requests, globalLeft, claimLeft, sinceRenewal, sinceClaim>>

Next == \/ Work \/ Exchange \/ Renew \/ StartClaim \/ Claim \/ NothingToClaim
        \/ Observed \/ RenewClaim \/ Applied \/ Finish

Spec == Init /\ [][Next]_vars

-----------------------------------------------------------------------------

\* A pass is never fenced by its own leases, whatever request_timeout is and
\* however slowly MediaMTX answers, as long as the server's own work stays within
\* the margin: the budgets of 6 and 4 requests cover every request a pass makes
\* between two renewals, and from the claim to its completion.
LeasesOutlastThePass == stage # "lost"

\* What remains of each lease at every point of a pass: the margin less the local
\* work, and a whole request_timeout for every request still to be made.
Reserve(left, since, n) == left >= n * timeout + LEASE_SAFETY_MARGIN_SECONDS - since

BudgetIInv ==
    /\ timeout \in Timeouts
    /\ stage \in Stages \ {"lost"}
    /\ requests \in 0..4
    /\ stage = "observe" => requests <= 2
    /\ globalLeft \in Int /\ claimLeft \in Int
    /\ sinceRenewal \in 0..(LEASE_SAFETY_MARGIN_SECONDS - 1)
    /\ sinceClaim \in Nat
    /\ stage # "done" => Reserve(globalLeft, sinceRenewal, requests)
    /\ stage \in {"claim", "claiming"} =>
          Reserve(globalLeft, sinceRenewal, ObservationRequests)
    /\ stage \in Claimed =>
          /\ sinceClaim < LEASE_SAFETY_MARGIN_SECONDS
          /\ Reserve(claimLeft, sinceClaim, requests)
    /\ stage \in {"renewClaim", "claiming", "claimingAgain"} =>
          Reserve(claimLeft, sinceClaim, 4)
=============================================================================
