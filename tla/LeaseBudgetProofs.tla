------------------------- MODULE LeaseBudgetProofs -------------------------
(***************************************************************************)
(* The lease budgets cover a pass for every request_timeout and every      *)
(* duration of a request, not only the sampled ones.                       *)
(***************************************************************************)
EXTENDS LeaseBudget, TLAPS

\* A lease lasts at least its budget of requests and the margin, even where the
\* minimum of 60 seconds decides.
LEMMA LeaseCovers ==
    ASSUME timeout \in Timeouts
    PROVE  /\ timeout \in Nat \ {0}
           /\ GlobalLease \in Int /\ GlobalLease >= timeout * 6 + 30
           /\ ClaimLease \in Int /\ ClaimLease >= timeout * 4 + 30
  BY BudgetAssumption DEF GlobalLease, ClaimLease, LeaseSeconds,
       GLOBAL_LEASE_REQUEST_BUDGET, OPERATION_LEASE_REQUEST_BUDGET,
       LEASE_SAFETY_MARGIN_SECONDS

\* The reserve with the number of requests spelled out, which keeps the
\* arithmetic linear.
LEMMA ReserveIs ==
    ASSUME NEW t \in Nat, NEW n \in 0..4
    PROVE  /\ n = 0 => n * t = 0
           /\ n = 1 => n * t = t
           /\ n = 2 => n * t = 2 * t
           /\ n = 3 => n * t = 3 * t
           /\ n = 4 => n * t = 4 * t
  OBVIOUS

\* One request fewer to make, one request_timeout less to reserve.
LEMMA OneRequestLess ==
    ASSUME NEW t \in Nat, NEW n \in 1..4
    PROVE  n - 1 \in 0..3 /\ (n - 1) * t = n * t - t
  <1>1. n - 1 \in 0..4
    OBVIOUS
  <1> QED BY <1>1, ReserveIs

\* Every step of a pass keeps the reserve.
LEMMA BudgetStep == BudgetIInv /\ [Next]_vars => BudgetIInv'
  <1> SUFFICES ASSUME BudgetIInv, [Next]_vars PROVE BudgetIInv'
    OBVIOUS
  <1> USE DEF LEASE_SAFETY_MARGIN_SECONDS, ObservationRequests, Reserve
  <1>1. /\ timeout \in Nat \ {0} /\ requests \in 0..4
        /\ requests * timeout \in Nat
        /\ 0 * timeout = 0 /\ requests * timeout >= 0
    BY LeaseCovers, ReserveIs DEF BudgetIInv
  <1>2. CASE Work
    BY <1>1, <1>2, BudgetAssumption DEF Work, BudgetIInv, Claimed, Stages
  <1>3. CASE Exchange
    <2>1. requests \in 1..4 /\ timeout' = timeout /\ requests' = requests - 1
      BY <1>1, <1>3 DEF Exchange
    <2>2. requests' \in 0..3 /\ requests' * timeout' = requests * timeout - timeout
      BY <1>1, <2>1, OneRequestLess
    <2>3. PICK d \in Durations : /\ d <= timeout
                                 /\ globalLeft' = globalLeft - d
                                 /\ claimLeft' = IF stage = "apply" THEN claimLeft - d
                                                 ELSE claimLeft
      BY <1>3 DEF Exchange
    <2>4. d \in Nat
      BY BudgetAssumption
    <2> QED BY <1>1, <1>3, <2>1, <2>2, <2>3, <2>4 DEF Exchange, BudgetIInv, Claimed, Stages
  <1>4. CASE Renew
    BY <1>1, <1>4, LeaseCovers DEF Renew, Extend, GlobalLease, BudgetIInv, Claimed, Stages
  <1>5. CASE StartClaim
    BY <1>1, <1>5, LeaseCovers DEF StartClaim, BudgetIInv, Claimed, Stages
  <1>6. CASE Claim
    BY <1>1, <1>6 DEF Claim, BudgetIInv, Claimed, Stages
  <1>7. CASE NothingToClaim
    BY <1>1, <1>7 DEF NothingToClaim, BudgetIInv, Claimed, Stages
  <1>8. CASE Observed
    BY <1>1, <1>8 DEF Observed, BudgetIInv, Claimed, Stages
  <1>9. CASE RenewClaim
    BY <1>1, <1>9, LeaseCovers, ReserveIs
       DEF RenewClaim, Extend, ApplyRequests, BudgetIInv, Claimed, Stages
  <1>10. CASE Applied
    BY <1>1, <1>10 DEF Applied, BudgetIInv, Claimed, Stages
  <1>11. CASE Finish
    BY <1>1, <1>11 DEF Finish, BudgetIInv, Claimed, Stages
  <1>12. CASE UNCHANGED vars
    BY <1>12 DEF vars, BudgetIInv
  <1> QED BY <1>2, <1>3, <1>4, <1>5, <1>6, <1>7, <1>8, <1>9, <1>10, <1>11, <1>12 DEF Next

\* A pass starts with both leases whole and no request under way.
LEMMA BudgetInitially == Init => BudgetIInv
  <1> SUFFICES ASSUME Init PROVE BudgetIInv
    OBVIOUS
  <1>1. timeout \in Nat \ {0} /\ 0 * timeout = 0
    BY LeaseCovers DEF Init
  <1> QED BY <1>1, LeaseCovers
          DEF Init, BudgetIInv, Reserve, LEASE_SAFETY_MARGIN_SECONDS, Claimed, Stages

\* At every step of a pass, before each renewal and each request, both leases
\* have a whole request_timeout left for every request still to be made.
THEOREM BudgetIsKept == Spec => []BudgetIInv
  BY BudgetInitially, BudgetStep, PTL DEF Spec

\* Whatever the configured request_timeout, a pass whose own work stays within the
\* margin is never fenced by its own leases.
THEOREM LeasesSuffice == Spec => []LeasesOutlastThePass
  <1>1. BudgetIInv => LeasesOutlastThePass
    BY DEF BudgetIInv, LeasesOutlastThePass
  <1> QED BY <1>1, BudgetIsKept, PTL
=============================================================================
