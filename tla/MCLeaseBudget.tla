--------------------------- MODULE MCLeaseBudget ---------------------------
(* LeaseBudget with timeouts at both ends of the configured range, on both *)
(* sides of the points where a lease exceeds the minimum of 60 seconds     *)
(* (5 s for six requests, 7.5 s for four) and at the default; requests and *)
(* local work that take nothing, little or as much as they may.            *)
EXTENDS LeaseBudget

ShortestToLongest == {1, 5, 7, 8, 20, 300}
Samples == ShortestToLongest \cup {0, 2, 29}
=============================================================================
