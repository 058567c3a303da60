SPECIFICATION Spec
CONSTANTS
    Timeouts <- ShortestToLongest
    Durations <- Samples
INVARIANTS
    LeasesOutlastThePass
    BudgetIInv
CHECK_DEADLOCK FALSE
