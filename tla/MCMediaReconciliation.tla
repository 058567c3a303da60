----------------------- MODULE MCMediaReconciliation -----------------------
(* MediaReconciliation on small sets.                                      *)
EXTENDS MediaReconciliation, TLC

CONSTANTS s1, s2

MCSources == {s1, s2}

Recording == [main |-> s1, sub |-> NoSource, enabled |-> TRUE, record |-> TRUE]
WithSub   == [main |-> s1, sub |-> s2, enabled |-> TRUE, record |-> FALSE]
Moved     == [main |-> s2, sub |-> NoSource, enabled |-> TRUE, record |-> TRUE]
Disabled  == [main |-> s2, sub |-> NoSource, enabled |-> FALSE, record |-> TRUE]

OneConfig == {WithSub}
TwoConfigs == {WithSub, Moved}
ThreeConfigs == {Recording, WithSub, Disabled}

WorkerSymmetry == Permutations(Workers)
=============================================================================
