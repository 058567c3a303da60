------------------------------- MODULE AuditLog -------------------------------
(***************************************************************************)
(* What the delivery of operation audits promises (docs/operations.md:     *)
(* 11-12): a transition that happened waits until it is in the audit log,  *)
(* whatever fails, and enters it once.                                     *)
(***************************************************************************)
EXTENDS Naturals

CONSTANT MaxEvents

VARIABLES waiting, logged

Init == waiting = {} /\ logged = {}

Happen(e) ==
    /\ e \notin waiting \cup logged
    /\ waiting' = waiting \cup {e}
    /\ UNCHANGED logged

Log(e) ==
    /\ e \in waiting
    /\ waiting' = waiting \ {e}
    /\ logged' = logged \cup {e}

Next == \E e \in 1..MaxEvents : Happen(e) \/ Log(e)

Spec == Init /\ [][Next]_<<waiting, logged>>
=============================================================================
