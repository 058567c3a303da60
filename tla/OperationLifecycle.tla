------------------------- MODULE OperationLifecycle -------------------------
(***************************************************************************)
(* What a durable operation promises to whoever submitted it (chapter 5 of *)
(* docs/beginner-guide and docs/operations.md): it is attempted a bounded  *)
(* number of times, one operation of a target at a time; an attempt whose  *)
(* outcome is not known ends in "unknown", which no worker ever picks up   *)
(* again and which keeps the target closed until an administrator decides; *)
(* and what is settled stays settled.                                      *)
(***************************************************************************)
EXTENDS Naturals

CONSTANTS Ops, Targets, MaxAttempts

VARIABLE life    \* operation -> [target, state, attempt]

Closed(t) == \E o \in Ops : life[o].target = t /\ life[o].state \in {"running", "unknown"}

Become(o, state) == life' = [life EXCEPT ![o].state = state]

Init == \A o \in Ops : life[o].state = "absent" /\ life[o].attempt = 0

Submit(o) ==
    /\ life[o].state = "absent"
    /\ \E t \in Targets :
          life' = [life EXCEPT ![o] = [target |-> t, state |-> "pending", attempt |-> 0]]

Attempt(o) ==
    /\ life[o].state = "pending"
    /\ life[o].attempt < MaxAttempts
    /\ ~Closed(life[o].target)
    /\ life' = [life EXCEPT ![o].state = "running", ![o].attempt = @ + 1]

Settle(o) ==
    /\ life[o].state = "running"
    /\ \/ Become(o, "succeeded")
       \/ Become(o, "failed")
       \/ life[o].attempt < MaxAttempts /\ Become(o, "pending")
       \/ life[o].attempt = MaxAttempts /\ Become(o, "dead_letter")

\* Any number of attempts may be lost together (a crash, an expired lease).
Lose ==
    \E lost \in SUBSET {o \in Ops : life[o].state = "running"} :
        /\ lost # {}
        /\ life' = [o \in Ops |-> IF o \in lost
                                  THEN [life[o] EXCEPT !.state = "unknown"] ELSE life[o]]

Decide(o) ==
    \/ life[o].state \in {"unknown", "failed", "dead_letter"} /\ Become(o, "resolved")
    \/ life[o].state = "unknown" /\ Become(o, "dead_letter")

Next ==
    \/ \E o \in Ops : Submit(o) \/ Attempt(o) \/ Settle(o) \/ Decide(o)
    \/ Lose

Spec == Init /\ [][Next]_life
=============================================================================
