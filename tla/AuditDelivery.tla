---------------------------- MODULE AuditDelivery ----------------------------
(***************************************************************************)
(* The audit outbox: every transition of an operation leaves an event in   *)
(* the outbox of the operation store, in its own transaction, and          *)
(* operation_audit_loop (src/src/background.rs) moves them, in batches,    *)
(* into the table audit_logs (flush_operation_audit).  The events          *)
(* are numbered in the order they are written; a flush reads the oldest,   *)
(* and delivers them in any order.                                         *)
(***************************************************************************)
EXTENDS Naturals, FiniteSets

CONSTANTS
    BatchSize,   \* events one flush reads (128 in the code)
    MaxEvents,   \* bound: transitions
    MaxFaults    \* bound: crashes and failed statements

ASSUME DeliveryAssumption ==
    /\ BatchSize \in Nat \ {0}
    /\ MaxEvents \in Nat /\ MaxFaults \in Nat

VARIABLES
    happened,   \* events written so far
    outbox,     \* the events not marked delivered
    audit,      \* the table audit_logs: the events of its rows (the row's ID is the event's)
    batch,      \* what the flush in progress has left
    task,       \* the supervised task "operation-audit"
    faults

auditVars == <<happened, outbox, audit, batch, task, faults>>

Events == 1..MaxEvents

DeliveryTypeOK ==
    /\ happened \in 0..MaxEvents
    /\ outbox \in SUBSET Events
    /\ audit \in SUBSET Events
    /\ batch \in SUBSET Events
    /\ task \in {"running", "failed"}
    /\ faults \in 0..MaxFaults

DeliveryInit ==
    /\ happened = 0
    /\ outbox = {}
    /\ audit = {}
    /\ batch = {}
    /\ task = "running"
    /\ faults = 0

\* A transition of an operation (Foundation's operation store).
Happen ==
    /\ happened < MaxEvents
    /\ happened' = happened + 1
    /\ outbox' = outbox \cup {happened + 1}
    /\ UNCHANGED <<audit, batch, task, faults>>

\* pending_audit_events: the oldest events.
Oldest(events) == {e \in events : Cardinality({d \in events : d < e}) < BatchSize}

\* Mutant of BeginFlush: it waits until there is a whole batch.
BeginFullFlush ==
    /\ task = "running" /\ batch = {}
    /\ Cardinality(outbox) >= BatchSize
    /\ batch' = Oldest(outbox)
    /\ UNCHANGED <<happened, outbox, audit, task, faults>>

\* A tick of operation_audit_loop.
BeginFlush ==
    /\ task = "running" /\ batch = {}
    /\ outbox # {}
    /\ batch' = Oldest(outbox)
    /\ UNCHANGED <<happened, outbox, audit, task, faults>>

\* Mutant of Deliver: the batch is marked with its first event.
DeliverMarkingBatch ==
    \E e \in batch :
        /\ audit' = audit \cup {e}
        /\ outbox' = outbox \ batch
        /\ batch' = batch \ {e}
        /\ UNCHANGED <<happened, task, faults>>

\* One IMMEDIATE transaction: the row, unless there is one, and the mark.
Deliver ==
    \E e \in batch :
        /\ audit' = audit \cup {e}
        /\ outbox' = outbox \ {e}
        /\ batch' = batch \ {e}
        /\ UNCHANGED <<happened, task, faults>>

\* Any error ends the loop: the events that are left wait, and the runtime reports
\* the task as failed.
FlushFails ==
    /\ task = "running"
    /\ faults < MaxFaults
    /\ faults' = faults + 1
    /\ batch' = {}
    /\ task' = "failed"
    /\ UNCHANGED <<happened, outbox, audit>>

\* The server dies, or is stopped, and starts again.
Restart ==
    /\ faults < MaxFaults
    /\ faults' = faults + 1
    /\ batch' = {}
    /\ task' = "running"
    /\ UNCHANGED <<happened, outbox, audit>>

Flush == BeginFlush \/ Deliver

-----------------------------------------------------------------------------
(* Properties.                                                             *)

Log == INSTANCE AuditLog WITH waiting <- outbox, logged <- audit

\* The outbox and the table implement the audit log: nothing waits and is logged,
\* nothing stops waiting before it is logged (flush_operation_audit).
ImplementsAuditLog == Log!Spec

\* Every event is delivered, unless the task is reported as failed: a loop that
\* still runs leaves no event behind (operation_audit_loop).
DeliveredOrReported ==
    \A e \in Events : e \in outbox ~> (e \in audit \/ task = "failed")
=============================================================================
