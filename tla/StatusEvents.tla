----------------------------- MODULE StatusEvents -----------------------------
(***************************************************************************)
(* Camera status and its events: refresh_statuses (src/src/background.rs)  *)
(* beside the requests and the reconciler that write the same column, the  *)
(* events it stores and broadcasts, the streams of src/src/routes.rs and   *)
(* the page of src/clients/web/src/main.tsx that listens to one.  Every    *)
(* statement is an action of its own: refresh_statuses holds nothing       *)
(* between them.                                                           *)
(***************************************************************************)
EXTENDS Naturals, Sequences, SequencesExt

CONSTANTS
    Cameras,
    Pages,        \* pages open in a browser
    NoCamera,
    Capacity,     \* of the broadcast channel (256 in the code)
    MaxEvents,    \* bound: events stored; the other bounds of a run keep below it
    MaxChanges,   \* bound: requests, reconciliations, and changes of what is published
    MaxFaults     \* bound: crashes and failed statements

ASSUME EventsAssumption ==
    /\ NoCamera \notin Cameras
    /\ Capacity \in Nat \ {0}
    /\ MaxEvents \in Nat /\ MaxChanges \in Nat /\ MaxFaults \in Nat

Statuses == {"pending", "online", "offline", "disabled", "error"}
Row == [enabled : BOOLEAN, deleted : BOOLEAN, status : Statuses]
Events == 1..MaxEvents

VARIABLES
    rows,       \* cameras
    published,  \* MediaMTX: the cameras whose main path is ready
    cycle,      \* the locals of refresh_statuses
    stored,     \* rows of the table events, numbered as they are inserted
    sent,       \* what this process sent on the broadcast channel
    stream,     \* of each page: no EventSource connection, or an open one
    next,       \* the receiver's position in the channel
    since,      \* history: the events stored when the stream was opened
    delivered,  \* history: the events of the open stream
    skipped,    \* history: the last event a stream skipped when it lagged
    requested,  \* GET /events requests of a page that were not served yet
    answers,    \* their answers on the way
    shown,      \* the last event the page shows
    owed,       \* history: announcements due that were not stored
    changes, faults

catalog == <<rows, published>>
channel == <<stored, sent>>
streams == <<stream, next, since, delivered, skipped>>
queries == <<requested, answers, shown>>
vars == <<rows, published, cycle, stored, sent, stream, next, since, delivered, skipped,
          requested, answers, shown, owed, changes, faults>>

Idle == [at |-> "idle", paths |-> {}, rows |-> <<>>, todo |-> {}, camera |-> NoCamera]

TypeOK ==
    /\ rows \in [Cameras -> Row]
    /\ published \in SUBSET Cameras
    /\ cycle.at \in {"idle", "rows", "update", "emit", "send"}
    /\ cycle.todo \in SUBSET Cameras
    /\ cycle.camera \in Cameras \cup {NoCamera}
    /\ stored \in 0..MaxEvents
    /\ sent \in Seq(Events)
    /\ stream \in [Pages -> {"closed", "open"}]
    /\ next \in [Pages -> Nat \ {0}]
    /\ since \in [Pages -> 0..MaxEvents]
    /\ delivered \in [Pages -> Seq(Events)]
    /\ skipped \in [Pages -> 0..MaxEvents]
    /\ requested \in [Pages -> Nat]
    /\ answers \in [Pages -> SUBSET (0..MaxEvents)]
    /\ shown \in [Pages -> 0..MaxEvents]
    /\ owed \in Nat
    /\ changes \in 0..MaxChanges
    /\ faults \in 0..MaxFaults

\* create_camera leaves the column's default, "pending".
Init ==
    /\ rows = [c \in Cameras |-> [enabled |-> TRUE, deleted |-> FALSE, status |-> "pending"]]
    /\ published = {}
    /\ cycle = Idle
    /\ stored = 0
    /\ sent = <<>>
    /\ stream = [g \in Pages |-> "closed"]
    /\ next = [g \in Pages |-> 1]
    /\ since = [g \in Pages |-> 0]
    /\ delivered = [g \in Pages |-> <<>>]
    /\ skipped = [g \in Pages |-> 0]
    /\ requested = [g \in Pages |-> 1]
    /\ answers = [g \in Pages |-> {}]
    /\ shown = [g \in Pages |-> 0]
    /\ owed = 0
    /\ changes = 0
    /\ faults = 0

-----------------------------------------------------------------------------
(* The other writers of a camera's row.                                    *)

SetRow(c, enabled, deleted, status) ==
    rows' = [rows EXCEPT ![c] = [enabled |-> enabled, deleted |-> deleted, status |-> status]]

Changes ==
    /\ changes < MaxChanges
    /\ changes' = changes + 1
    /\ UNCHANGED <<cycle, channel, streams, queries, owed, faults>>

UpdateCamera(c) ==
    /\ ~rows[c].deleted
    /\ \E enabled \in BOOLEAN :
         SetRow(c, enabled, FALSE, IF enabled THEN "pending" ELSE "disabled")
    /\ UNCHANGED published
    /\ Changes

DeleteCamera(c) ==
    /\ ~rows[c].deleted
    /\ SetRow(c, rows[c].enabled, TRUE, "disabled")
    /\ UNCHANGED published
    /\ Changes

\* The end of a media operation: apply_operation, record_operation_failure.
Reconciled(c) ==
    /\ \/ SetRow(c, rows[c].enabled, rows[c].deleted,
                 IF rows[c].enabled /\ ~rows[c].deleted THEN "pending" ELSE "disabled")
       \/ SetRow(c, rows[c].enabled, rows[c].deleted, "error")
    /\ UNCHANGED published
    /\ Changes

\* A publisher appears at MediaMTX or goes away (external).
Publish(c) ==
    /\ published' = IF c \in published THEN published \ {c} ELSE published \cup {c}
    /\ UNCHANGED rows
    /\ Changes

-----------------------------------------------------------------------------
(* refresh_statuses, emit_event.                                           *)

\* Mutant of NewStatus: MediaMTX's own word is written.
NewStatusReady(c) ==
    CASE ~cycle.rows[c].enabled -> "disabled"
      [] cycle.rows[c].enabled /\ c \in cycle.paths -> "ready"
      [] OTHER -> "offline"

\* new_status, of the row that was read and the paths that were read before it.
NewStatus(c) ==
    CASE ~cycle.rows[c].enabled -> "disabled"
      [] cycle.rows[c].enabled /\ c \in cycle.paths -> "online"
      [] OTHER -> "offline"

\* A camera that was pending, or is disabled, is not announced.
Announced(c) == cycle.rows[c].status # "pending" /\ NewStatus(c) # "disabled"

\* The status loop starts a cycle: the credentials are validated, MediaMTX listed.
ListPaths ==
    /\ cycle.at = "idle"
    /\ cycle' = [Idle EXCEPT !.at = "rows", !.paths = published]
    /\ UNCHANGED <<catalog, channel, streams, queries, owed, changes, faults>>

ReadRows ==
    /\ cycle.at = "rows"
    /\ cycle' = [cycle EXCEPT !.at = "update", !.rows = rows,
                              !.todo = {c \in Cameras : ~rows[c].deleted}]
    /\ UNCHANGED <<catalog, channel, streams, queries, owed, changes, faults>>

\* Mutant of Handled: a camera that is disabled is passed over.
HandledIfEnabled(c) == NewStatus(c) = cycle.rows[c].status \/ ~cycle.rows[c].enabled

\* Nothing is written but last_seen_at.
Handled(c) == NewStatus(c) = cycle.rows[c].status

\* Mutant of UpdateStatus: only the last camera of a cycle is announced.
UpdateStatusAnnounceLast(c) ==
    /\ cycle.at = "update" /\ c \in cycle.todo
    /\ rows' = IF Handled(c) THEN rows ELSE [rows EXCEPT ![c].status = NewStatus(c)]
    /\ owed' = IF Announced(c) /\ ~Handled(c) THEN owed + 1 ELSE owed
    /\ cycle' = IF Announced(c) /\ ~Handled(c) /\ cycle.todo = {c}
                THEN [cycle EXCEPT !.at = "emit", !.todo = {}, !.camera = c]
                ELSE [cycle EXCEPT !.todo = @ \ {c}]
    /\ UNCHANGED <<published, channel, streams, queries, changes, faults>>

\* UPDATE ... WHERE id: whatever the row has become since it was read.
UpdateStatus(c) ==
    /\ cycle.at = "update" /\ c \in cycle.todo
    /\ \/ /\ Handled(c)
          /\ cycle' = [cycle EXCEPT !.todo = @ \ {c}]
          /\ UNCHANGED <<rows, owed>>
       \/ /\ ~Handled(c)
          /\ rows' = [rows EXCEPT ![c].status = NewStatus(c)]
          /\ IF Announced(c)
             THEN /\ cycle' = [cycle EXCEPT !.at = "emit", !.todo = @ \ {c}, !.camera = c]
                  /\ owed' = owed + 1
             ELSE /\ cycle' = [cycle EXCEPT !.todo = @ \ {c}]
                  /\ UNCHANGED owed
    /\ UNCHANGED <<published, channel, streams, queries, changes, faults>>

EndCycle ==
    /\ cycle.at = "update" /\ cycle.todo = {}
    /\ cycle' = Idle
    /\ UNCHANGED <<catalog, channel, streams, queries, owed, changes, faults>>

\* Mutant of InsertEvent: the event is sent before it is stored.
SendUnstored ==
    /\ cycle.at = "emit"
    /\ sent' = Append(sent, stored + 1)
    /\ cycle' = [cycle EXCEPT !.at = "send"]
    /\ UNCHANGED <<catalog, stored, streams, queries, owed, changes, faults>>

InsertEvent ==
    /\ cycle.at = "emit"
    /\ stored < MaxEvents
    /\ stored' = stored + 1
    /\ owed' = owed - 1
    /\ cycle' = [cycle EXCEPT !.at = "send"]
    /\ UNCHANGED <<catalog, sent, streams, queries, changes, faults>>

\* broadcast::Sender::send never waits.
SendEvent ==
    /\ cycle.at = "send"
    /\ sent' = Append(sent, stored)
    /\ cycle' = [cycle EXCEPT !.at = "update", !.camera = NoCamera]
    /\ UNCHANGED <<catalog, stored, streams, queries, owed, changes, faults>>

\* A statement, or the listing, fails: the rest of the cycle is given up, and the
\* next one finds the status as it was written.
CycleFails ==
    /\ cycle.at \in {"rows", "update", "emit"}
    /\ faults < MaxFaults
    /\ faults' = faults + 1
    /\ cycle' = Idle
    /\ UNCHANGED <<catalog, channel, streams, queries, owed, changes>>

-----------------------------------------------------------------------------
(* event_stream and list_events, as the page uses them.                    *)

\* The EventSource connects, and connects again when its stream has ended.
Subscribe(g) ==
    /\ stream[g] = "closed"
    /\ stream' = [stream EXCEPT ![g] = "open"]
    /\ next' = [next EXCEPT ![g] = Len(sent) + 1]
    /\ since' = [since EXCEPT ![g] = stored]
    /\ delivered' = [delivered EXCEPT ![g] = <<>>]
    /\ UNCHANGED <<catalog, cycle, channel, skipped, queries, owed, changes, faults>>

\* The oldest position the channel still holds.
Oldest == IF Len(sent) > Capacity THEN Len(sent) - Capacity + 1 ELSE 1

\* The listener of "system-event" asks for the cameras and the events.
Receive(g) ==
    /\ stream[g] = "open"
    /\ next[g] <= Len(sent) /\ next[g] >= Oldest
    /\ delivered' = [delivered EXCEPT ![g] = Append(@, sent[next[g]])]
    /\ next' = [next EXCEPT ![g] = @ + 1]
    /\ requested' = [requested EXCEPT ![g] = @ + 1]
    /\ UNCHANGED <<catalog, cycle, channel, stream, since, skipped, answers, shown, owed,
                   changes, faults>>

\* Mutant of Lag: the receiver goes on with the oldest event there is.
LagContinues(g) ==
    /\ stream[g] = "open"
    /\ next[g] < Oldest
    /\ next' = [next EXCEPT ![g] = Oldest]
    /\ skipped' = [skipped EXCEPT ![g] = sent[Oldest - 1]]
    /\ UNCHANGED <<catalog, cycle, channel, stream, since, delivered, queries, owed, changes,
                   faults>>

\* Lagged: "resync-required" is sent, which no listener of the page hears, and the
\* stream ends.
Lag(g) ==
    /\ stream[g] = "open"
    /\ next[g] < Oldest
    /\ skipped' = [skipped EXCEPT ![g] = sent[Oldest - 1]]
    /\ stream' = [stream EXCEPT ![g] = "closed"]
    /\ UNCHANGED <<catalog, cycle, channel, next, since, delivered, queries, owed, changes,
                   faults>>

ListEvents(g) ==
    /\ requested[g] > 0
    /\ requested' = [requested EXCEPT ![g] = @ - 1]
    /\ answers' = [answers EXCEPT ![g] = @ \cup {stored}]
    /\ UNCHANGED <<catalog, cycle, channel, streams, shown, owed, changes, faults>>

\* setEvents shows the answers in the order they arrive; one that fails is reported.
ShowEvents(g) ==
    \E n \in answers[g] :
        /\ answers' = [answers EXCEPT ![g] = @ \ {n}]
        /\ \/ shown' = [shown EXCEPT ![g] = n]
           \/ UNCHANGED shown
        /\ UNCHANGED <<catalog, cycle, channel, streams, requested, owed, changes, faults>>

-----------------------------------------------------------------------------
\* The server dies, and starts again at once: the channel and the streams are gone.
Crash ==
    /\ faults < MaxFaults
    /\ faults' = faults + 1
    /\ cycle' = Idle
    /\ sent' = <<>>
    /\ stream' = [g \in Pages |-> "closed"]
    /\ UNCHANGED <<catalog, stored, next, since, delivered, skipped, queries, owed, changes>>

Refresh ==
    \/ ListPaths \/ ReadRows \/ EndCycle \/ InsertEvent \/ SendEvent
    \/ \E c \in Cameras : UpdateStatus(c)

StreamStep(g) == Subscribe(g) \/ Receive(g) \/ Lag(g)

Next ==
    \/ \E c \in Cameras : UpdateCamera(c) \/ DeleteCamera(c) \/ Reconciled(c) \/ Publish(c)
    \/ Refresh
    \/ CycleFails
    \/ \E g \in Pages : StreamStep(g) \/ ListEvents(g) \/ ShowEvents(g)
    \/ Crash

\* status_loop ticks for as long as the server runs; a stream's task is woken by
\* what is sent.
Fairness ==
    /\ WF_vars(Refresh)
    /\ \A g \in Pages : WF_vars(StreamStep(g))

Spec == Init /\ [][Next]_vars /\ Fairness

-----------------------------------------------------------------------------
(* Properties.                                                             *)

\* Within one stream a page is never shown an event after one it was not sent: what
\* is delivered is stored, is consecutive, and leaves out nothing that was stored
\* after the stream was opened (event_stream, emit_event).
StreamHasNoGap ==
    \A g \in Pages : stream[g] = "open" /\ delivered[g] # <<>> =>
        /\ delivered[g][1] <= since[g] + 1
        /\ \A i \in 1..Len(delivered[g]) :
             /\ delivered[g][i] <= stored
             /\ delivered[g][i] = delivered[g][1] + i - 1

\* A change of status that is to be announced is in the table events, unless a crash
\* or an error came between the two statements of its cycle: each loses at most one
\* (refresh_statuses).
LostAnnouncementsAreInterrupted ==
    owed <= faults + (IF cycle.at = "emit" THEN 1 ELSE 0)

Truth(c) ==
    CASE ~rows[c].enabled -> "disabled"
      [] rows[c].enabled /\ c \in published -> "online"
      [] OTHER -> "offline"

\* Whatever requests, reconciliations and refreshes wrote over each other, the
\* status of every camera becomes what its row and MediaMTX say, and stays so
\* (refresh_statuses reads and writes in separate statements).
StatusSettles ==
    <>[](\A c \in Cameras : rows[c].deleted \/ rows[c].status = Truth(c))

\* An event that is stored while a stream is open is delivered on it or the stream
\* ends: a page is not left waiting (event_stream).
EventsReachOpenStreams ==
    \A g \in Pages, e \in Events :
        (stream[g] = "open" /\ since[g] < e /\ e <= stored)
            ~> (stream[g] = "closed" \/ Contains(delivered[g], e))

\* A page that lagged has shown the events it skipped before it is subscribed again
\* (the comment of event_stream).
LaggedPageQueriesFirst ==
    \A g \in Pages : stream[g] = "open" => shown[g] >= skipped[g]
=============================================================================
