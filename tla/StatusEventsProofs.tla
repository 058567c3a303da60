-------------------------- MODULE StatusEventsProofs --------------------------
(***************************************************************************)
(* Proofs about StatusEvents: what a stream delivers and what a cycle      *)
(* announces, for any cameras, pages, capacity of the channel and bounds.  *)
(***************************************************************************)
EXTENDS StatusEvents, Integers, TLAPS

USE EventsAssumption

-----------------------------------------------------------------------------
(* The cycle and the announcements it owes.                                *)

\* An announcement is owed for the event that is being stored, and one for each
\* interruption at most.
CycleIInv ==
    /\ cycle.at \in {"idle", "rows", "update", "emit", "send"}
    /\ stored \in 0..MaxEvents
    /\ owed \in Nat /\ faults \in 0..MaxFaults
    /\ cycle.at = "emit" => owed > 0
    /\ LostAnnouncementsAreInterrupted

LEMMA CycleInitially == Init => CycleIInv
  BY DEF Init, Idle, CycleIInv, LostAnnouncementsAreInterrupted, EventsAssumption

LEMMA CycleStep == CycleIInv /\ [Next]_vars => CycleIInv'
<1> SUFFICES ASSUME CycleIInv, [Next]_vars PROVE CycleIInv'
  OBVIOUS
<1> USE DEF CycleIInv, LostAnnouncementsAreInterrupted, catalog, channel, streams, queries
<1>1. ASSUME UNCHANGED <<cycle, stored, owed, faults>> PROVE CycleIInv'
  BY <1>1
<1>2. ASSUME NEW c \in Cameras, UpdateCamera(c) \/ DeleteCamera(c) \/ Reconciled(c) \/ Publish(c)
      PROVE  CycleIInv'
  BY <1>1, <1>2 DEF UpdateCamera, DeleteCamera, Reconciled, Publish, Changes
<1>3. ASSUME NEW g \in Pages, StreamStep(g) \/ ListEvents(g) \/ ShowEvents(g)
      PROVE  CycleIInv'
  BY <1>1, <1>3 DEF StreamStep, Subscribe, Receive, Lag, ListEvents, ShowEvents
<1>4. CASE ListPaths
  <2>1. cycle'.at = "rows" BY <1>4 DEF ListPaths, Idle
  <2> QED BY <1>4, <2>1 DEF ListPaths
<1>5. CASE ReadRows
  <2>1. cycle'.at \in {"update", "rows"} BY <1>5 DEF ReadRows
  <2> QED BY <1>5, <2>1 DEF ReadRows
<1>6. CASE EndCycle
  <2>1. cycle'.at = "idle" BY <1>6 DEF EndCycle, Idle
  <2> QED BY <1>6, <2>1 DEF EndCycle
<1>7. CASE InsertEvent BY <1>7 DEF InsertEvent, EventsAssumption
<1>8. CASE SendEvent BY <1>8 DEF SendEvent
<1>9. ASSUME NEW c \in Cameras, UpdateStatus(c) PROVE CycleIInv'
  <2>1. cycle.at = "update" /\ stored' = stored /\ faults' = faults BY <1>9 DEF UpdateStatus
  <2>2. CASE cycle' = [cycle EXCEPT !.todo = @ \ {c}] /\ owed' = owed
    <3>1. cycle'.at = cycle.at BY <2>2
    <3> QED BY <2>1, <2>2, <3>1
  <2>3. CASE /\ cycle' = [cycle EXCEPT !.at = "emit", !.todo = @ \ {c}, !.camera = c]
             /\ owed' = owed + 1
    <3>1. cycle'.at \in {"emit", "update"} BY <2>1, <2>3
    <3> QED BY <2>1, <2>3, <3>1
  <2> QED BY <1>9, <2>2, <2>3 DEF UpdateStatus
<1>10. CASE CycleFails
  <2>1. cycle'.at = "idle" BY <1>10 DEF CycleFails, Idle
  <2> QED BY <1>10, <2>1 DEF CycleFails, EventsAssumption
<1>11. CASE Crash
  <2>1. cycle'.at = "idle" BY <1>11 DEF Crash, Idle
  <2> QED BY <1>11, <2>1 DEF Crash, EventsAssumption
<1>12. CASE UNCHANGED vars BY <1>1, <1>12 DEF vars
<1> QED BY <1>2, <1>3, <1>4, <1>5, <1>6, <1>7, <1>8, <1>9, <1>10, <1>11, <1>12
        DEF Next, Refresh

\* Whatever the requests, the reconciler, the streams and the crashes do, there is at
\* most one announcement lost for each interruption (refresh_statuses, emit_event).
THEOREM AnnouncementsAreStored == Spec => []LostAnnouncementsAreInterrupted
<1>1. CycleIInv => LostAnnouncementsAreInterrupted BY DEF CycleIInv
<1> QED BY <1>1, CycleInitially, CycleStep, PTL DEF Spec

-----------------------------------------------------------------------------
(* The streams.                                                            *)

\* The event that is stored and was not sent yet.
Unsent == IF cycle.at = "send" THEN 1 ELSE 0

\* The number of the event at a position of the channel: positions are numbered from
\* the start of the process, events from the creation of the database.
Number(i) == stored - Unsent - Len(sent) + i

\* What is sent is numbered without a gap up to the last event stored.
ChannelIInv ==
    /\ "at" \in DOMAIN cycle
    /\ cycle.at \in {"idle", "rows", "update", "emit", "send"}
    /\ stored \in 0..MaxEvents
    /\ cycle.at = "send" => stored > 0
    /\ sent \in Seq(Events)
    /\ \A i \in 1..Len(sent) : sent[i] = Number(i)

\* What an open stream delivered are the events of the positions before its own, from
\* the one after the last event stored when it was opened, or earlier.
StreamIInv(g) ==
    /\ next[g] \in 1..(Len(sent) + 1)
    /\ since[g] \in 0..MaxEvents
    /\ since[g] <= stored
    /\ delivered[g] \in Seq(Events)
    /\ Len(delivered[g]) < next[g]
    /\ Number(next[g] - Len(delivered[g])) <= since[g] + 1
    /\ \A i \in 1..Len(delivered[g]) :
         delivered[g][i] = Number(next[g] - Len(delivered[g]) - 1 + i)

StreamsIInv ==
    /\ ChannelIInv
    /\ DOMAIN next = Pages /\ DOMAIN since = Pages /\ DOMAIN delivered = Pages
    /\ stream \in [Pages -> {"closed", "open"}]
    /\ \A g \in Pages : stream[g] = "open" => StreamIInv(g)

LEMMA StreamsInitially == Init => StreamsIInv
<1> SUFFICES ASSUME Init PROVE StreamsIInv
  OBVIOUS
<1>1. "at" \in DOMAIN cycle /\ cycle.at = "idle" BY DEF Init, Idle
<1>2. sent = <<>> /\ stored = 0 BY DEF Init
<1>3. ChannelIInv BY <1>1, <1>2, EventsAssumption DEF ChannelIInv, Number, Unsent
<1>4. stream = [g \in Pages |-> "closed"] BY DEF Init
<1> QED BY <1>3, <1>4 DEF StreamsIInv, Init

\* The numbers of the positions stay as they are when neither an event is stored nor
\* sent.
LEMMA StreamsUndisturbed ==
    ASSUME StreamsIInv, UNCHANGED <<channel, streams>>, "at" \in DOMAIN cycle',
           cycle'.at \in {"idle", "rows", "update", "emit", "send"},
           (cycle'.at = "send") <=> (cycle.at = "send")
    PROVE  StreamsIInv'
<1>1. stored' = stored /\ sent' = sent BY DEF channel
<1>2. /\ stream' = stream /\ next' = next /\ since' = since /\ delivered' = delivered
  BY DEF streams
<1>3. Unsent' = Unsent BY DEF Unsent
<1>4. ChannelIInv' BY <1>1, <1>3 DEF StreamsIInv, ChannelIInv, Number
<1>5. ASSUME NEW g \in Pages, stream[g] = "open" PROVE StreamIInv(g)'
  BY <1>1, <1>2, <1>3, <1>5 DEF StreamsIInv, StreamIInv, Number
<1> QED BY <1>2, <1>4, <1>5 DEF StreamsIInv

LEMMA StreamsInsert == StreamsIInv /\ InsertEvent => StreamsIInv'
<1> SUFFICES ASSUME StreamsIInv, InsertEvent PROVE StreamsIInv'
  OBVIOUS
<1>1. "at" \in DOMAIN cycle BY DEF StreamsIInv, ChannelIInv
<1>2. cycle.at = "emit" /\ cycle' = [cycle EXCEPT !.at = "send"] BY DEF InsertEvent
<1>3. "at" \in DOMAIN cycle' /\ cycle'.at = "send" BY <1>1, <1>2
<1>4. stored' = stored + 1 /\ sent' = sent /\ stored < MaxEvents BY DEF InsertEvent
<1>5. stream' = stream /\ next' = next /\ since' = since /\ delivered' = delivered
  BY DEF InsertEvent, streams
<1>6. stored \in Nat /\ Unsent = 0 /\ Unsent' = 1
  BY <1>2, <1>3 DEF StreamsIInv, ChannelIInv, Unsent
<1>7. ChannelIInv'
  BY <1>3, <1>4, <1>6 DEF StreamsIInv, ChannelIInv, Number
<1>8. ASSUME NEW g \in Pages, stream[g] = "open" PROVE StreamIInv(g)'
  <2>1. StreamIInv(g) BY <1>8 DEF StreamsIInv
  <2>2. Len(sent) \in Nat /\ Len(delivered[g]) \in Nat
    BY <2>1 DEF StreamsIInv, ChannelIInv, StreamIInv
  <2> QED BY <1>4, <1>5, <1>6, <2>1, <2>2 DEF StreamIInv, Number
<1> QED BY <1>5, <1>7, <1>8 DEF StreamsIInv

LEMMA StreamsSend == StreamsIInv /\ SendEvent => StreamsIInv'
<1> SUFFICES ASSUME StreamsIInv, SendEvent PROVE StreamsIInv'
  OBVIOUS
<1>1. "at" \in DOMAIN cycle BY DEF StreamsIInv, ChannelIInv
<1>2. /\ cycle.at = "send"
      /\ cycle' = [cycle EXCEPT !.at = "update", !.camera = NoCamera]
  BY DEF SendEvent
<1>3. "at" \in DOMAIN cycle' /\ cycle'.at = "update" BY <1>1, <1>2
<1>4. stored' = stored /\ sent' = Append(sent, stored) BY DEF SendEvent
<1>5. stream' = stream /\ next' = next /\ since' = since /\ delivered' = delivered
  BY DEF SendEvent, streams
<1>6. stored \in Events /\ sent \in Seq(Events)
  BY <1>2 DEF StreamsIInv, ChannelIInv, Events
<1>7. sent' \in Seq(Events) /\ Len(sent') = Len(sent) + 1 BY <1>4, <1>6
<1>8. Unsent = 1 /\ Unsent' = 0 BY <1>2, <1>3 DEF Unsent
<1>9. \A i \in Int : Number(i)' = Number(i) BY <1>4, <1>6, <1>7, <1>8 DEF Number, Events
<1>10. ChannelIInv'
  <2>1. ASSUME NEW i \in 1..Len(sent') PROVE sent'[i] = stored' - Unsent' - Len(sent') + i
    <3>1. CASE i = Len(sent) + 1 BY <1>4, <1>6, <1>7, <1>8, <3>1 DEF Events
    <3>2. CASE i \in 1..Len(sent)
      <4>1. sent[i] = Number(i) BY <3>2 DEF StreamsIInv, ChannelIInv
      <4> QED BY <1>4, <1>6, <1>7, <1>8, <3>2, <4>1 DEF Number, Events
    <3> QED BY <1>6, <1>7, <3>1, <3>2
  <2> QED BY <1>3, <1>4, <1>6, <1>7, <2>1 DEF StreamsIInv, ChannelIInv, Number
<1>11. ASSUME NEW g \in Pages, stream[g] = "open" PROVE StreamIInv(g)'
  <2>1. StreamIInv(g) BY <1>11 DEF StreamsIInv
  <2>2. Len(sent) \in Nat /\ Len(delivered[g]) \in Nat
    BY <1>6, <2>1 DEF StreamIInv
  <2>3. next[g] \in Nat /\ stored \in Nat BY <1>6, <2>1, <2>2 DEF StreamIInv, Events
  <2> QED BY <1>4, <1>5, <1>7, <1>8, <2>1, <2>2, <2>3 DEF StreamIInv, Number
<1> QED BY <1>5, <1>10, <1>11 DEF StreamsIInv

LEMMA StreamsSubscribe ==
    ASSUME StreamsIInv, NEW p \in Pages, Subscribe(p) PROVE StreamsIInv'
<1>1. stored' = stored /\ sent' = sent /\ cycle' = cycle BY DEF Subscribe, channel
<1>2. ChannelIInv' /\ Unsent' = Unsent
  BY <1>1 DEF StreamsIInv, ChannelIInv, Number, Unsent
<1>3. /\ stream' = [stream EXCEPT ![p] = "open"]
      /\ next' = [next EXCEPT ![p] = Len(sent) + 1]
      /\ since' = [since EXCEPT ![p] = stored]
      /\ delivered' = [delivered EXCEPT ![p] = <<>>]
  BY DEF Subscribe
<1>4. stored \in 0..MaxEvents /\ Len(sent) \in Nat /\ Unsent \in {0, 1}
  BY DEF StreamsIInv, ChannelIInv, Unsent
<1>5. ASSUME NEW g \in Pages, stream'[g] = "open" PROVE StreamIInv(g)'
  <2>1. CASE g = p
    <3>1. next'[g] = Len(sent) + 1 /\ since'[g] = stored /\ delivered'[g] = <<>>
      BY <1>3, <2>1 DEF StreamsIInv
    <3> QED BY <1>1, <1>2, <1>4, <3>1 DEF StreamIInv, Number
  <2>2. CASE g # p
    <3>1. stream[g] = "open" /\ StreamIInv(g) BY <1>3, <1>5, <2>2 DEF StreamsIInv
    <3>2. next'[g] = next[g] /\ since'[g] = since[g] /\ delivered'[g] = delivered[g]
      BY <1>3, <2>2 DEF StreamsIInv
    <3> QED BY <1>1, <1>2, <3>1, <3>2 DEF StreamIInv, Number
  <2> QED BY <2>1, <2>2
<1> QED BY <1>2, <1>3, <1>5 DEF StreamsIInv

LEMMA StreamsReceive ==
    ASSUME StreamsIInv, NEW p \in Pages, Receive(p) PROVE StreamsIInv'
<1>1. stored' = stored /\ sent' = sent /\ cycle' = cycle BY DEF Receive, channel
<1>2. ChannelIInv' /\ Unsent' = Unsent
  BY <1>1 DEF StreamsIInv, ChannelIInv, Number, Unsent
<1>3. /\ stream' = stream /\ since' = since
      /\ next' = [next EXCEPT ![p] = @ + 1]
      /\ delivered' = [delivered EXCEPT ![p] = Append(@, sent[next[p]])]
      /\ stream[p] = "open" /\ next[p] <= Len(sent)
  BY DEF Receive
<1>4. StreamIInv(p) BY <1>3 DEF StreamsIInv
<1>5. ASSUME NEW g \in Pages, stream[g] = "open" PROVE StreamIInv(g)'
  <2>1. CASE g = p
    <3>1. next'[g] = next[p] + 1 /\ delivered'[g] = Append(delivered[p], sent[next[p]])
      BY <1>3, <2>1 DEF StreamsIInv
    <3>2. /\ stored \in Nat /\ sent \in Seq(Events) /\ Len(sent) \in Nat /\ Unsent \in {0, 1}
          /\ next[p] \in 1..Len(sent) /\ sent[next[p]] \in Events
          /\ sent[next[p]] = Number(next[p])
      BY <1>3, <1>4 DEF StreamsIInv, ChannelIInv, StreamIInv, Unsent
    <3>3. /\ delivered[p] \in Seq(Events) /\ Len(delivered[p]) \in Nat
          /\ delivered'[g] \in Seq(Events) /\ Len(delivered'[g]) = Len(delivered[p]) + 1
      BY <1>4, <3>1, <3>2 DEF StreamIInv
    <3>4. next'[g] - Len(delivered'[g]) = next[p] - Len(delivered[p])
      BY <3>1, <3>2, <3>3
    <3>5. ASSUME NEW i \in 1..Len(delivered'[g])
          PROVE  delivered'[g][i] = Number(next[p] - Len(delivered[p]) - 1 + i)
      <4>1. CASE i = Len(delivered[p]) + 1
        <5>1. delivered'[g][i] = sent[next[p]] BY <3>1, <3>2, <3>3, <4>1
        <5>2. next[p] - Len(delivered[p]) - 1 + i = next[p] BY <3>2, <3>3, <4>1
        <5> QED BY <3>2, <5>1, <5>2
      <4>2. CASE i \in 1..Len(delivered[p])
        <5>1. delivered'[g][i] = delivered[p][i] BY <3>1, <3>2, <3>3, <4>2
        <5> QED BY <1>4, <4>2, <5>1 DEF StreamIInv
      <4> QED BY <3>3, <4>1, <4>2
    <3>6. Number(next[p] - Len(delivered[p])) <= since[p] + 1
      BY <1>4 DEF StreamIInv
    <3>7. (Number(next[g] - Len(delivered[g])) <= since[g] + 1)'
      BY <1>1, <1>2, <1>3, <2>1, <3>4, <3>6 DEF Number
    <3>8. ASSUME NEW i \in 1..Len(delivered'[g])
          PROVE  (delivered[g][i] = Number(next[g] - Len(delivered[g]) - 1 + i))'
      BY <1>1, <1>2, <3>4, <3>5, <3>8 DEF Number
    <3>9. /\ next'[g] \in 1..(Len(sent') + 1) /\ Len(delivered'[g]) < next'[g]
           /\ since'[g] \in 0..MaxEvents /\ since'[g] <= stored'
      BY <1>1, <1>3, <1>4, <2>1, <3>1, <3>2, <3>3 DEF StreamIInv
    <3> QED BY <3>3, <3>7, <3>8, <3>9 DEF StreamIInv
  <2>2. CASE g # p
    <3>1. StreamIInv(g) BY <1>5 DEF StreamsIInv
    <3>2. next'[g] = next[g] /\ since'[g] = since[g] /\ delivered'[g] = delivered[g]
      BY <1>3, <2>2 DEF StreamsIInv
    <3> QED BY <1>1, <1>2, <3>1, <3>2 DEF StreamIInv, Number
  <2> QED BY <2>1, <2>2
<1> QED BY <1>2, <1>3, <1>5 DEF StreamsIInv

LEMMA StreamsStep == StreamsIInv /\ [Next]_vars => StreamsIInv'
<1> SUFFICES ASSUME StreamsIInv, [Next]_vars PROVE StreamsIInv'
  OBVIOUS
<1> USE DEF catalog, queries
<1>1. "at" \in DOMAIN cycle /\ cycle.at \in {"idle", "rows", "update", "emit", "send"}
  BY DEF StreamsIInv, ChannelIInv
<1>2. ASSUME cycle' = cycle, UNCHANGED <<channel, streams>> PROVE StreamsIInv'
  BY <1>1, <1>2, StreamsUndisturbed
<1>3. ASSUME NEW c \in Cameras, UpdateCamera(c) \/ DeleteCamera(c) \/ Reconciled(c) \/ Publish(c)
      PROVE  StreamsIInv'
  BY <1>2, <1>3 DEF UpdateCamera, DeleteCamera, Reconciled, Publish, Changes
<1>4. ASSUME NEW g \in Pages, StreamStep(g) \/ ListEvents(g) \/ ShowEvents(g)
      PROVE  StreamsIInv'
  <2>1. CASE Subscribe(g) BY <2>1, StreamsSubscribe
  <2>2. CASE Receive(g) BY <2>2, StreamsReceive
  <2>3. CASE Lag(g)
    <3>1. /\ stored' = stored /\ sent' = sent /\ cycle' = cycle
          /\ next' = next /\ since' = since /\ delivered' = delivered
          /\ stream' = [stream EXCEPT ![g] = "closed"]
      BY <2>3 DEF Lag, channel
    <3>2. ChannelIInv' /\ Unsent' = Unsent
      BY <3>1 DEF StreamsIInv, ChannelIInv, Number, Unsent
    <3>3. ASSUME NEW h \in Pages, stream'[h] = "open" PROVE StreamIInv(h)'
      <4>1. stream[h] = "open" BY <3>1, <3>3 DEF StreamsIInv
      <4> QED BY <3>1, <3>2, <4>1 DEF StreamsIInv, StreamIInv, Number
    <3> QED BY <3>1, <3>2, <3>3 DEF StreamsIInv
  <2>4. CASE ListEvents(g) \/ ShowEvents(g) BY <1>2, <2>4 DEF ListEvents, ShowEvents
  <2> QED BY <1>4, <2>1, <2>2, <2>3, <2>4 DEF StreamStep
<1>5. CASE ListPaths
  <2>1. cycle.at = "idle" /\ cycle' = [Idle EXCEPT !.at = "rows", !.paths = published]
    BY <1>5 DEF ListPaths
  <2>2. "at" \in DOMAIN Idle BY DEF Idle
  <2>3. "at" \in DOMAIN cycle' /\ cycle'.at = "rows" BY <2>1, <2>2
  <2>4. UNCHANGED <<channel, streams>> BY <1>5 DEF ListPaths
  <2> QED BY <2>1, <2>3, <2>4, StreamsUndisturbed
<1>6. CASE ReadRows
  <2>1. cycle.at = "rows" /\ UNCHANGED <<channel, streams>> BY <1>6 DEF ReadRows
  <2>2. "at" \in DOMAIN cycle' /\ cycle'.at = "update" BY <1>1, <1>6 DEF ReadRows
  <2> QED BY <2>1, <2>2, StreamsUndisturbed
<1>7. CASE EndCycle \/ CycleFails
  <2>1. cycle.at # "send" /\ UNCHANGED <<channel, streams>>
    BY <1>7 DEF EndCycle, CycleFails
  <2>2. "at" \in DOMAIN cycle' /\ cycle'.at = "idle" BY <1>7 DEF EndCycle, CycleFails, Idle
  <2> QED BY <2>1, <2>2, StreamsUndisturbed
<1>8. ASSUME NEW c \in Cameras, UpdateStatus(c) PROVE StreamsIInv'
  <2>1. cycle.at = "update" /\ UNCHANGED <<channel, streams>> BY <1>8 DEF UpdateStatus
  <2>2. CASE cycle' = [cycle EXCEPT !.todo = @ \ {c}]
    <3>1. "at" \in DOMAIN cycle' /\ cycle'.at = "update" BY <1>1, <2>1, <2>2
    <3> QED BY <2>1, <3>1, StreamsUndisturbed
  <2>3. CASE cycle' = [cycle EXCEPT !.at = "emit", !.todo = @ \ {c}, !.camera = c]
    <3>1. "at" \in DOMAIN cycle' /\ cycle'.at = "emit" BY <1>1, <2>3
    <3> QED BY <2>1, <3>1, StreamsUndisturbed
  <2> QED BY <1>8, <2>2, <2>3 DEF UpdateStatus
<1>9. CASE Crash
  <2>1. /\ "at" \in DOMAIN cycle' /\ cycle'.at = "idle"
        /\ stored' = stored /\ sent' = <<>>
        /\ next' = next /\ since' = since /\ delivered' = delivered
        /\ stream' = [g \in Pages |-> "closed"]
    BY <1>9 DEF Crash, Idle
  <2>2. ChannelIInv' BY <2>1 DEF StreamsIInv, ChannelIInv, Number
  <2> QED BY <2>1, <2>2 DEF StreamsIInv
<1>10. CASE UNCHANGED vars BY <1>2, <1>10 DEF vars, channel, streams
<1> QED BY <1>3, <1>4, <1>5, <1>6, <1>7, <1>8, <1>9, <1>10, StreamsInsert, StreamsSend
        DEF Next, Refresh

\* For any capacity of the channel, any number of pages, crashes and lags: what an
\* open stream delivered is stored, consecutive, and leaves out nothing that was
\* stored after it was opened (event_stream).
THEOREM StreamsHaveNoGap == Spec => []StreamHasNoGap
<1>1. StreamsIInv => StreamHasNoGap
  <2> SUFFICES ASSUME StreamsIInv, NEW g \in Pages, stream[g] = "open", delivered[g] # <<>>
               PROVE  /\ delivered[g][1] <= since[g] + 1
                      /\ \A i \in 1..Len(delivered[g]) :
                           /\ delivered[g][i] <= stored
                           /\ delivered[g][i] = delivered[g][1] + i - 1
    BY DEF StreamHasNoGap
  <2>1. StreamIInv(g) BY DEF StreamsIInv
  <2>2. /\ stored \in Nat /\ Len(sent) \in Nat /\ Unsent \in {0, 1}
        /\ next[g] \in 1..(Len(sent) + 1) /\ since[g] \in Nat
        /\ Len(delivered[g]) \in Nat \ {0}
    BY <2>1 DEF StreamsIInv, ChannelIInv, StreamIInv, Unsent
  <2>3. delivered[g][1] = Number(next[g] - Len(delivered[g]))
    BY <2>1, <2>2 DEF StreamIInv
  <2>4. delivered[g][1] <= since[g] + 1 BY <2>1, <2>3 DEF StreamIInv
  <2>5. ASSUME NEW i \in 1..Len(delivered[g])
        PROVE  /\ delivered[g][i] <= stored
               /\ delivered[g][i] = delivered[g][1] + i - 1
    <3>1. delivered[g][i] = Number(next[g] - Len(delivered[g]) - 1 + i)
      BY <2>1 DEF StreamIInv
    <3> QED BY <2>2, <2>3, <3>1 DEF Number
  <2> QED BY <2>4, <2>5
<1> QED BY <1>1, StreamsInitially, StreamsStep, PTL DEF Spec

-----------------------------------------------------------------------------
(* Type correctness.                                                       *)

CatalogOK ==
    /\ rows \in [Cameras -> Row]
    /\ published \in SUBSET Cameras
    /\ cycle.todo \in SUBSET Cameras
    /\ cycle.camera \in Cameras \cup {NoCamera}
    /\ changes \in 0..MaxChanges

PagesOK ==
    /\ next \in [Pages -> Nat \ {0}]
    /\ since \in [Pages -> 0..MaxEvents]
    /\ delivered \in [Pages -> Seq(Events)]
    /\ skipped \in [Pages -> 0..MaxEvents]
    /\ requested \in [Pages -> Nat]
    /\ answers \in [Pages -> SUBSET (0..MaxEvents)]
    /\ shown \in [Pages -> 0..MaxEvents]

LEMMA CatalogInitially == Init => CatalogOK
<1> SUFFICES ASSUME Init PROVE CatalogOK
  OBVIOUS
<1>1. cycle.todo = {} /\ cycle.camera = NoCamera BY DEF Init, Idle
<1> QED BY <1>1, EventsAssumption DEF Init, CatalogOK, Row, Statuses

LEMMA CatalogStep == CatalogOK /\ [Next]_vars => CatalogOK'
<1> SUFFICES ASSUME CatalogOK, [Next]_vars PROVE CatalogOK'
  OBVIOUS
<1> USE DEF catalog
<1>1. ASSUME UNCHANGED <<rows, published, cycle, changes>> PROVE CatalogOK'
  BY <1>1 DEF CatalogOK
<1>2. ASSUME NEW c \in Cameras, UpdateCamera(c) \/ DeleteCamera(c) \/ Reconciled(c) \/ Publish(c)
      PROVE  CatalogOK'
  <2>1. changes' \in 0..MaxChanges /\ cycle' = cycle
    <3>1. Changes BY <1>2 DEF UpdateCamera, DeleteCamera, Reconciled, Publish
    <3> QED BY <3>1, EventsAssumption DEF Changes, CatalogOK
  <2>2. /\ rows \in [Cameras -> Row]
        /\ rows[c].enabled \in BOOLEAN /\ rows[c].deleted \in BOOLEAN
    BY DEF CatalogOK, Row
  <2>3. ASSUME NEW enabled \in BOOLEAN, NEW deleted \in BOOLEAN, NEW status \in Statuses,
               SetRow(c, enabled, deleted, status)
        PROVE  rows' \in [Cameras -> Row]
    <3>1. [enabled |-> enabled, deleted |-> deleted, status |-> status] \in Row BY DEF Row
    <3> QED BY <2>2, <2>3, <3>1 DEF SetRow
  <2>4. {"pending", "disabled", "error"} \subseteq Statuses BY DEF Statuses
  <2>5. CASE UpdateCamera(c)
    <3>1. PICK enabled \in BOOLEAN :
            SetRow(c, enabled, FALSE, IF enabled THEN "pending" ELSE "disabled")
      BY <2>5 DEF UpdateCamera
    <3>2. rows' \in [Cameras -> Row] BY <2>3, <2>4, <3>1
    <3> QED BY <2>1, <2>5, <3>2 DEF UpdateCamera, CatalogOK
  <2>6. CASE DeleteCamera(c)
    <3>1. SetRow(c, rows[c].enabled, TRUE, "disabled") BY <2>6 DEF DeleteCamera
    <3>2. rows' \in [Cameras -> Row] BY <2>2, <2>3, <2>4, <3>1
    <3> QED BY <2>1, <2>6, <3>2 DEF DeleteCamera, CatalogOK
  <2>7. CASE Reconciled(c)
    <3>1. \E status \in Statuses : SetRow(c, rows[c].enabled, rows[c].deleted, status)
      BY <2>4, <2>7 DEF Reconciled
    <3>2. rows' \in [Cameras -> Row] BY <2>2, <2>3, <3>1
    <3> QED BY <2>1, <2>7, <3>2 DEF Reconciled, CatalogOK
  <2>8. CASE Publish(c)
    <3>1. published' \in SUBSET Cameras BY <2>8 DEF Publish, CatalogOK
    <3> QED BY <2>1, <2>8, <3>1 DEF Publish, CatalogOK
  <2> QED BY <1>2, <2>5, <2>6, <2>7, <2>8
<1>3. ASSUME cycle'.todo \in SUBSET Cameras, cycle'.camera \in Cameras \cup {NoCamera},
             UNCHANGED <<rows, published, changes>>
      PROVE  CatalogOK'
  BY <1>3 DEF CatalogOK
<1>4. CASE ListPaths
  <2>1. cycle'.todo = {} /\ cycle'.camera = NoCamera BY <1>4 DEF ListPaths, Idle
  <2> QED BY <1>3, <1>4, <2>1 DEF ListPaths
<1>5. CASE ReadRows
  <2>1. {c \in Cameras : ~rows[c].deleted} \in SUBSET Cameras OBVIOUS
  <2>2. \E todo \in SUBSET Cameras :
          cycle' = [cycle EXCEPT !.at = "update", !.rows = rows, !.todo = todo]
    BY <1>5, <2>1 DEF ReadRows
  <2>3. cycle'.todo \in SUBSET Cameras
    <3> PICK todo \in SUBSET Cameras :
          cycle' = [cycle EXCEPT !.at = "update", !.rows = rows, !.todo = todo]
      BY <2>2
    <3>1. cycle'.todo \in {todo, cycle.todo} OBVIOUS
    <3>2. cycle.todo \in SUBSET Cameras BY DEF CatalogOK
    <3> QED BY <3>1, <3>2
  <2>4. cycle'.camera = cycle.camera BY <2>2
  <2> QED BY <1>3, <1>5, <2>3, <2>4 DEF ReadRows, CatalogOK
<1>6. CASE EndCycle \/ CycleFails \/ Crash
  <2>1. cycle'.todo = {} /\ cycle'.camera = NoCamera
    BY <1>6 DEF EndCycle, CycleFails, Crash, Idle
  <2> QED BY <1>3, <1>6, <2>1 DEF EndCycle, CycleFails, Crash
<1>7. CASE InsertEvent
  <2>1. cycle'.todo = cycle.todo /\ cycle'.camera = cycle.camera BY <1>7 DEF InsertEvent
  <2> QED BY <1>3, <1>7, <2>1 DEF InsertEvent, CatalogOK
<1>8. CASE SendEvent
  <2>1. cycle'.todo = cycle.todo /\ cycle'.camera \in {NoCamera, cycle.camera}
    BY <1>8 DEF SendEvent
  <2> QED BY <1>3, <1>8, <2>1 DEF SendEvent, CatalogOK
<1>9. ASSUME NEW c \in Cameras, UpdateStatus(c) PROVE CatalogOK'
  <2>1. cycle'.todo \in {cycle.todo \ {c}, cycle.todo} /\ cycle'.camera \in {c, cycle.camera}
    <3>1. CASE cycle' = [cycle EXCEPT !.todo = @ \ {c}] BY <3>1
    <3>2. CASE cycle' = [cycle EXCEPT !.at = "emit", !.todo = @ \ {c}, !.camera = c] BY <3>2
    <3> QED BY <1>9, <3>1, <3>2 DEF UpdateStatus
  <2>2. NewStatus(c) \in Statuses BY DEF NewStatus, Statuses
  <2>3. rows' = rows \/ rows' = [rows EXCEPT ![c].status = NewStatus(c)]
    BY <1>9 DEF UpdateStatus
  <2>4. rows' \in [Cameras -> Row]
    <3>1. rows[c] \in Row BY DEF CatalogOK
    <3>2. [rows[c] EXCEPT !.status = NewStatus(c)] \in Row BY <2>2, <3>1 DEF Row
    <3> QED BY <2>3, <3>2 DEF CatalogOK
  <2>5. published' = published /\ changes' = changes BY <1>9 DEF UpdateStatus
  <2> QED BY <2>1, <2>4, <2>5 DEF CatalogOK
<1>10. ASSUME NEW g \in Pages, StreamStep(g) \/ ListEvents(g) \/ ShowEvents(g)
       PROVE  CatalogOK'
  BY <1>1, <1>10 DEF StreamStep, Subscribe, Receive, Lag, ListEvents, ShowEvents
<1>11. CASE UNCHANGED vars BY <1>1, <1>11 DEF vars
<1> QED BY <1>2, <1>4, <1>5, <1>6, <1>7, <1>8, <1>9, <1>10, <1>11 DEF Next, Refresh

LEMMA PagesInitially == Init => PagesOK
  BY EventsAssumption DEF Init, PagesOK

LEMMA PagesStep == ChannelIInv /\ PagesOK /\ [Next]_vars => PagesOK'
<1> SUFFICES ASSUME ChannelIInv, PagesOK, [Next]_vars PROVE PagesOK'
  OBVIOUS
<1> USE DEF catalog, channel, streams, queries
<1>1. ASSUME UNCHANGED <<next, since, delivered, skipped, queries>> PROVE PagesOK'
  BY <1>1 DEF PagesOK
<1>2. stored \in 0..MaxEvents /\ sent \in Seq(Events) /\ Len(sent) \in Nat
  BY DEF ChannelIInv
<1>3. ASSUME NEW g \in Pages, StreamStep(g) \/ ListEvents(g) \/ ShowEvents(g)
      PROVE  PagesOK'
  <2>1. CASE Subscribe(g) BY <1>2, <2>1 DEF Subscribe, PagesOK
  <2>2. CASE Receive(g)
    <3>1. next[g] \in 1..Len(sent) BY <1>2, <2>2 DEF Receive, PagesOK
    <3>2. sent[next[g]] \in Events BY <1>2, <3>1
    <3>3. Append(delivered[g], sent[next[g]]) \in Seq(Events) BY <3>2 DEF PagesOK
    <3>4. /\ delivered' = [delivered EXCEPT ![g] = Append(delivered[g], sent[next[g]])]
          /\ next' = [next EXCEPT ![g] = next[g] + 1]
          /\ requested' = [requested EXCEPT ![g] = requested[g] + 1]
      BY <2>2 DEF Receive
    <3>5. delivered' \in [Pages -> Seq(Events)] BY <3>3, <3>4 DEF PagesOK
    <3>6. next' \in [Pages -> Nat \ {0}] /\ requested' \in [Pages -> Nat]
      BY <3>4 DEF PagesOK
    <3> QED BY <2>2, <3>5, <3>6 DEF Receive, PagesOK
  <2>3. CASE Lag(g)
    <3>1. Oldest - 1 \in 1..Len(sent)
      BY <1>2, <2>3, EventsAssumption DEF Lag, PagesOK, Oldest
    <3>2. sent[Oldest - 1] \in 0..MaxEvents BY <1>2, <3>1 DEF Events
    <3> QED BY <2>3, <3>2 DEF Lag, PagesOK
  <2>4. CASE ListEvents(g) BY <1>2, <2>4 DEF ListEvents, PagesOK
  <2>5. CASE ShowEvents(g) BY <2>5 DEF ShowEvents, PagesOK
  <2> QED BY <1>3, <2>1, <2>2, <2>3, <2>4, <2>5 DEF StreamStep
<1>4. ASSUME NEW c \in Cameras, UpdateCamera(c) \/ DeleteCamera(c) \/ Reconciled(c) \/ Publish(c)
      PROVE  PagesOK'
  BY <1>1, <1>4 DEF UpdateCamera, DeleteCamera, Reconciled, Publish, Changes
<1>5. CASE Refresh
  BY <1>1, <1>5 DEF Refresh, ListPaths, ReadRows, EndCycle, InsertEvent, SendEvent, UpdateStatus
<1>6. CASE CycleFails \/ Crash BY <1>1, <1>6 DEF CycleFails, Crash
<1>7. CASE UNCHANGED vars BY <1>1, <1>7 DEF vars
<1> QED BY <1>3, <1>4, <1>5, <1>6, <1>7 DEF Next

\* Every reachable state is well-formed; in particular refresh_statuses writes no
\* status of its own and a lagging receiver finds the event it skipped last.
THEOREM StatusEventsTypes == Spec => []TypeOK
<1> DEFINE IInv == CycleIInv /\ StreamsIInv /\ CatalogOK /\ PagesOK
<1>1. IInv => TypeOK
  BY DEF CycleIInv, StreamsIInv, ChannelIInv, CatalogOK, PagesOK, TypeOK
<1>2. Init => IInv BY CycleInitially, StreamsInitially, CatalogInitially, PagesInitially
<1>3. IInv /\ [Next]_vars => IInv'
  BY CycleStep, StreamsStep, CatalogStep, PagesStep DEF StreamsIInv
<1> QED BY <1>1, <1>2, <1>3, PTL DEF Spec
=============================================================================
