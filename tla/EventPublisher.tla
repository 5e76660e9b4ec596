--------------------------- MODULE EventPublisher ---------------------------
(***************************************************************************)
(* The event publisher of internal/events/publisher.go with the threads    *)
(* that call it: writers, which store what they learned of a cluster and   *)
(* publish it (the poll goroutine of a query engine, a health check), and  *)
(* subscribers, which call Subscribe, then Snapshot, then receive.         *)
(*                                                                         *)
(* A call is split where the code lets another thread in: the flag         *)
(* p.closed is read before p.mu is taken (or without taking it), the store *)
(* is called between that read and the broadcast, and Snapshot reads one   *)
(* cluster after another without p.mu.  What runs under p.mu is one step.  *)
(*                                                                         *)
(* A version number stands for the payload: version n of a cluster is the  *)
(* n-th reading its writers took of it.                                    *)
(***************************************************************************)
EXTENDS Integers, Sequences, FiniteSets

CONSTANTS
  Clusters,    \* cluster ids
  Writers,     \* threads that store and publish
  ClusterOf,   \* ClusterOf[w]: the cluster writer w publishes for
  Subs,        \* subscriptions; each one is made by one call of Subscribe
  Filters,     \* the clusterIDs arguments in use; {} stands for an empty list
  BufferCap,   \* capacity of a subscriber's channel (100 in the code)
  MaxVersion   \* bound: readings per cluster

ASSUME PublisherAssumption ==
  /\ ClusterOf \in [Writers -> Clusters]
  /\ Filters \subseteq SUBSET Clusters
  /\ BufferCap \in Nat \ {0}
  /\ MaxVersion \in Nat

VARIABLES
  latest,      \* latest[c]: the last version read of cluster c
  stored,      \* stored[c]: the version the store holds, 0 for none
  wpc,         \* wpc[w]: where writer w stands in its store-then-publish
  wver,        \* wver[w]: the version writer w is publishing
  closed,      \* Publisher.closed
  subscribers, \* keys of Publisher.subscribers
  filter,      \* Subscriber.ClusterIDs, {} for nil
  chan,        \* contents of Subscriber.Channel, oldest first
  chanState,   \* "none" before make, "open", "closed" after close
  phase,       \* phase[s]: where the subscribing thread stands
  snapTodo,    \* clusters its Snapshot call has still to read
  snap,        \* what its Snapshot call has read, 0 for no event
  view,        \* view[s][c]: the version s was handed last, 0 for none
  missed       \* history: clusters whose newest version was not handed to s

writerVars == <<latest, stored, wpc, wver>>
snapVars   == <<snapTodo, snap>>
vars == <<writerVars, closed, subscribers, filter, chan, chanState, phase,
          snapVars, view, missed>>

Versions == 0..MaxVersion
Event    == [by : Writers, ver : Versions]
EventCluster(e) == ClusterOf[e.by]

\* No filter was given, or it names the cluster.
Wants(s, c) == filter[s] = {} \/ c \in filter[s]

Init ==
  /\ latest = [c \in Clusters |-> 0]
  /\ stored = [c \in Clusters |-> 0]
  /\ wpc = [w \in Writers |-> "idle"]
  /\ wver = [w \in Writers |-> 0]
  /\ closed = FALSE
  /\ subscribers = {}
  /\ filter = [s \in Subs |-> {}]
  /\ chan = [s \in Subs |-> <<>>]
  /\ chanState = [s \in Subs |-> "none"]
  /\ phase = [s \in Subs |-> "idle"]
  /\ snapTodo = [s \in Subs |-> {}]
  /\ snap = [s \in Subs |-> [c \in Clusters |-> 0]]
  /\ view = [s \in Subs |-> [c \in Clusters |-> 0]]
  /\ missed = [s \in Subs |-> {}]

-----------------------------------------------------------------------------
(* Writers: SetClusterData, then PublishClusterUpdate (SetClusterStatus,   *)
(* then PublishClusterStatus, for the status of a cluster).                *)

Goto(w, label) == wpc' = [wpc EXCEPT ![w] = label]

\* A new reading is stored.  A failed store write is only logged, and the
\* reading is published all the same.
Store(w) ==
  LET c == ClusterOf[w] IN
    /\ wpc[w] = "idle"
    /\ latest[c] < MaxVersion
    /\ latest' = [latest EXCEPT ![c] = @ + 1]
    /\ wver' = [wver EXCEPT ![w] = latest[c] + 1]
    /\ \/ stored' = [stored EXCEPT ![c] = latest[c] + 1]
       \/ UNCHANGED stored
    /\ Goto(w, "stored")
    /\ UNCHANGED <<closed, subscribers, filter, chan, chanState, phase,
                   snapVars, view, missed>>

\* Publish* reads p.closed, without the lock.
CheckClosed(w) ==
  /\ wpc[w] = "stored"
  /\ Goto(w, IF closed THEN "idle" ELSE "checked")
  /\ UNCHANGED <<latest, stored, wver, closed, subscribers, filter, chan,
                 chanState, phase, snapVars, view, missed>>

PublishToStore(w) ==
  /\ wpc[w] = "checked"
  /\ Goto(w, "accepted")
  /\ UNCHANGED <<latest, stored, wver, closed, subscribers, filter, chan,
                 chanState, phase, snapVars, view, missed>>

\* The store refuses the event: Publish* returns and nothing is broadcast.
PublishToStoreFails(w) ==
  /\ wpc[w] = "checked"
  /\ Goto(w, "idle")
  /\ missed' = [s \in Subs |->
       IF s \in subscribers THEN missed[s] \cup {ClusterOf[w]} ELSE missed[s]]
  /\ UNCHANGED <<latest, stored, wver, closed, subscribers, filter, chan,
                 chanState, phase, snapVars, view>>

\* Fault: a nil filter is taken for an empty one.
InterestedByFilterOnly(c) == {s \in subscribers : c \in filter[s]}
\* Fault: one event more than the channel holds.
HasRoomOffByOne(s) == Len(chan[s]) <= BufferCap

\* The subscribers broadcastEvent sends to, and those of them with room.
Interested(c) == {s \in subscribers : Wants(s, c)}
HasRoom(s) == Len(chan[s]) < BufferCap

\* Fault: the broadcast is tried again although it was done.
BroadcastAgain(w) ==
  LET e == [by |-> w, ver |-> wver[w]] IN
    /\ wpc[w] = "accepted"
    /\ chan' = [s \in Subs |->
         IF s \in Interested(ClusterOf[w]) /\ HasRoom(s)
           THEN Append(chan[s], e) ELSE chan[s]]
    /\ UNCHANGED <<latest, stored, wpc, wver, closed, subscribers, filter,
                   chanState, phase, snapVars, view, missed>>

\* broadcastEvent, under p.mu.RLock: a non-blocking send to each.
Broadcast(w) ==
  LET c == ClusterOf[w]
      e == [by |-> w, ver |-> wver[w]]
  IN
    /\ wpc[w] = "accepted"
    /\ chan' = [s \in Subs |->
         IF s \in Interested(c) /\ HasRoom(s)
           THEN Append(chan[s], e) ELSE chan[s]]
    /\ missed' = [s \in Subs |->
         IF s \notin Interested(c) THEN missed[s]
         ELSE IF HasRoom(s) THEN missed[s] \ {c} ELSE missed[s] \cup {c}]
    /\ Goto(w, "idle")
    /\ UNCHANGED <<latest, stored, wver, closed, subscribers, filter,
                   chanState, phase, snapVars, view>>

-----------------------------------------------------------------------------
(* Subscribers.                                                            *)

Enter(s, label) == phase' = [phase EXCEPT ![s] = label]

\* Subscribe reads p.closed before it takes the lock.
SubscribeCheck(s) ==
  /\ phase[s] = "idle"
  /\ Enter(s, IF closed THEN "refused" ELSE "checked")
  /\ UNCHANGED <<writerVars, closed, subscribers, filter, chan, chanState,
                 snapVars, view, missed>>

\* The rest of Subscribe, under p.mu.
Subscribe(s) ==
  /\ phase[s] = "checked"
  /\ Enter(s, "subscribed")
  /\ subscribers' = subscribers \cup {s}
  /\ chanState' = [chanState EXCEPT ![s] = "open"]
  /\ \E f \in Filters : filter' = [filter EXCEPT ![s] = f]
  /\ UNCHANGED <<writerVars, closed, chan, snapVars, view, missed>>

\* The clusters Snapshot reads: the filter's, or all that the store knows.
SnapshotIDs(s) ==
  IF filter[s] = {} THEN {c \in Clusters : stored[c] # 0} ELSE filter[s]

\* Snapshot begins, or returns an error when the publisher is closed.
SnapshotBegin(s) ==
  /\ phase[s] = "subscribed"
  /\ \/ /\ closed
        /\ Enter(s, "live")
        /\ UNCHANGED <<snapTodo, missed>>
     \/ /\ ~closed
        /\ Enter(s, "snapshot")
        /\ snapTodo' = [snapTodo EXCEPT ![s] = SnapshotIDs(s)]
        /\ missed' = [missed EXCEPT ![s] =
             @ \cup {c \in Clusters \ SnapshotIDs(s) : latest[c] # 0}]
  /\ UNCHANGED <<writerVars, closed, subscribers, filter, chan, chanState,
                 snap, view>>

\* Snapshot reads one cluster; a read that fails adds no event.
SnapshotRead(s, c) ==
  /\ phase[s] = "snapshot"
  /\ c \in snapTodo[s]
  /\ snapTodo' = [snapTodo EXCEPT ![s] = @ \ {c}]
  /\ \E v \in {stored[c], 0} :
       /\ snap' = [snap EXCEPT ![s][c] = v]
       /\ missed' = [missed EXCEPT ![s] =
            IF v = latest[c] THEN @ ELSE @ \cup {c}]
  /\ UNCHANGED <<writerVars, closed, subscribers, filter, chan, chanState,
                 phase, view>>

\* The snapshot is handed over whole, before any event from the channel.
Bootstrap(s) ==
  /\ phase[s] = "snapshot"
  /\ snapTodo[s] = {}
  /\ view' = [view EXCEPT ![s] = snap[s]]
  /\ Enter(s, "live")
  /\ UNCHANGED <<writerVars, closed, subscribers, filter, chan, chanState,
                 snapVars, missed>>

\* Fault: events are consumed while the snapshot is still being read.
ReceiveEarly(s) ==
  /\ phase[s] \in {"snapshot", "live"}
  /\ chan[s] # <<>>
  /\ view' = [view EXCEPT ![s][EventCluster(Head(chan[s]))] = Head(chan[s]).ver]
  /\ chan' = [chan EXCEPT ![s] = Tail(@)]
  /\ UNCHANGED <<writerVars, closed, subscribers, filter, chanState, phase,
                 snapVars, missed>>

\* A receive from the channel; buffered events outlive its close.
Receive(s) ==
  /\ phase[s] = "live"
  /\ chan[s] # <<>>
  /\ view' = [view EXCEPT ![s][EventCluster(Head(chan[s]))] = Head(chan[s]).ver]
  /\ chan' = [chan EXCEPT ![s] = Tail(@)]
  /\ UNCHANGED <<writerVars, closed, subscribers, filter, chanState, phase,
                 snapVars, missed>>

\* A receive that reports the channel closed and drained.
ReceiveClosed(s) ==
  /\ phase[s] = "live"
  /\ chan[s] = <<>>
  /\ chanState[s] = "closed"
  /\ Enter(s, "done")
  /\ UNCHANGED <<writerVars, closed, subscribers, filter, chan, chanState,
                 snapVars, view, missed>>

\* Fault: the channel is closed and its entry is kept.
UnsubscribeKeepsEntry(s) ==
  /\ phase[s] \in {"subscribed", "snapshot", "live"}
  /\ s \in subscribers
  /\ chanState' = [chanState EXCEPT ![s] = "closed"]
  /\ UNCHANGED <<writerVars, closed, subscribers, filter, chan, phase,
                 snapVars, view, missed>>

\* Unsubscribe, under p.mu: a channel that is not registered is ignored.
Unsubscribe(s) ==
  /\ phase[s] \in {"subscribed", "snapshot", "live"}
  /\ s \in subscribers
  /\ chanState' = [chanState EXCEPT ![s] = "closed"]
  /\ subscribers' = subscribers \ {s}
  /\ UNCHANGED <<writerVars, closed, filter, chan, phase, snapVars, view,
                 missed>>

\* Close, under p.mu.
Close ==
  /\ ~closed
  /\ closed' = TRUE
  /\ chanState' = [s \in Subs |->
       IF s \in subscribers THEN "closed" ELSE chanState[s]]
  /\ subscribers' = {}
  /\ UNCHANGED <<writerVars, filter, chan, phase, snapVars, view, missed>>

-----------------------------------------------------------------------------
WriterStep(w) ==
  \/ Store(w)
  \/ CheckClosed(w)
  \/ PublishToStore(w)
  \/ PublishToStoreFails(w)
  \/ Broadcast(w)

Consume(s) ==
  \/ SnapshotBegin(s)
  \/ \E c \in Clusters : SnapshotRead(s, c)
  \/ Bootstrap(s)
  \/ Receive(s)
  \/ ReceiveClosed(s)

SubscriberStep(s) ==
  \/ SubscribeCheck(s)
  \/ Subscribe(s)
  \/ Consume(s)
  \/ Unsubscribe(s)

Next ==
  \/ \E w \in Writers : WriterStep(w)
  \/ \E s \in Subs : SubscriberStep(s)
  \/ Close

Spec == Init /\ [][Next]_vars

\* A writer that has begun publishing finishes the call (it blocks on
\* nothing), and a subscriber goes on consuming.  No new reading, no
\* subscription and no Close is promised.
Fairness ==
  /\ \A w \in Writers : WF_vars(CheckClosed(w) \/ PublishToStore(w)
                                \/ PublishToStoreFails(w) \/ Broadcast(w))
  /\ \A s \in Subs : WF_vars(Consume(s))

FairSpec == Spec /\ Fairness

-----------------------------------------------------------------------------
(* Properties.                                                             *)

\* Every variable stays in its type: no channel outgrows its buffer.
TypeOK ==
  /\ latest \in [Clusters -> Versions]
  /\ stored \in [Clusters -> Versions]
  /\ wpc \in [Writers -> {"idle", "stored", "checked", "accepted"}]
  /\ wver \in [Writers -> Versions]
  /\ closed \in BOOLEAN
  /\ subscribers \subseteq Subs
  /\ filter \in [Subs -> SUBSET Clusters]
  /\ chan \in [Subs -> Seq(Event)]
  /\ \A s \in Subs : Len(chan[s]) <= BufferCap
  /\ chanState \in [Subs -> {"none", "open", "closed"}]
  /\ phase \in [Subs -> {"idle", "checked", "refused", "subscribed",
                         "snapshot", "live", "done"}]
  /\ snapTodo \in [Subs -> SUBSET Clusters]
  /\ snap \in [Subs -> [Clusters -> Versions]]
  /\ view \in [Subs -> [Clusters -> Versions]]
  /\ missed \in [Subs -> SUBSET Clusters]

\* The registered subscribers are exactly those whose channel is open: no
\* broadcast sends on a closed channel, no Unsubscribe or Close closes one
\* twice (both would panic), and no open channel is forgotten, whose
\* receiver would then wait for ever.
ChannelOwnership == subscribers = {s \in Subs : chanState[s] = "open"}

\* The events of one writer sit in every channel in the order it took its
\* readings, although the channels are filled outside the writer's own
\* store-then-publish and may drop any of them.
WriterOrder ==
  \A s \in Subs : \A i, j \in DOMAIN chan[s] :
    i < j /\ chan[s][i].by = chan[s][j].by => chan[s][i].ver < chan[s][j].ver

\* No event in the queue q is for c; the last one in q that is carries v.
Absent(q, c) == \A i \in DOMAIN q : EventCluster(q[i]) # c
LastIs(q, c, v) ==
  \E i \in DOMAIN q : /\ EventCluster(q[i]) = c
                      /\ q[i].ver = v
                      /\ \A j \in DOMAIN q : i < j => EventCluster(q[j]) # c

\* Draining its channel takes s from the version base of c to the latest.
Newest(s, c, base) ==
  \/ Absent(chan[s], c) /\ base = latest[c]
  \/ LastIs(chan[s], c, latest[c])

InFlight(c) == \E w \in Writers : ClusterOf[w] = c /\ wpc[w] # "idle"

\* What keeps the data of a cluster in order: only the poll goroutine of its
\* query engine stores and publishes it.  (Its status has two writers.)
OneWriterPerCluster ==
  \A v, w \in Writers : ClusterOf[v] = ClusterOf[w] => v = w

\* Subscribing before the snapshot is read leaves no gap: once the snapshot
\* was handed over, a subscriber that drains its channel ends at the latest
\* version of every cluster it wants, unless a publish of it is still under
\* way or the last event of it was lost to a full channel or a store error.
\* (Where OneWriterPerCluster holds.)
NoGap ==
  ~closed =>
    \A s \in subscribers : \A c \in Clusters :
      phase[s] = "live" /\ Wants(s, c) /\ c \notin missed[s] /\ ~InFlight(c)
        => Newest(s, c, view[s][c])

\* A live subscriber catches up with every cluster it wants, or lost an
\* event of it, or is no longer subscribed.
CaughtUp(s, c) ==
  \/ view[s][c] = latest[c]
  \/ c \in missed[s]
  \/ s \notin subscribers
  \/ closed

EventuallyCaughtUp ==
  \A s \in Subs : \A c \in Clusters :
    (phase[s] = "live" /\ Wants(s, c)) ~> CaughtUp(s, c)
=============================================================================
