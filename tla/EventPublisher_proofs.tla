----------------------- MODULE EventPublisher_proofs ------------------------
(* Proofs about EventPublisher, for every value of its constants.          *)
EXTENDS EventPublisher, SequenceTheorems, TLAPS

(***************************************************************************)
(* The variables keep their types; in particular no channel outgrows its   *)
(* buffer, since broadcastEvent sends only where there is room.            *)
(***************************************************************************)
LEMMA TypeInit == Init => TypeOK
<1> SUFFICES ASSUME Init PROVE TypeOK
  OBVIOUS
<1>1. 0 \in Versions
  BY PublisherAssumption DEF Versions
<1>2. [c \in Clusters |-> 0] \in [Clusters -> Versions]
  BY <1>1
<1>3. <<>> \in Seq(Event) /\ Len(<<>>) <= BufferCap
  BY PublisherAssumption
<1>4. chan \in [Subs -> Seq(Event)] /\ \A s \in Subs : Len(chan[s]) <= BufferCap
  BY <1>3 DEF Init
<1>5. snap \in [Subs -> [Clusters -> Versions]] /\ view \in [Subs -> [Clusters -> Versions]]
  BY <1>2 DEF Init
<1> QED
  BY <1>1, <1>4, <1>5 DEF Init, TypeOK

LEMMA EventType ==
  ASSUME TypeOK, NEW w \in Writers
  PROVE  [by |-> w, ver |-> wver[w]] \in Event
  BY DEF TypeOK, Event

LEMMA TypeNext == TypeOK /\ [Next]_vars => TypeOK'
<1> SUFFICES ASSUME TypeOK, [Next]_vars PROVE TypeOK'
  OBVIOUS
<1> USE PublisherAssumption
<1>1. ASSUME NEW w \in Writers, Store(w) PROVE TypeOK'
  <2> DEFINE c == ClusterOf[w]
  <2>1. c \in Clusters /\ latest[c] + 1 \in Versions
    BY <1>1 DEF TypeOK, Store, Versions
  <2>2. stored' \in [Clusters -> Versions]
    BY <1>1, <2>1 DEF TypeOK, Store
  <2> QED
    BY <1>1, <2>1, <2>2 DEF TypeOK, Store, Goto, snapVars
<1>2. ASSUME NEW w \in Writers, CheckClosed(w) PROVE TypeOK'
  BY <1>2 DEF TypeOK, CheckClosed, Goto, snapVars
<1>3. ASSUME NEW w \in Writers, PublishToStore(w) PROVE TypeOK'
  BY <1>3 DEF TypeOK, PublishToStore, Goto, snapVars
<1>4. ASSUME NEW w \in Writers, PublishToStoreFails(w) PROVE TypeOK'
  BY <1>4 DEF TypeOK, PublishToStoreFails, Goto, snapVars
<1>5. ASSUME NEW w \in Writers, Broadcast(w) PROVE TypeOK'
  <2> DEFINE c == ClusterOf[w]
             e == [by |-> w, ver |-> wver[w]]
  <2>1. e \in Event /\ c \in Clusters
    BY EventType
  <2>2. chan' \in [Subs -> Seq(Event)] /\ \A s \in Subs : Len(chan'[s]) <= BufferCap
    BY <1>5, <2>1 DEF Broadcast, TypeOK, HasRoom
  <2>3. missed' \in [Subs -> SUBSET Clusters]
    BY <1>5, <2>1 DEF Broadcast, TypeOK
  <2> QED
    BY <1>5, <2>2, <2>3 DEF TypeOK, Broadcast, Goto, snapVars
<1>6. ASSUME NEW s \in Subs, SubscribeCheck(s) PROVE TypeOK'
  BY <1>6 DEF TypeOK, SubscribeCheck, Enter, snapVars, writerVars
<1>7. ASSUME NEW s \in Subs, Subscribe(s) PROVE TypeOK'
  BY <1>7 DEF TypeOK, Subscribe, Enter, snapVars, writerVars
<1>8. ASSUME NEW s \in Subs, SnapshotBegin(s) PROVE TypeOK'
  <2>1. SnapshotIDs(s) \subseteq Clusters
    BY DEF SnapshotIDs, TypeOK
  <2> DEFINE late == {c \in Clusters \ SnapshotIDs(s) : latest[c] # 0}
  <2>4. late \in SUBSET Clusters /\ SnapshotIDs(s) \in SUBSET Clusters
    BY <2>1
  <2>5. /\ snapTodo' = snapTodo \/ snapTodo' = [snapTodo EXCEPT ![s] = SnapshotIDs(s)]
        /\ missed' = missed \/ missed' = [missed EXCEPT ![s] = @ \cup late]
    BY <1>8 DEF SnapshotBegin
  <2> HIDE DEF late
  <2>6. missed[s] \cup late \in SUBSET Clusters
    BY <2>4 DEF TypeOK
  <2>7. snapTodo' \in [Subs -> SUBSET Clusters]
    BY <2>4, <2>5 DEF TypeOK
  <2>2. missed' \in [Subs -> SUBSET Clusters]
    BY <2>5, <2>6 DEF TypeOK
  <2>3. phase' \in [Subs -> {"idle", "checked", "refused", "subscribed",
                            "snapshot", "live", "done"}]
    BY <1>8 DEF TypeOK, SnapshotBegin, Enter
  <2> QED
    BY <1>8, <2>2, <2>3, <2>7 DEF TypeOK, SnapshotBegin, writerVars
<1>9. ASSUME NEW s \in Subs, NEW c \in Clusters, SnapshotRead(s, c) PROVE TypeOK'
  <2>1. PICK v \in {stored[c], 0} :
          /\ snap' = [snap EXCEPT ![s][c] = v]
          /\ missed' = [missed EXCEPT ![s] = IF v = latest[c] THEN @ ELSE @ \cup {c}]
    BY <1>9 DEF SnapshotRead
  <2>2. v \in Versions
    BY <2>1 DEF TypeOK, Versions
  <2>3. snap' \in [Subs -> [Clusters -> Versions]]
    BY <2>1, <2>2 DEF TypeOK
  <2> QED
    BY <1>9, <2>1, <2>3 DEF TypeOK, SnapshotRead, writerVars
<1>10. ASSUME NEW s \in Subs, Bootstrap(s) PROVE TypeOK'
  BY <1>10 DEF TypeOK, Bootstrap, Enter, snapVars, writerVars
<1>11. ASSUME NEW s \in Subs, Receive(s) PROVE TypeOK'
  <2> DEFINE e == Head(chan[s])
  <2>1. chan[s] \in Seq(Event) /\ chan[s] # <<>>
    BY <1>11 DEF Receive, TypeOK
  <2>2. e \in Event /\ Tail(chan[s]) \in Seq(Event)
        /\ Len(Tail(chan[s])) <= Len(chan[s])
    BY <2>1
  <2>3. EventCluster(e) \in Clusters /\ e.ver \in Versions
    BY <2>2 DEF Event, EventCluster
  <2>4. view' \in [Subs -> [Clusters -> Versions]]
    BY <1>11, <2>3 DEF Receive, TypeOK
  <2>5. chan' \in [Subs -> Seq(Event)] /\ \A r \in Subs : Len(chan'[r]) <= BufferCap
    BY <1>11, <2>1, <2>2 DEF Receive, TypeOK
  <2> QED
    BY <1>11, <2>4, <2>5 DEF TypeOK, Receive, snapVars, writerVars
<1>12. ASSUME NEW s \in Subs, ReceiveClosed(s) PROVE TypeOK'
  BY <1>12 DEF TypeOK, ReceiveClosed, Enter, snapVars, writerVars
<1>13. ASSUME NEW s \in Subs, Unsubscribe(s) PROVE TypeOK'
  BY <1>13 DEF TypeOK, Unsubscribe, snapVars, writerVars
<1>14. CASE Close
  BY <1>14 DEF TypeOK, Close, snapVars, writerVars
<1>15. CASE UNCHANGED vars
  BY <1>15 DEF TypeOK, vars, snapVars, writerVars
<1> QED
  BY <1>1, <1>2, <1>3, <1>4, <1>5, <1>6, <1>7, <1>8, <1>9, <1>10, <1>11,
     <1>12, <1>13, <1>14, <1>15
  DEF Next, WriterStep, SubscriberStep, Consume

\* Type correctness, for any number of clusters, writers and subscriptions.
THEOREM TypeCorrect == Spec => []TypeOK
<1> QED BY TypeInit, TypeNext, PTL DEF Spec

-----------------------------------------------------------------------------
(***************************************************************************)
(* A channel is open exactly while its subscriber is registered.           *)
(* Subscribe is the only step that opens one, and it is reached once: a    *)
(* subscription that was not made yet has no channel.                      *)
(***************************************************************************)
Unmade == \A s \in Subs : phase[s] \in {"idle", "checked"} => chanState[s] = "none"

OwnershipInv == TypeOK /\ ChannelOwnership /\ Unmade

LEMMA OwnershipInit == Init => OwnershipInv
  BY TypeInit DEF Init, OwnershipInv, ChannelOwnership, Unmade

LEMMA OwnershipNext == OwnershipInv /\ [Next]_vars => OwnershipInv'
<1> SUFFICES ASSUME OwnershipInv, [Next]_vars
             PROVE  ChannelOwnership' /\ Unmade'
  BY TypeNext DEF OwnershipInv
<1> USE DEF OwnershipInv, ChannelOwnership, Unmade
<1>1. ASSUME NEW w \in Writers, WriterStep(w) PROVE ChannelOwnership' /\ Unmade'
  BY <1>1 DEF WriterStep, Store, CheckClosed, PublishToStore,
              PublishToStoreFails, Broadcast
<1>2. ASSUME NEW s \in Subs, SubscribeCheck(s) PROVE ChannelOwnership' /\ Unmade'
  BY <1>2 DEF SubscribeCheck, Enter, TypeOK
<1>3. ASSUME NEW s \in Subs, Subscribe(s) PROVE ChannelOwnership' /\ Unmade'
  BY <1>3 DEF Subscribe, Enter, TypeOK
<1>4. ASSUME NEW s \in Subs, Consume(s) PROVE ChannelOwnership' /\ Unmade'
  BY <1>4 DEF Consume, SnapshotBegin, SnapshotRead, Bootstrap, Receive,
              ReceiveClosed, Enter, TypeOK
<1>5. ASSUME NEW s \in Subs, Unsubscribe(s) PROVE ChannelOwnership' /\ Unmade'
  BY <1>5 DEF Unsubscribe, TypeOK
<1>6. CASE Close
  BY <1>6 DEF Close, TypeOK
<1>7. CASE UNCHANGED vars
  BY <1>7 DEF vars
<1> QED
  BY <1>1, <1>2, <1>3, <1>4, <1>5, <1>6, <1>7 DEF Next, SubscriberStep

\* No send on a closed channel, no close of a closed one, no open channel
\* that nobody closes.
THEOREM Ownership == Spec => []ChannelOwnership
<1>1. OwnershipInv => ChannelOwnership
  BY DEF OwnershipInv
<1> QED BY <1>1, OwnershipInit, OwnershipNext, PTL DEF Spec

-----------------------------------------------------------------------------
(***************************************************************************)
(* Events of one writer stay in order.  The event a writer has under way   *)
(* is newer than all of its events in the channels, and all of them are no *)
(* newer than the latest reading.                                          *)
(***************************************************************************)
VersionsBounded ==
  /\ \A w \in Writers : wver[w] <= latest[ClusterOf[w]]
  /\ \A s \in Subs : \A i \in DOMAIN chan[s] :
       LET e == chan[s][i] IN
         /\ e.ver <= wver[e.by]
         /\ wpc[e.by] # "idle" => e.ver < wver[e.by]

OrderInv == TypeOK /\ VersionsBounded /\ WriterOrder

LEMMA OrderInit == Init => OrderInv
<1> SUFFICES ASSUME Init PROVE VersionsBounded /\ WriterOrder
  BY TypeInit DEF OrderInv
<1>1. \A s \in Subs : DOMAIN chan[s] = {}
  BY DEF Init
<1> QED
  BY <1>1, PublisherAssumption DEF Init, VersionsBounded, WriterOrder

LEMMA OrderNext == OrderInv /\ [Next]_vars => OrderInv'
<1> SUFFICES ASSUME OrderInv, [Next]_vars
             PROVE  VersionsBounded' /\ WriterOrder'
  BY TypeNext DEF OrderInv
<1> USE PublisherAssumption DEF OrderInv
<1>0. /\ \A s \in Subs : chan[s] \in Seq(Event)
      /\ \A s \in Subs : \A i \in DOMAIN chan[s] :
           /\ chan[s][i] \in Event
           /\ chan[s][i].by \in Writers
           /\ chan[s][i].ver \in Int
      /\ \A w \in Writers : wver[w] \in Int
      /\ \A c \in Clusters : latest[c] \in Int
  <2>1. \A s \in Subs : chan[s] \in Seq(Event)
    BY DEF TypeOK
  <2>2. \A s \in Subs : \A i \in DOMAIN chan[s] : chan[s][i] \in Event
    BY <2>1
  <2>3. \A x \in Event : x.by \in Writers /\ x.ver \in Int
    BY DEF Event, Versions
  <2>4. /\ \A w \in Writers : wver[w] \in Int
        /\ \A c \in Clusters : latest[c] \in Int
    BY DEF TypeOK, Versions
  <2> QED
    BY <2>1, <2>2, <2>3, <2>4
<1>1. ASSUME NEW w \in Writers, Store(w) PROVE VersionsBounded' /\ WriterOrder'
  <2>1. VersionsBounded'
    BY <1>0, <1>1 DEF Store, Goto, VersionsBounded, TypeOK
  <2>2. WriterOrder'
    BY <1>1 DEF Store, WriterOrder
  <2> QED BY <2>1, <2>2
<1>2. ASSUME NEW w \in Writers, \/ CheckClosed(w)
                                \/ PublishToStore(w)
                                \/ PublishToStoreFails(w)
      PROVE  VersionsBounded' /\ WriterOrder'
  <2>1. /\ UNCHANGED <<latest, wver, chan>>
        /\ wpc[w] # "idle"
        /\ \A v \in Writers : v # w => wpc'[v] = wpc[v]
    BY <1>2 DEF CheckClosed, PublishToStore, PublishToStoreFails, Goto, TypeOK
  <2>2. VersionsBounded'
    BY <1>0, <2>1 DEF VersionsBounded
  <2> QED
    BY <2>1, <2>2 DEF WriterOrder
<1>3. ASSUME NEW w \in Writers, Broadcast(w) PROVE VersionsBounded' /\ WriterOrder'
  <2> DEFINE e == [by |-> w, ver |-> wver[w]]
  <2>1. \A s \in Subs : chan'[s] = chan[s] \/ chan'[s] = Append(chan[s], e)
    BY <1>3 DEF Broadcast
  <2>2. /\ wpc[w] # "idle" /\ wver' = wver /\ latest' = latest
        /\ wpc' = [wpc EXCEPT ![w] = "idle"]
    BY <1>3 DEF Broadcast, Goto
  <2>3. ASSUME NEW s \in Subs, chan'[s] = Append(chan[s], e)
        PROVE  /\ \A i \in DOMAIN chan'[s] :
                    \/ i \in DOMAIN chan[s] /\ chan'[s][i] = chan[s][i]
                    \/ i = Len(chan[s]) + 1 /\ chan'[s][i] = e
               /\ \A i \in DOMAIN chan[s] : i < Len(chan[s]) + 1
    BY <1>0, <2>3
  <2>4. VersionsBounded'
    <3>1. \A v \in Writers : wver'[v] <= latest'[ClusterOf[v]]
      BY <2>2 DEF VersionsBounded
    <3>2. ASSUME NEW s \in Subs, NEW i \in DOMAIN chan'[s]
          PROVE  /\ chan'[s][i].ver <= wver'[chan'[s][i].by]
                 /\ wpc'[chan'[s][i].by] # "idle" => chan'[s][i].ver < wver'[chan'[s][i].by]
      <4>1. CASE i \in DOMAIN chan[s] /\ chan'[s][i] = chan[s][i]
        BY <1>0, <2>2, <4>1 DEF VersionsBounded, TypeOK
      <4>2. CASE chan'[s][i] = e
        BY <1>0, <2>2, <4>2 DEF TypeOK
      <4> QED
        BY <2>1, <2>3, <4>1, <4>2
    <3> QED
      BY <3>1, <3>2 DEF VersionsBounded
  <2>5. WriterOrder'
    <3> SUFFICES ASSUME NEW s \in Subs,
                        NEW i \in DOMAIN chan'[s], NEW j \in DOMAIN chan'[s],
                        i < j, chan'[s][i].by = chan'[s][j].by
                 PROVE  chan'[s][i].ver < chan'[s][j].ver
      BY DEF WriterOrder
    <3>1. CASE chan'[s] = chan[s]
      BY <3>1 DEF WriterOrder
    <3>2. CASE chan'[s] = Append(chan[s], e)
      <4>1. i \in DOMAIN chan[s] /\ chan'[s][i] = chan[s][i]
        BY <1>0, <3>2
      <4>2. CASE j \in DOMAIN chan[s] /\ chan'[s][j] = chan[s][j]
        BY <4>1, <4>2 DEF WriterOrder
      <4>3. CASE chan'[s][j] = e
        BY <2>2, <4>1, <4>3 DEF VersionsBounded
      <4> QED
        BY <2>3, <3>2, <4>2, <4>3
    <3> QED
      BY <2>1, <3>1, <3>2
  <2> QED BY <2>4, <2>5
<1>4. ASSUME NEW s \in Subs, Receive(s) PROVE VersionsBounded' /\ WriterOrder'
  <2>1. /\ chan[s] \in Seq(Event) /\ chan[s] # <<>>
        /\ chan' = [chan EXCEPT ![s] = Tail(chan[s])]
        /\ UNCHANGED <<latest, wpc, wver>>
    BY <1>0, <1>4 DEF Receive, writerVars
  <2>2. \A i \in DOMAIN Tail(chan[s]) :
          i \in Int /\ i + 1 \in DOMAIN chan[s] /\ Tail(chan[s])[i] = chan[s][i + 1]
    BY <2>1
  <2>3. VersionsBounded'
    BY <1>0, <2>1, <2>2 DEF VersionsBounded, TypeOK
  <2>4. WriterOrder'
    <3> SUFFICES ASSUME NEW r \in Subs,
                        NEW i \in DOMAIN chan'[r], NEW j \in DOMAIN chan'[r],
                        i < j, chan'[r][i].by = chan'[r][j].by
                 PROVE  chan'[r][i].ver < chan'[r][j].ver
      BY DEF WriterOrder
    <3>1. CASE r = s
      <4>1. chan'[r] = Tail(chan[s])
        BY <2>1, <3>1 DEF TypeOK
      <4>2. /\ i + 1 \in DOMAIN chan[s] /\ j + 1 \in DOMAIN chan[s] /\ i + 1 < j + 1
            /\ chan'[r][i] = chan[s][i + 1] /\ chan'[r][j] = chan[s][j + 1]
        BY <2>2, <4>1
      <4> QED
        BY <4>2 DEF WriterOrder
    <3>2. CASE r # s
      BY <2>1, <3>2 DEF WriterOrder, TypeOK
    <3> QED BY <3>1, <3>2
  <2> QED BY <2>3, <2>4
<1>5. ASSUME NEW s \in Subs, \/ SubscribeCheck(s)
                             \/ Subscribe(s)
                             \/ SnapshotBegin(s)
                             \/ \E c \in Clusters : SnapshotRead(s, c)
                             \/ Bootstrap(s)
                             \/ ReceiveClosed(s)
                             \/ Unsubscribe(s)
      PROVE  VersionsBounded' /\ WriterOrder'
  <2>1. UNCHANGED <<latest, wpc, wver, chan>>
    BY <1>5 DEF SubscribeCheck, Subscribe, SnapshotBegin, SnapshotRead, Bootstrap,
                ReceiveClosed, Unsubscribe, writerVars
  <2> QED
    BY <2>1 DEF VersionsBounded, WriterOrder
<1>6. CASE Close \/ UNCHANGED vars
  <2>1. UNCHANGED <<latest, wpc, wver, chan>>
    BY <1>6 DEF vars, Close, writerVars
  <2> QED
    BY <2>1 DEF VersionsBounded, WriterOrder
<1> QED
  BY <1>1, <1>2, <1>3, <1>4, <1>5, <1>6
  DEF Next, WriterStep, SubscriberStep, Consume

\* No channel ever holds two events of one writer out of order.
THEOREM Order == Spec => []WriterOrder
<1>1. OrderInv => WriterOrder
  BY DEF OrderInv
<1> QED BY <1>1, OrderInit, OrderNext, PTL DEF Spec

-----------------------------------------------------------------------------
(***************************************************************************)
(* No gap between snapshot and stream.  First, what appending an event to  *)
(* a queue and taking one from it do to the last event of a cluster.       *)
(***************************************************************************)
LEMMA AppendLast ==
  ASSUME NEW q \in Seq(Event), NEW e \in Event
  PROVE  LastIs(Append(q, e), EventCluster(e), e.ver)
<1> DEFINE n == Len(q) + 1
           p == Append(q, e)
<1>1. n \in DOMAIN p /\ p[n] = e /\ \A j \in DOMAIN p : ~(n < j)
  OBVIOUS
<1> QED BY <1>1 DEF LastIs

LEMMA AppendOther ==
  ASSUME NEW q \in Seq(Event), NEW e \in Event, NEW c, EventCluster(e) # c
  PROVE  /\ Absent(q, c) => Absent(Append(q, e), c)
         /\ \A v : LastIs(q, c, v) => LastIs(Append(q, e), c, v)
<1> DEFINE p == Append(q, e)
<1>1. \A i \in DOMAIN p : \/ i \in DOMAIN q /\ p[i] = q[i]
                          \/ i = Len(q) + 1 /\ p[i] = e
  OBVIOUS
<1>2. \A i \in DOMAIN q : i \in DOMAIN p /\ p[i] = q[i]
  OBVIOUS
<1> HIDE DEF p
<1>3. Absent(q, c) => Absent(p, c)
  BY <1>1 DEF Absent
<1>4. ASSUME NEW v, LastIs(q, c, v) PROVE LastIs(p, c, v)
  <2>1. PICK i \in DOMAIN q : /\ EventCluster(q[i]) = c
                             /\ q[i].ver = v
                             /\ \A j \in DOMAIN q : i < j => EventCluster(q[j]) # c
    BY <1>4 DEF LastIs
  <2>2. i \in DOMAIN p /\ p[i] = q[i]
    BY <1>2
  <2>3. \A j \in DOMAIN p : i < j => EventCluster(p[j]) # c
    BY <1>1, <2>1
  <2> QED BY <2>1, <2>2, <2>3 DEF LastIs
<1> QED BY <1>3, <1>4 DEF p

LEMMA TailKeeps ==
  ASSUME NEW q \in Seq(Event), q # <<>>, NEW c
  PROVE  /\ Absent(q, c) => Absent(Tail(q), c) /\ EventCluster(Head(q)) # c
         /\ \A v : LastIs(q, c, v) =>
              \/ LastIs(Tail(q), c, v)
              \/ /\ Absent(Tail(q), c)
                 /\ EventCluster(Head(q)) = c
                 /\ Head(q).ver = v
<1> DEFINE p == Tail(q)
<1>1. \A i \in DOMAIN p : i \in Int /\ i + 1 \in DOMAIN q /\ p[i] = q[i + 1]
  OBVIOUS
<1>2. \A i \in DOMAIN q : \/ i = 1 /\ q[i] = Head(q)
                          \/ i - 1 \in DOMAIN p /\ q[i] = p[i - 1] /\ i \in Int
  OBVIOUS
<1>3. 1 \in DOMAIN q /\ Head(q) = q[1]
  OBVIOUS
<1>0. \A i \in DOMAIN p : i >= 1
  OBVIOUS
<1> HIDE DEF p
<1>4. Absent(q, c) => Absent(p, c) /\ EventCluster(Head(q)) # c
  BY <1>1, <1>3 DEF Absent
<1>5. ASSUME NEW v, LastIs(q, c, v)
      PROVE  \/ LastIs(p, c, v)
             \/ Absent(p, c) /\ EventCluster(Head(q)) = c /\ Head(q).ver = v
  <2>1. PICK i \in DOMAIN q : /\ EventCluster(q[i]) = c
                             /\ q[i].ver = v
                             /\ \A j \in DOMAIN q : i < j => EventCluster(q[j]) # c
    BY <1>5 DEF LastIs
  <2>2. CASE i = 1
    <3>1. \A j \in DOMAIN p : EventCluster(p[j]) # c
      BY <1>0, <1>1, <2>1, <2>2
    <3> QED
      BY <1>3, <2>1, <2>2, <3>1 DEF Absent
  <2>3. CASE i - 1 \in DOMAIN p /\ q[i] = p[i - 1] /\ i \in Int
    <3>1. \A j \in DOMAIN p : i - 1 < j => EventCluster(p[j]) # c
      BY <1>1, <2>1, <2>3
    <3> QED
      BY <2>1, <2>3, <3>1 DEF LastIs
  <2> QED
    BY <1>2, <2>2, <2>3
<1> QED BY <1>4, <1>5 DEF p

(***************************************************************************)
(* The invariant: what a subscriber will have seen of a cluster after its  *)
(* snapshot (if it is still to be read or handed over) and its channel.    *)
(***************************************************************************)
Covered(s, c) ==
  /\ Absent(chan[s], c) \/ LastIs(chan[s], c, latest[c])
  /\ phase[s] = "snapshot" /\ c \notin snapTodo[s] => Newest(s, c, snap[s][c])
  /\ phase[s] = "live" => Newest(s, c, view[s][c])

Covers ==
  ~closed => \A s \in subscribers : \A c \in Clusters :
    Wants(s, c) /\ c \notin missed[s] /\ ~InFlight(c) => Covered(s, c)

\* A publish under way carries the latest version.
UnderWay == \A w \in Writers : wpc[w] # "idle" => wver[w] = latest[ClusterOf[w]]

\* Nothing reaches a subscription before it is made, and its snapshot is
\* empty before it is begun.
Fresh ==
  \A s \in Subs :
    /\ phase[s] \in {"idle", "checked"} => chan[s] = <<>>
    /\ phase[s] \in {"idle", "checked", "subscribed"} =>
         \A c \in Clusters : snap[s][c] = 0

GapInv == OwnershipInv /\ UnderWay /\ Fresh /\ Covers

LEMMA GapInit == Init => GapInv
<1> SUFFICES ASSUME Init PROVE UnderWay /\ Fresh /\ Covers
  BY OwnershipInit DEF GapInv
<1> QED
  BY PublisherAssumption DEF Init, UnderWay, Fresh, Covers

LEMMA UnderWayNext ==
  ASSUME OneWriterPerCluster, TypeOK, UnderWay, [Next]_vars
  PROVE  UnderWay'
<1> USE PublisherAssumption
<1>1. ASSUME NEW w \in Writers, Store(w) PROVE UnderWay'
  BY <1>1 DEF Store, Goto, UnderWay, TypeOK, OneWriterPerCluster
<1>2. ASSUME NEW w \in Writers, \/ CheckClosed(w) \/ PublishToStore(w)
                                \/ PublishToStoreFails(w) \/ Broadcast(w)
      PROVE  UnderWay'
  BY <1>2 DEF CheckClosed, PublishToStore, PublishToStoreFails, Broadcast, Goto,
              UnderWay, TypeOK
<1>3. ASSUME NEW s \in Subs, SubscriberStep(s) PROVE UnderWay'
  BY <1>3 DEF SubscriberStep, SubscribeCheck, Subscribe, Consume, SnapshotBegin,
              SnapshotRead, Bootstrap, Receive, ReceiveClosed, Unsubscribe,
              UnderWay, writerVars
<1>4. CASE Close \/ UNCHANGED vars
  BY <1>4 DEF Close, vars, UnderWay, writerVars
<1> QED
  BY <1>1, <1>2, <1>3, <1>4 DEF Next, WriterStep

LEMMA FreshNext ==
  ASSUME OwnershipInv, Fresh, [Next]_vars
  PROVE  Fresh'
<1> USE DEF OwnershipInv
<1>0. \A s \in Subs : phase[s] \in {"idle", "checked"} => s \notin subscribers
  BY DEF Unmade, ChannelOwnership
<1>1. ASSUME NEW w \in Writers, WriterStep(w) PROVE Fresh'
  <2>1. \A s \in Subs : s \notin subscribers => chan'[s] = chan[s]
    BY <1>1 DEF WriterStep, Store, CheckClosed, PublishToStore,
                PublishToStoreFails, Broadcast, Interested
  <2>2. UNCHANGED <<phase, snap>>
    BY <1>1 DEF WriterStep, Store, CheckClosed, PublishToStore,
                PublishToStoreFails, Broadcast, snapVars
  <2> QED
    BY <1>0, <2>1, <2>2 DEF Fresh
<1>2. ASSUME NEW s \in Subs, \/ SubscribeCheck(s) \/ Subscribe(s)
                             \/ SnapshotBegin(s) \/ Bootstrap(s)
                             \/ ReceiveClosed(s) \/ Unsubscribe(s)
      PROVE  Fresh'
  <2>1. UNCHANGED <<chan, snap>>
    BY <1>2 DEF SubscribeCheck, Subscribe, SnapshotBegin, Bootstrap,
                ReceiveClosed, Unsubscribe, snapVars
  <2>2. /\ \A r \in Subs : r # s => phase'[r] = phase[r]
        /\ phase'[s] \in {"idle", "checked"} => phase[s] \in {"idle", "checked"}
        /\ phase'[s] = "subscribed" => phase[s] \in {"checked", "subscribed"}
    BY <1>2 DEF SubscribeCheck, Subscribe, SnapshotBegin, Bootstrap,
                ReceiveClosed, Unsubscribe, Enter, TypeOK
  <2> QED
    BY <2>1, <2>2 DEF Fresh
<1>3. ASSUME NEW s \in Subs, NEW c \in Clusters, SnapshotRead(s, c) PROVE Fresh'
  BY <1>3 DEF SnapshotRead, Fresh, TypeOK
<1>4. ASSUME NEW s \in Subs, Receive(s) PROVE Fresh'
  BY <1>4 DEF Receive, Fresh, TypeOK, snapVars
<1>5. CASE Close \/ UNCHANGED vars
  BY <1>5 DEF Close, vars, Fresh, snapVars
<1> QED
  BY <1>1, <1>2, <1>3, <1>4, <1>5 DEF Next, SubscriberStep, Consume

\* A step that leaves what Covered and its conditions speak of alone.
LEMMA CoversFrame ==
  ASSUME Covers, UNCHANGED <<latest, chan, phase, snapTodo, snap, view, missed,
                             filter, closed>>,
         subscribers' \subseteq subscribers,
         \A c \in Clusters : InFlight(c) => InFlight(c)'
  PROVE  Covers'
  BY DEF Covers, Covered, Newest, LastIs, Absent, Wants, EventCluster

LEMMA CoversNext ==
  ASSUME OneWriterPerCluster, OwnershipInv, UnderWay, Fresh, Covers, [Next]_vars
  PROVE  Covers'
<1> USE PublisherAssumption DEF OwnershipInv
<1>0. /\ \A s \in Subs : chan[s] \in Seq(Event)
      /\ subscribers \subseteq Subs
  BY DEF TypeOK
<1>1. ASSUME NEW w \in Writers, Store(w) PROVE Covers'
  <2>1. \A c \in Clusters : c # ClusterOf[w] => latest'[c] = latest[c]
    BY <1>1 DEF Store, TypeOK
  <2>2. \A v \in Writers : wpc[v] # "idle" => wpc'[v] # "idle"
    BY <1>1 DEF Store, Goto, TypeOK
  <2>3. /\ InFlight(ClusterOf[w])'
        /\ \A c \in Clusters : InFlight(c) => InFlight(c)'
    <3>1. wpc'[w] # "idle"
      BY <1>1 DEF Store, Goto, TypeOK
    <3> QED BY <2>2, <3>1 DEF InFlight
  <2>4. UNCHANGED <<chan, phase, snapTodo, snap, view, missed, filter, closed,
                    subscribers>>
    BY <1>1 DEF Store, snapVars
  <2> QED
    BY <2>1, <2>3, <2>4
    DEF Covers, Covered, Newest, LastIs, Absent, Wants, EventCluster
<1>2. ASSUME NEW w \in Writers, CheckClosed(w) PROVE Covers'
  <2>1. CASE closed
    BY <1>2, <2>1 DEF CheckClosed, Covers
  <2>2. CASE ~closed
    <3>1. \A c \in Clusters : InFlight(c) => InFlight(c)'
      BY <1>2, <2>2 DEF CheckClosed, Goto, InFlight, TypeOK
    <3> QED
      BY <1>2, <3>1, CoversFrame DEF CheckClosed, snapVars
  <2> QED BY <2>1, <2>2
<1>3. ASSUME NEW w \in Writers, PublishToStore(w) PROVE Covers'
  <2>1. \A c \in Clusters : InFlight(c) => InFlight(c)'
    BY <1>3 DEF PublishToStore, Goto, InFlight, TypeOK
  <2> QED
    BY <1>3, <2>1, CoversFrame DEF PublishToStore, snapVars
<1>4. ASSUME NEW w \in Writers, PublishToStoreFails(w) PROVE Covers'
  <2> DEFINE d == ClusterOf[w]
  <2>1. \A c \in Clusters : c # d /\ InFlight(c) => InFlight(c)'
    BY <1>4 DEF PublishToStoreFails, Goto, InFlight, TypeOK
  <2>2. \A s \in subscribers : missed'[s] = missed[s] \cup {d}
    BY <1>0, <1>4 DEF PublishToStoreFails
  <2>3. UNCHANGED <<latest, chan, phase, snapTodo, snap, view, filter, closed,
                    subscribers>>
    BY <1>4 DEF PublishToStoreFails, snapVars
  <2> QED
    BY <2>1, <2>2, <2>3
    DEF Covers, Covered, Newest, LastIs, Absent, Wants, EventCluster
<1>5. ASSUME NEW w \in Writers, Broadcast(w) PROVE Covers'
  <2> DEFINE d == ClusterOf[w]
             e == [by |-> w, ver |-> wver[w]]
  <2>1. /\ UNCHANGED <<latest, phase, snapTodo, snap, view, filter, closed,
                       subscribers>>
        /\ e \in Event /\ EventCluster(e) = d /\ e.ver = latest[d]
    BY <1>5, EventType DEF Broadcast, snapVars, EventCluster, UnderWay
  <2>2. \A c \in Clusters : c # d /\ InFlight(c) => InFlight(c)'
    BY <1>5 DEF Broadcast, Goto, InFlight, TypeOK
  <2>3. \A s \in subscribers : Wants(s, d) =>
          \/ chan'[s] = Append(chan[s], e)
          \/ d \in missed'[s]
    BY <1>0, <1>5 DEF Broadcast, Interested
  <2>4. \A s \in subscribers :
          /\ chan'[s] = chan[s] \/ chan'[s] = Append(chan[s], e)
          /\ \A c \in Clusters : c # d /\ c \notin missed'[s] => c \notin missed[s]
    BY <1>0, <1>5 DEF Broadcast
  <2> HIDE DEF d, e
  <2> SUFFICES ASSUME ~closed, NEW s \in subscribers, NEW c \in Clusters,
                      Wants(s, c), c \notin missed'[s], ~(InFlight(c)')
               PROVE  Covered(s, c)'
    BY <2>1 DEF Covers, Wants
  <2>5. CASE c = d
    <3>1. chan'[s] = Append(chan[s], e)
      BY <2>3, <2>5
    <3>2. LastIs(Append(chan[s], e), c, latest[c])
      BY <1>0, <2>1, <2>5, AppendLast
    <3>3. LastIs(chan[s], c, latest[c])'
      BY <2>1, <3>1, <3>2 DEF LastIs, EventCluster
    <3> QED BY <3>3 DEF Covered, Newest
  <2>6. CASE c # d
    <3>1. Covered(s, c)
      BY <2>2, <2>4, <2>6 DEF Covers
    <3>2. /\ Absent(chan[s], c) => Absent(chan'[s], c)
          /\ \A v : LastIs(chan[s], c, v) => LastIs(chan'[s], c, v)
      <4>1. chan[s] \in Seq(Event) /\ e \in Event /\ EventCluster(e) # c
        BY <1>0, <2>1, <2>6
      <4>2. /\ Absent(chan[s], c) => Absent(Append(chan[s], e), c)
            /\ \A v : LastIs(chan[s], c, v) => LastIs(Append(chan[s], e), c, v)
        BY <4>1, AppendOther
      <4> QED BY <2>4, <4>2
    <3>3. /\ Absent(chan[s], c) => Absent(chan[s], c)'
          /\ LastIs(chan[s], c, latest[c]) => LastIs(chan[s], c, latest[c])'
      BY <2>1, <3>2 DEF Absent, LastIs, EventCluster
    <3> QED
      BY <2>1, <3>1, <3>3 DEF Covered, Newest
  <2> QED BY <2>5, <2>6
<1>6. ASSUME NEW s \in Subs, SubscribeCheck(s) PROVE Covers'
  <2>1. /\ UNCHANGED <<latest, chan, snapTodo, snap, view, missed, filter, closed,
                       subscribers, wpc>>
        /\ \A r \in subscribers : phase'[r] = phase[r]
    BY <1>6 DEF SubscribeCheck, Enter, TypeOK, Unmade, ChannelOwnership, snapVars,
                writerVars
  <2> QED
    BY <2>1 DEF Covers, Covered, Newest, LastIs, Absent, Wants, EventCluster, InFlight
<1>7. ASSUME NEW s \in Subs, Subscribe(s) PROVE Covers'
  <2>1. /\ UNCHANGED <<latest, chan, snapTodo, snap, view, missed, closed, wpc>>
        /\ subscribers' = subscribers \cup {s}
        /\ phase'[s] = "subscribed"
        /\ \A r \in Subs : r # s => phase'[r] = phase[r] /\ filter'[r] = filter[r]
        /\ chan[s] = <<>>
    BY <1>7 DEF Subscribe, Enter, TypeOK, snapVars, writerVars, Fresh
  <2>2. \A c \in Clusters : Covered(s, c)'
    BY <2>1 DEF Covered, Absent
  <2>3. ASSUME NEW r \in subscribers, r # s, NEW c \in Clusters, ~closed,
               Wants(r, c)', c \notin missed'[r], ~(InFlight(c)')
        PROVE  Covered(r, c)'
    BY <1>0, <2>1, <2>3
    DEF Covers, Covered, Newest, LastIs, Absent, Wants, EventCluster, InFlight
  <2> QED
    BY <2>1, <2>2, <2>3 DEF Covers
<1>8. ASSUME NEW s \in Subs, Consume(s) PROVE Covers'
  <2>0. /\ UNCHANGED <<latest, filter, closed, subscribers, wpc>>
        /\ \A r \in Subs : r # s =>
             /\ chan'[r] = chan[r] /\ phase'[r] = phase[r]
             /\ snapTodo'[r] = snapTodo[r] /\ snap'[r] = snap[r]
             /\ view'[r] = view[r] /\ missed'[r] = missed[r]
    BY <1>8 DEF Consume, SnapshotBegin, SnapshotRead, Bootstrap, Receive,
                ReceiveClosed, Enter, TypeOK, snapVars, writerVars
  <2>1. ASSUME NEW r \in subscribers, r # s, NEW c \in Clusters, ~closed,
               Wants(r, c)', c \notin missed'[r], ~(InFlight(c)')
        PROVE  Covered(r, c)'
    <3>1. /\ r \in Subs /\ Wants(r, c) /\ c \notin missed[r]
          /\ UNCHANGED <<latest, chan[r], phase[r], snapTodo[r], snap[r], view[r]>>
      BY <1>0, <2>0, <2>1 DEF Wants
    <3>2. ~InFlight(c)
      BY <2>0, <2>1 DEF InFlight
    <3>3. Covered(r, c)
      BY <2>1, <3>1, <3>2 DEF Covers
    <3> QED
      BY <3>1, <3>3 DEF Covered, Newest, LastIs, Absent, EventCluster
  <2> SUFFICES ASSUME s \in subscribers, NEW c \in Clusters, ~closed,
                      Wants(s, c), c \notin missed'[s], ~InFlight(c)
               PROVE  Covered(s, c)'
    BY <2>0, <2>1 DEF Covers, Wants, InFlight
  <2>2. CASE SnapshotBegin(s)
    <3>1. /\ phase[s] = "subscribed" /\ phase'[s] = "snapshot"
          /\ UNCHANGED <<chan, snap>>
          /\ snapTodo'[s] = SnapshotIDs(s)
          /\ missed'[s] = missed[s] \cup {d \in Clusters \ SnapshotIDs(s) : latest[d] # 0}
      BY <2>2 DEF SnapshotBegin, Enter, TypeOK
    <3>2. Covered(s, c)
      BY <3>1 DEF Covers
    <3>3. c \notin snapTodo'[s] => latest[c] = 0 /\ snap[s][c] = 0
      BY <3>1 DEF Fresh
    <3> QED
      BY <2>0, <3>1, <3>2, <3>3 DEF Covered, Newest, Absent, LastIs, EventCluster
  <2>3. ASSUME NEW d \in Clusters, SnapshotRead(s, d) PROVE Covered(s, c)'
    <3>1. PICK v : /\ snap' = [snap EXCEPT ![s][d] = v]
                   /\ missed' = [missed EXCEPT ![s] =
                        IF v = latest[d] THEN @ ELSE @ \cup {d}]
      BY <2>3 DEF SnapshotRead
    <3>2. /\ UNCHANGED <<chan, view, phase>>
          /\ phase[s] = "snapshot"
          /\ snapTodo' = [snapTodo EXCEPT ![s] = @ \ {d}]
      BY <2>3 DEF SnapshotRead
    <3>3. c \notin missed[s] /\ (c = d => v = latest[d])
      BY <3>1 DEF TypeOK
    <3>4. Covered(s, c)
      BY <3>3 DEF Covers
    <3>5. CASE c = d
      <4>1. snap'[s][c] = latest[c]
        BY <3>1, <3>3, <3>5 DEF TypeOK
      <4> QED
        BY <2>0, <3>2, <3>4, <4>1 DEF Covered, Newest, Absent, LastIs, EventCluster
    <3>6. CASE c # d
      <4>1. /\ snap'[s][c] = snap[s][c]
            /\ c \in snapTodo'[s] <=> c \in snapTodo[s]
        BY <3>1, <3>2, <3>6 DEF TypeOK
      <4> QED
        BY <2>0, <3>2, <3>4, <4>1 DEF Covered, Newest, Absent, LastIs, EventCluster
    <3> QED BY <3>5, <3>6
  <2>4. CASE Bootstrap(s)
    <3>1. /\ UNCHANGED <<chan, missed>>
          /\ phase[s] = "snapshot" /\ phase'[s] = "live"
          /\ snapTodo[s] = {} /\ view'[s] = snap[s]
      BY <2>4 DEF Bootstrap, Enter, TypeOK
    <3>2. Newest(s, c, snap[s][c])
      BY <3>1 DEF Covers, Covered
    <3> QED
      BY <2>0, <3>1, <3>2 DEF Covered, Newest, Absent, LastIs, EventCluster
  <2>5. CASE Receive(s)
    <3>1. /\ UNCHANGED <<missed, phase>>
          /\ phase[s] = "live"
          /\ chan[s] \in Seq(Event) /\ chan[s] # <<>>
          /\ chan'[s] = Tail(chan[s])
          /\ view'[s][c] = IF EventCluster(Head(chan[s])) = c
                            THEN Head(chan[s]).ver ELSE view[s][c]
      <4>1. EventCluster(Head(chan[s])) \in Clusters
        <5>1. Head(chan[s]) \in Event
          BY <1>0, <2>5, HeadTailProperties DEF Receive
        <5> QED BY <5>1 DEF EventCluster, Event
      <4> QED
        BY <1>0, <2>5, <4>1 DEF Receive, TypeOK
    <3>2. Newest(s, c, view[s][c])
      BY <3>1 DEF Covers, Covered
    <3>3. \/ Absent(Tail(chan[s]), c) /\ view'[s][c] = latest[c]
          \/ LastIs(Tail(chan[s]), c, latest[c])
      BY <3>1, <3>2, TailKeeps DEF Newest
    <3>4. Newest(s, c, view[s][c])'
      BY <2>0, <3>1, <3>3 DEF Newest, Absent, LastIs, EventCluster
    <3> QED
      BY <3>1, <3>4 DEF Covered, Newest
  <2>6. CASE ReceiveClosed(s)
    <3>1. UNCHANGED <<chan, missed>> /\ phase'[s] = "done"
      BY <2>6 DEF ReceiveClosed, Enter, TypeOK
    <3>2. Covered(s, c)
      BY <3>1 DEF Covers
    <3> QED
      BY <2>0, <3>1, <3>2 DEF Covered, Absent, LastIs, EventCluster
  <2> QED
    BY <1>8, <2>2, <2>3, <2>4, <2>5, <2>6 DEF Consume
<1>9. ASSUME NEW s \in Subs, Unsubscribe(s) PROVE Covers'
  <2>1. \A c \in Clusters : InFlight(c) => InFlight(c)'
    BY <1>9 DEF Unsubscribe, InFlight, writerVars
  <2> QED
    BY <1>9, <2>1, CoversFrame DEF Unsubscribe, snapVars, writerVars
<1>10. CASE Close
  BY <1>10 DEF Close, Covers
<1>11. CASE UNCHANGED vars
  <2>1. \A c \in Clusters : InFlight(c) => InFlight(c)'
    BY <1>11 DEF vars, InFlight, writerVars
  <2> QED
    BY <1>11, <2>1, CoversFrame DEF vars, snapVars, writerVars
<1> QED
  BY <1>1, <1>2, <1>3, <1>4, <1>5, <1>6, <1>7, <1>8, <1>9, <1>10, <1>11
  DEF Next, WriterStep, SubscriberStep

LEMMA GapNext ==
  ASSUME OneWriterPerCluster
  PROVE  GapInv /\ [Next]_vars => GapInv'
  BY OwnershipNext, UnderWayNext, FreshNext, CoversNext DEF GapInv, OwnershipInv

\* With one writer per cluster, a subscriber's snapshot and channel together
\* lead to the latest version, whatever the interleaving of Subscribe,
\* Snapshot, the store write and the broadcast.
THEOREM NoGapTheorem ==
  ASSUME OneWriterPerCluster
  PROVE  Spec => []NoGap
<1>1. GapInv => NoGap
  BY DEF GapInv, OwnershipInv, TypeOK, Covers, Covered, NoGap
<1>2. Init => GapInv
  BY GapInit
<1>3. GapInv /\ [Next]_vars => GapInv'
  BY GapNext
<1> QED BY <1>1, <1>2, <1>3, PTL DEF Spec

=============================================================================
