------------------------- MODULE SSEHandler_proofs --------------------------
(* Proofs about SSEHandler, for every value of its constants.              *)
EXTENDS SSEHandler, EventPublisher_proofs

\* What a step of the handler's goroutines is to the publisher: one of its
\* own steps, or none.
LEMMA StepUsesPublisher == [SSENext]_sseVars => [Next]_vars
<1> SUFFICES ASSUME [SSENext]_sseVars PROVE [Next]_vars
  OBVIOUS
<1>1. ASSUME NEW s \in Subs, CleanupClient(s) PROVE [Next]_vars
  BY <1>1 DEF CleanupClient, Next, SubscriberStep
<1>2. ASSUME NEW s \in Subs, HandlerStep(s) PROVE [Next]_vars
  <2>1. CASE TrySubscribe(s) \/ DoSubscribe(s)
    BY <2>1 DEF TrySubscribe, DoSubscribe, Next, SubscriberStep
  <2>2. CASE \/ BeginSnapshot(s) \/ ReadSnapshot(s) \/ SendBootstrap(s)
             \/ StreamEvent(s) \/ StreamClosed(s)
    BY <2>2 DEF BeginSnapshot, ReadSnapshot, SendBootstrap, StreamEvent,
                StreamClosed, Next, SubscriberStep, Consume
  <2>3. CASE Register(s) \/ SendBootstrapFails(s) \/ StreamDone(s)
    BY <2>3 DEF Register, SendBootstrapFails, StreamDone
  <2>4. CASE Leave(s)
    BY <1>1, <2>4 DEF Leave
  <2> QED BY <1>2, <2>1, <2>2, <2>3, <2>4 DEF HandlerStep
<1>3. ASSUME NEW s \in Subs, ConnectionStep(s) PROVE [Next]_vars
  <2>1. CASE SweepClean(s)
    BY <1>1, <2>1 DEF SweepClean
  <2>2. CASE \/ Admit(s) \/ Disconnect(s) \/ Expire(s)
             \/ PingTick(s) \/ PingSend(s) \/ PingStop(s)
    BY <2>2 DEF Admit, Disconnect, Expire, PingTick, PingSend, PingStop, Ping
  <2> QED BY <1>2, <1>3, <2>1, <2>2 DEF ConnectionStep
<1>4. CASE PublisherStep
  BY <1>4 DEF PublisherStep, Next
<1>5. CASE SweepCollect \/ CloseBegin \/ CloseEnd \/ UNCHANGED sseVars
  BY <1>5 DEF SweepCollect, CloseBegin, CloseEnd, sseVars
<1> QED
  BY <1>3, <1>4, <1>5 DEF SSENext

\* By the form of its actions the handler makes no step of the publisher that
\* the publisher's specification lacks, so that the publisher's theorems can
\* be cited for the composition.
LEMMA HandlerUsesPublisher == SSESpec => Spec
<1>1. SSEInit => Init
  BY DEF SSEInit
<1> QED
  BY <1>1, StepUsesPublisher, PTL DEF SSESpec, Spec

-----------------------------------------------------------------------------
\* The types of the handler's variables and of the publisher's.
THEOREM HandlerTypeCorrect == SSESpec => []SSETypeOK
<1>1. SSEInit => SSETypeOK
  BY TypeInit DEF SSEInit, SSETypeOK
<1>2. SSETypeOK /\ [SSENext]_sseVars => SSETypeOK'
  <2> SUFFICES ASSUME SSETypeOK, [SSENext]_sseVars PROVE SSETypeOK'
    OBVIOUS
  <2>1. TypeOK'
    BY StepUsesPublisher, TypeNext DEF SSETypeOK
  <2>2. ASSUME NEW s \in Subs, HandlerStep(s) PROVE SSETypeOK'
    BY <2>1, <2>2
    DEF SSETypeOK, HandlerStep, TrySubscribe, DoSubscribe, Register,
        BeginSnapshot, ReadSnapshot, SendBootstrap, SendBootstrapFails,
        StreamEvent, StreamClosed, StreamDone, Leave, CleanupClient,
        StartStreaming, Move, EndContext, connVars
  <2>3. ASSUME NEW s \in Subs, \/ Admit(s) \/ Disconnect(s) \/ Expire(s)
                               \/ PingTick(s) \/ PingSend(s) \/ PingStop(s)
                               \/ SweepClean(s)
        PROVE  SSETypeOK'
    BY <2>1, <2>3
    DEF SSETypeOK, Admit, Disconnect, Expire, PingTick, PingSend, PingStop,
        Ping, SweepClean, CleanupClient, Move, EndContext
  <2>4. CASE \/ PublisherStep \/ SweepCollect \/ CloseBegin \/ CloseEnd
             \/ UNCHANGED sseVars
    BY <2>1, <2>4
    DEF SSETypeOK, PublisherStep, SweepCollect, CloseBegin, CloseEnd, sseVars,
        connVars
  <2> QED BY <2>2, <2>3, <2>4 DEF SSENext, ConnectionStep
<1> QED BY <1>1, <1>2, PTL DEF SSESpec

-----------------------------------------------------------------------------
(***************************************************************************)
(* The two maps.  A client is registered only between Register and its own *)
(* return, a handler about to register is subscribed unless the publisher  *)
(* was closed, and a request not yet admitted has no context: with these,  *)
(* MapsAgree and NothingLeftBehind are inductive.                          *)
(***************************************************************************)
MapsInv ==
  /\ SSETypeOK
  /\ \A s \in clients : conn[s] \in {"registered", "streaming", "leaving"}
  /\ \A s \in Subs : conn[s] = "subscribed" /\ ~closed => s \in subscribers
  /\ \A s \in Subs : conn[s] = "new" => ctx[s] = "none"
  /\ MapsAgree
  /\ NothingLeftBehind

LEMMA CleanupEffect ==
  ASSUME MapsInv, NEW s \in Subs, CleanupClient(s), conn[s] # "subscribed"
  PROVE  /\ clients' = clients \ {s}
         /\ subscribers' = subscribers \ {s}
         /\ closed' = closed
BY DEF MapsInv, MapsAgree, CleanupClient, Unsubscribe, vars

LEMMA MapsNext == MapsInv /\ SSETypeOK' /\ [SSENext]_sseVars => MapsInv'
<1> SUFFICES ASSUME MapsInv, SSETypeOK', [SSENext]_sseVars PROVE MapsInv'
  OBVIOUS
<1> USE DEF MapsInv
<1>0. clients \subseteq Subs /\ subscribers \subseteq Subs
  BY DEF SSETypeOK, TypeOK
<1>1. ASSUME NEW s \in Subs, SweepClean(s) \/ Leave(s) PROVE MapsInv'
  <2>1. CASE conn[s] = "subscribed"
    <3>1. /\ UNCHANGED <<clients, subscribers, closed, conn>>
          /\ ctx' = ctx
      BY <1>1, <2>1 DEF SweepClean, Leave, CleanupClient, vars
    <3> QED BY <3>1 DEF MapsAgree, NothingLeftBehind
  <2>2. CASE conn[s] # "subscribed"
    <3>1. /\ clients' = clients \ {s}
          /\ subscribers' = subscribers \ {s}
          /\ closed' = closed
      BY <1>1, <2>2, CleanupEffect DEF SweepClean, Leave
    <3>2. /\ \A r \in Subs : r # s => conn'[r] = conn[r] /\ ctx'[r] = ctx[r]
          /\ conn'[s] \in {conn[s], "returned"}
          /\ conn[s] = "new" => ctx'[s] = ctx[s]
          /\ ctx'[s] \in {ctx[s], "done"}
          /\ conn'[s] = "returned" => ctx'[s] # "live"
      BY <1>1 DEF SweepClean, Leave, Move, EndContext, SSETypeOK, NothingLeftBehind
    <3> QED BY <1>0, <2>2, <3>1, <3>2 DEF MapsAgree, NothingLeftBehind
  <2> QED BY <2>1, <2>2
<1>2. ASSUME NEW s \in Subs, Admit(s) PROVE MapsInv'
  <2>1. UNCHANGED <<clients, subscribers, closed>>
    BY <1>2 DEF Admit, vars
  <2>2. /\ \A r \in Subs : r # s => conn'[r] = conn[r] /\ ctx'[r] = ctx[r]
        /\ conn[s] = "new" /\ conn'[s] \in {"admitted", "rejected"}
        /\ conn'[s] = "rejected" => ctx'[s] # "live"
    BY <1>2 DEF Admit, Move, SSETypeOK
  <2> QED BY <1>0, <2>1, <2>2 DEF MapsAgree, NothingLeftBehind
<1>3. ASSUME NEW s \in Subs, TrySubscribe(s) PROVE MapsInv'
  <2>1. UNCHANGED <<clients, subscribers, closed>>
    BY <1>3 DEF TrySubscribe, SubscribeCheck
  <2>2. /\ \A r \in Subs : r # s => conn'[r] = conn[r] /\ ctx'[r] = ctx[r]
        /\ conn[s] = "admitted" /\ conn'[s] \in {"admitted", "returned"}
        /\ conn'[s] = "returned" => ctx'[s] # "live"
    BY <1>3 DEF TrySubscribe, Move, EndContext, SSETypeOK
  <2> QED BY <1>0, <2>1, <2>2 DEF MapsAgree, NothingLeftBehind
<1>4. ASSUME NEW s \in Subs, DoSubscribe(s) PROVE MapsInv'
  <2>1. /\ UNCHANGED <<clients, closed, ctx>>
        /\ subscribers' = subscribers \cup {s}
        /\ conn[s] = "admitted" /\ conn'[s] = "subscribed"
        /\ \A r \in Subs : r # s => conn'[r] = conn[r]
    BY <1>4 DEF DoSubscribe, Subscribe, Move, SSETypeOK
  <2> QED BY <1>0, <2>1 DEF MapsAgree, NothingLeftBehind
<1>5. ASSUME NEW s \in Subs, Register(s) PROVE MapsInv'
  <2>1. /\ UNCHANGED <<subscribers, closed, ctx>>
        /\ clients' = clients \cup {s}
        /\ conn[s] = "subscribed" /\ conn'[s] = "registered"
        /\ \A r \in Subs : r # s => conn'[r] = conn[r]
    BY <1>5 DEF Register, vars, Move, SSETypeOK
  <2> QED BY <1>0, <2>1 DEF MapsAgree, NothingLeftBehind
<1>6. ASSUME NEW s \in Subs, \/ BeginSnapshot(s) \/ ReadSnapshot(s)
                             \/ SendBootstrap(s) \/ SendBootstrapFails(s)
                             \/ StreamEvent(s) \/ StreamClosed(s) \/ StreamDone(s)
      PROVE  MapsInv'
  <2>1. UNCHANGED <<clients, subscribers, closed, ctx>>
    BY <1>6 DEF BeginSnapshot, SnapshotBegin, ReadSnapshot, SnapshotRead,
                SendBootstrap, Bootstrap, SendBootstrapFails, StreamEvent, Receive,
                StreamClosed, ReceiveClosed, StreamDone, vars, connVars
  <2>2. /\ \A r \in Subs : r # s => conn'[r] = conn[r]
        /\ conn[s] \in {"registered", "streaming"}
        /\ conn'[s] \in {"registered", "streaming", "leaving"}
    BY <1>6 DEF BeginSnapshot, ReadSnapshot, SendBootstrap, SendBootstrapFails,
                StreamEvent, StreamClosed, StreamDone, StartStreaming, Move,
                connVars, SSETypeOK
  <2> QED BY <1>0, <2>1, <2>2 DEF MapsAgree, NothingLeftBehind
<1>7. ASSUME NEW s \in Subs, Disconnect(s) \/ Expire(s) PROVE MapsInv'
  <2>1. UNCHANGED <<clients, subscribers, closed, conn>>
    BY <1>7 DEF Disconnect, Expire, vars
  <2>2. /\ \A r \in Subs : r # s => ctx'[r] = ctx[r]
        /\ conn[s] \notin {"new", "rejected", "returned"}
    BY <1>7 DEF Disconnect, Expire, Connected, EndContext, SSETypeOK
  <2> QED BY <1>0, <2>1, <2>2 DEF MapsAgree, NothingLeftBehind
<1>8. ASSUME NEW s \in Subs, PingTick(s) \/ PingSend(s) \/ PingStop(s)
      PROVE  MapsInv'
  <2>1. UNCHANGED <<clients, subscribers, closed, conn, ctx>>
    BY <1>8 DEF PingTick, PingSend, PingStop, Ping, vars
  <2> QED BY <2>1 DEF MapsAgree, NothingLeftBehind
<1>9. CASE PublisherStep
  <2>1. /\ UNCHANGED <<clients, conn, ctx>>
        /\ \/ UNCHANGED <<subscribers, closed>>
           \/ subscribers' = {} /\ closed'
    BY <1>9 DEF PublisherStep, connVars, Close, WriterStep, Store, CheckClosed,
                PublishToStore, PublishToStoreFails, Broadcast
  <2> QED BY <2>1 DEF MapsAgree, NothingLeftBehind
<1>10. CASE SweepCollect \/ CloseBegin \/ CloseEnd \/ UNCHANGED sseVars
  <2>1. UNCHANGED <<clients, subscribers, closed, conn, ctx>>
    BY <1>10 DEF SweepCollect, CloseBegin, CloseEnd, sseVars, connVars, vars
  <2> QED BY <2>1 DEF MapsAgree, NothingLeftBehind
<1> QED
  BY <1>1, <1>2, <1>3, <1>4, <1>5, <1>6, <1>7, <1>8, <1>9, <1>10
  DEF SSENext, ConnectionStep, HandlerStep

LEMMA MapsAlways == SSESpec => []MapsInv
<1>1. SSEInit /\ SSETypeOK => MapsInv
  BY DEF SSEInit, Init, MapsInv, MapsAgree, NothingLeftBehind
<1> QED
  BY <1>1, MapsNext, HandlerTypeCorrect, PTL DEF SSESpec

\* The client map and the subscriber map never part company, whatever the
\* interleaving of handlers, sweeper and Close.
THEOREM Maps == SSESpec => []MapsAgree
<1>1. MapsInv => MapsAgree
  BY DEF MapsInv
<1> QED BY <1>1, MapsAlways, PTL

\* Every path out of HandleSSE gives back all that it took.
THEOREM NoLeak == SSESpec => []NothingLeftBehind
<1>1. MapsInv => NothingLeftBehind
  BY DEF MapsInv
<1> QED BY <1>1, MapsAlways, PTL

-----------------------------------------------------------------------------
(***************************************************************************)
(* The stream.  A connection streams only after its Snapshot call, and one *)
(* whose context is live is in the handler's map: its own cleanup comes    *)
(* when it has left the loop, and the sweeper's ends its context.  With    *)
(* MapsAgree it is then in the publisher's map too, and the publisher's    *)
(* NoGap speaks of it.                                                     *)
(***************************************************************************)
StreamInv ==
  /\ SSETypeOK
  /\ \A s \in Subs : conn[s] = "streaming" => phase[s] = "live"
  /\ \A s \in Subs :
       conn[s] \in {"registered", "streaming"} /\ ctx[s] = "live" => s \in clients

LEMMA CleanupKeepsPhase ==
  ASSUME NEW s \in Subs, CleanupClient(s)
  PROVE  phase' = phase /\ clients' = clients \ {s}
BY DEF CleanupClient, Unsubscribe, vars

LEMMA StreamNext == StreamInv /\ SSETypeOK' /\ [SSENext]_sseVars => StreamInv'
<1> SUFFICES ASSUME StreamInv, SSETypeOK', [SSENext]_sseVars PROVE StreamInv'
  OBVIOUS
<1> USE DEF StreamInv
<1>1. ASSUME NEW s \in Subs, Leave(s) PROVE StreamInv'
  <2>1. /\ conn'[s] = "returned" /\ phase' = phase /\ clients' = clients \ {s}
        /\ \A r \in Subs : r # s => conn'[r] = conn[r] /\ ctx'[r] = ctx[r]
    BY <1>1, CleanupKeepsPhase DEF Leave, Move, EndContext, SSETypeOK
  <2> QED BY <2>1
<1>2. ASSUME NEW s \in Subs, SweepClean(s) PROVE StreamInv'
  <2>1. /\ conn' = conn /\ phase' = phase /\ clients' = clients \ {s}
        /\ \A r \in Subs : r # s => ctx'[r] = ctx[r]
        /\ s \in clients => ctx'[s] = "done"
        /\ s \notin clients => ctx'[s] = ctx[s]
    BY <1>2, CleanupKeepsPhase DEF SweepClean, EndContext, SSETypeOK
  <2> QED BY <2>1
<1>3. ASSUME NEW s \in Subs, Admit(s) \/ TrySubscribe(s) \/ DoSubscribe(s)
      PROVE  StreamInv'
  <2>1. /\ clients' = clients
        /\ \A r \in Subs : r # s => /\ conn'[r] = conn[r] /\ ctx'[r] = ctx[r]
                                    /\ phase'[r] = phase[r]
        /\ conn'[s] \notin {"registered", "streaming"}
    BY <1>3 DEF Admit, TrySubscribe, SubscribeCheck, DoSubscribe, Subscribe, Enter,
                Move, EndContext, vars, SSETypeOK, TypeOK
  <2> QED BY <2>1
<1>4. ASSUME NEW s \in Subs, Register(s) PROVE StreamInv'
  <2>1. /\ clients' = clients \cup {s} /\ conn'[s] = "registered"
        /\ \A r \in Subs : r # s => conn'[r] = conn[r]
        /\ UNCHANGED <<ctx, phase>>
    BY <1>4 DEF Register, Move, vars, SSETypeOK
  <2> QED BY <2>1
<1>5. ASSUME NEW s \in Subs, \/ BeginSnapshot(s) \/ ReadSnapshot(s)
                             \/ SendBootstrap(s) \/ SendBootstrapFails(s)
                             \/ StreamEvent(s) \/ StreamClosed(s) \/ StreamDone(s)
      PROVE  StreamInv'
  <2>1. /\ UNCHANGED <<clients, ctx>>
        /\ conn[s] \in {"registered", "streaming"}
        /\ \A r \in Subs : r # s => conn'[r] = conn[r] /\ phase'[r] = phase[r]
    BY <1>5 DEF BeginSnapshot, SnapshotBegin, ReadSnapshot, SnapshotRead,
                SendBootstrap, Bootstrap, SendBootstrapFails, StreamEvent, Receive,
                StreamClosed, ReceiveClosed, StreamDone, StartStreaming, Move,
                Enter, vars, connVars, SSETypeOK, TypeOK
  <2>2. conn'[s] = "streaming" => phase'[s] = "live"
    BY <1>5 DEF BeginSnapshot, SnapshotBegin, ReadSnapshot, SnapshotRead,
                SendBootstrap, Bootstrap, SendBootstrapFails, StreamEvent, Receive,
                StreamClosed, StreamDone, StartStreaming, Move, Enter, connVars,
                SSETypeOK, TypeOK
  <2> QED BY <2>1, <2>2
<1>6. ASSUME NEW s \in Subs, Disconnect(s) \/ Expire(s) PROVE StreamInv'
  <2>1. /\ UNCHANGED <<clients, conn, phase>>
        /\ ctx'[s] = "done" /\ \A r \in Subs : r # s => ctx'[r] = ctx[r]
    BY <1>6 DEF Disconnect, Expire, EndContext, vars, SSETypeOK
  <2> QED BY <2>1
<1>7. CASE \/ \E s \in Subs : PingTick(s) \/ PingSend(s) \/ PingStop(s)
           \/ PublisherStep \/ SweepCollect \/ CloseBegin \/ CloseEnd
           \/ UNCHANGED sseVars
  <2>1. UNCHANGED <<clients, conn, ctx, phase>>
    BY <1>7 DEF PingTick, PingSend, PingStop, Ping, PublisherStep, Close,
                WriterStep, Store, CheckClosed, PublishToStore,
                PublishToStoreFails, Broadcast, SweepCollect, CloseBegin,
                CloseEnd, sseVars, connVars, vars
  <2> QED BY <2>1
<1> QED
  BY <1>1, <1>2, <1>3, <1>4, <1>5, <1>6, <1>7
  DEF SSENext, ConnectionStep, HandlerStep

\* While HandleSSE streams to a live connection, neither map loses it, and
\* the snapshot and the stream leave it no gap.
THEOREM StreamsFollow ==
  ASSUME OneWriterPerCluster
  PROVE  SSESpec => []LiveStreamsFollow
<1>1. SSESpec => []StreamInv
  <2>1. SSEInit /\ SSETypeOK => StreamInv
    BY DEF SSEInit, StreamInv
  <2> QED BY <2>1, StreamNext, HandlerTypeCorrect, PTL DEF SSESpec
<1>2. SSESpec => []NoGap
  BY HandlerUsesPublisher, NoGapTheorem
<1>3. StreamInv /\ MapsAgree /\ NoGap => LiveStreamsFollow
  BY DEF StreamInv, MapsAgree, NoGap, LiveStreamsFollow
<1> QED BY <1>1, <1>2, <1>3, Maps, PTL
=============================================================================
