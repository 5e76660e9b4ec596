----------------------------- MODULE SSEHandler -----------------------------
(***************************************************************************)
(* The SSE handler of internal/events/sse.go composed with the publisher   *)
(* of EventPublisher: a connection s is one call of HandleSSE, and is also *)
(* the name of the one subscription that call makes and of its client id.  *)
(*                                                                         *)
(* Per connection there are two goroutines, the handler and its pinger;    *)
(* the process has one sweeper (cleanupClients) and one caller of Close.   *)
(* SSEHandler.mu is explicit, since Close holds it across calls that take  *)
(* it again; every other critical section is one step that needs it free.  *)
(*                                                                         *)
(* Time is abstract: a connection's context may end at any moment, because *)
(* the peer left or because ClientTimeout passed, and only in the second   *)
(* case may the sweeper find LastPing too old, since LastPing is never     *)
(* older than the start of that timeout.                                   *)
(***************************************************************************)
EXTENDS EventPublisher

CONSTANT MaxClients  \* SSEConfig.MaxClients

ASSUME MaxClientsAssumption == MaxClients \in Nat \ {0}

VARIABLES
  mu,        \* SSEHandler.mu: "free", or "close" while Close holds it
  clients,   \* keys of SSEHandler.clients
  conn,      \* conn[s]: where the handler of connection s stands
  ctx,       \* ctx[s]: the connection's context, "none", "live" or "done"
  expired,   \* expired[s]: ClientTimeout has passed since it began
  ping,      \* ping[s]: the pinger, "none", "waiting", "sending", "stopped"
  sweep,     \* stale ids the sweeper collected and has not yet cleaned up
  closing    \* the call of SSEHandler.Close: "no", "disconnecting", "closed"

connVars == <<conn, ctx, expired, ping>>
sseVars  == <<vars, mu, clients, connVars, sweep, closing>>

SSEInit ==
  /\ Init
  /\ mu = "free"
  /\ clients = {}
  /\ conn = [s \in Subs |-> "new"]
  /\ ctx = [s \in Subs |-> "none"]
  /\ expired = [s \in Subs |-> FALSE]
  /\ ping = [s \in Subs |-> "none"]
  /\ sweep = {}
  /\ closing = "no"

Move(s, label) == conn' = [conn EXCEPT ![s] = label]
EndContext(s) == ctx' = [ctx EXCEPT ![s] = "done"]

-----------------------------------------------------------------------------
(* HandleSSE, step by step.                                                *)

\* The count is read under h.mu.RLock and compared after RUnlock.
Admit(s) ==
  /\ conn[s] = "new"
  /\ mu = "free"
  /\ IF Cardinality(clients) >= MaxClients
       THEN Move(s, "rejected") /\ UNCHANGED ctx
       ELSE Move(s, "admitted") /\ ctx' = [ctx EXCEPT ![s] = "live"]
  /\ UNCHANGED <<vars, mu, clients, expired, ping, sweep, closing>>

\* Subscribe fails at once when the publisher is closed; the deferred cancel
\* runs on return.
TrySubscribe(s) ==
  /\ conn[s] = "admitted"
  /\ SubscribeCheck(s)
  /\ IF closed THEN Move(s, "returned") /\ EndContext(s)
               ELSE UNCHANGED <<conn, ctx>>
  /\ UNCHANGED <<mu, clients, expired, ping, sweep, closing>>

DoSubscribe(s) ==
  /\ conn[s] = "admitted"
  /\ Subscribe(s)
  /\ Move(s, "subscribed")
  /\ UNCHANGED <<mu, clients, ctx, expired, ping, sweep, closing>>

Register(s) ==
  /\ conn[s] = "subscribed"
  /\ mu = "free"
  /\ clients' = clients \cup {s}
  /\ Move(s, "registered")
  /\ UNCHANGED <<vars, mu, ctx, expired, ping, sweep, closing>>

\* The pinger is started when the handler enters its event loop.
StartStreaming(s) ==
  /\ Move(s, "streaming")
  /\ ping' = [ping EXCEPT ![s] = "waiting"]

\* The connection message is sent, its error ignored, and Snapshot called;
\* its error is only logged, and streaming begins without a bootstrap.
BeginSnapshot(s) ==
  /\ conn[s] = "registered"
  /\ SnapshotBegin(s)
  /\ IF closed THEN StartStreaming(s) ELSE UNCHANGED <<conn, ping>>
  /\ UNCHANGED <<mu, clients, ctx, expired, sweep, closing>>

ReadSnapshot(s) ==
  /\ conn[s] = "registered"
  /\ \E c \in Clusters : SnapshotRead(s, c)
  /\ UNCHANGED <<mu, clients, connVars, sweep, closing>>

\* Fault: what queued up behind the snapshot is taken for part of it.
SendBootstrapDrains(s) ==
  /\ conn[s] = "registered"
  /\ phase[s] = "snapshot" /\ snapTodo[s] = {}
  /\ view' = [view EXCEPT ![s] = snap[s]]
  /\ chan' = [chan EXCEPT ![s] = <<>>]
  /\ phase' = [phase EXCEPT ![s] = "live"]
  /\ StartStreaming(s)
  /\ UNCHANGED <<writerVars, closed, subscribers, filter, chanState, snapVars,
                 missed, mu, clients, ctx, expired, sweep, closing>>

SendBootstrap(s) ==
  /\ conn[s] = "registered"
  /\ Bootstrap(s)
  /\ StartStreaming(s)
  /\ UNCHANGED <<mu, clients, ctx, expired, sweep, closing>>

\* Fault: the early return forgets cleanupClient.
SendBootstrapFailsNoCleanup(s) ==
  /\ conn[s] = "registered"
  /\ phase[s] = "snapshot"
  /\ snapTodo[s] = {}
  /\ Move(s, "returned")
  /\ EndContext(s)
  /\ UNCHANGED <<vars, mu, clients, expired, ping, sweep, closing>>

SendBootstrapFails(s) ==
  /\ conn[s] = "registered"
  /\ phase[s] = "snapshot"
  /\ snapTodo[s] = {}
  /\ Move(s, "leaving")
  /\ UNCHANGED <<vars, mu, clients, ctx, expired, ping, sweep, closing>>

\* handleClientEvents takes an event; the write succeeds or ends the loop.
StreamEvent(s) ==
  /\ conn[s] = "streaming"
  /\ Receive(s)
  /\ \/ UNCHANGED conn
     \/ Move(s, "leaving")
  /\ UNCHANGED <<mu, clients, ctx, expired, ping, sweep, closing>>

StreamClosed(s) ==
  /\ conn[s] = "streaming"
  /\ ReceiveClosed(s)
  /\ Move(s, "leaving")
  /\ UNCHANGED <<mu, clients, ctx, expired, ping, sweep, closing>>

\* Fault: the loop watches the deadline and not the peer.
StreamDoneOnExpiry(s) ==
  /\ conn[s] = "streaming"
  /\ expired[s]
  /\ Move(s, "leaving")
  /\ UNCHANGED <<vars, mu, clients, ctx, expired, ping, sweep, closing>>

StreamDone(s) ==
  /\ conn[s] = "streaming"
  /\ ctx[s] = "done"
  /\ Move(s, "leaving")
  /\ UNCHANGED <<vars, mu, clients, ctx, expired, ping, sweep, closing>>

\* Fault: the client is forgotten and its subscription is not.
CleanupClientOnly(s) ==
  /\ mu = "free"
  /\ clients' = clients \ {s}
  /\ UNCHANGED <<vars, mu>>

\* cleanupClient, under h.mu.  The second caller finds nothing to do, and
\* Unsubscribe ignores a channel the publisher no longer has.
CleanupClient(s) ==
  /\ mu = "free"
  /\ clients' = clients \ {s}
  /\ IF s \in clients /\ s \in subscribers
       THEN Unsubscribe(s) ELSE UNCHANGED vars
  /\ UNCHANGED mu

\* Fault: the context is not cancelled on return.
LeaveContextLive(s) ==
  /\ conn[s] = "leaving"
  /\ CleanupClient(s)
  /\ Move(s, "returned")
  /\ UNCHANGED <<ctx, expired, ping, sweep, closing>>

\* HandleSSE cleans up and returns; the deferred cancel ends the context.
Leave(s) ==
  /\ conn[s] = "leaving"
  /\ CleanupClient(s)
  /\ EndContext(s)
  /\ Move(s, "returned")
  /\ UNCHANGED <<expired, ping, sweep, closing>>

-----------------------------------------------------------------------------
(* The connection's surroundings: its peer, its deadline and its pinger.   *)

Connected(s) == conn[s] \notin {"new", "rejected", "returned"}

Disconnect(s) ==
  /\ Connected(s)
  /\ ctx[s] = "live"
  /\ EndContext(s)
  /\ UNCHANGED <<vars, mu, clients, conn, expired, ping, sweep, closing>>

Expire(s) ==
  /\ Connected(s)
  /\ ~expired[s]
  /\ expired' = [expired EXCEPT ![s] = TRUE]
  /\ EndContext(s)
  /\ UNCHANGED <<vars, mu, clients, conn, ping, sweep, closing>>

Ping(s, from, to) ==
  /\ ping[s] = from
  /\ ping' = [ping EXCEPT ![s] = to]
  /\ UNCHANGED <<vars, mu, clients, conn, ctx, expired, sweep, closing>>

\* The select takes the tick, which it may do although the context is done.
PingTick(s) == Ping(s, "waiting", "sending")
\* The ping is written, or the write fails and the pinger returns.
PingSend(s) == Ping(s, "sending", "waiting") \/ Ping(s, "sending", "stopped")
PingStop(s) == ctx[s] = "done" /\ Ping(s, "waiting", "stopped")

-----------------------------------------------------------------------------
(* The sweeper and Close.                                                  *)

SweepCollect ==
  /\ mu = "free"
  /\ sweep = {}
  /\ \E stale \in SUBSET {s \in clients : expired[s]} :
       stale # {} /\ sweep' = stale
  /\ UNCHANGED <<vars, mu, clients, connVars, closing>>

\* An id collected earlier may have been cleaned up by its own handler.
SweepClean(s) ==
  /\ s \in sweep
  /\ CleanupClient(s)
  /\ IF s \in clients THEN EndContext(s) ELSE UNCHANGED ctx
  /\ sweep' = sweep \ {s}
  /\ UNCHANGED <<conn, expired, ping, closing>>

CloseBegin ==
  /\ closing = "no"
  /\ mu = "free"
  /\ mu' = "close"
  /\ closing' = "disconnecting"
  /\ UNCHANGED <<vars, clients, connVars, sweep>>

\* Close ranges over the clients with h.mu held and calls cleanupClient,
\* whose h.mu.Lock waits for Close itself: Close gets past its loop only
\* when the loop is empty.
CloseEnd ==
  /\ closing = "disconnecting"
  /\ clients = {}
  /\ mu' = "free"
  /\ closing' = "closed"
  /\ UNCHANGED <<vars, clients, connVars, sweep>>

-----------------------------------------------------------------------------
HandlerStep(s) ==
  \/ TrySubscribe(s)
  \/ DoSubscribe(s)
  \/ Register(s)
  \/ BeginSnapshot(s)
  \/ ReadSnapshot(s)
  \/ SendBootstrap(s)
  \/ SendBootstrapFails(s)
  \/ StreamEvent(s)
  \/ StreamClosed(s)
  \/ StreamDone(s)
  \/ Leave(s)

ConnectionStep(s) ==
  \/ Admit(s)
  \/ HandlerStep(s)
  \/ Disconnect(s)
  \/ Expire(s)
  \/ PingTick(s)
  \/ PingSend(s)
  \/ PingStop(s)
  \/ SweepClean(s)

\* What the publisher's other callers do leaves the handler alone.
PublisherStep ==
  /\ Close \/ \E w \in Writers : WriterStep(w)
  /\ UNCHANGED <<mu, clients, connVars, sweep, closing>>

SSENext ==
  \/ \E s \in Subs : ConnectionStep(s)
  \/ PublisherStep
  \/ SweepCollect
  \/ CloseBegin
  \/ CloseEnd

SSESpec == SSEInit /\ [][SSENext]_sseVars

\* A handler goes on: a write to a slow peer ends at the server's
\* WriteTimeout.  A pinger's write ends likewise, and its select, which picks
\* at random among ready cases, cannot pass over a done context for ever.
\* Close goes on when it can.  No request, reading or Close is promised.
SSEFairness ==
  /\ \A s \in Subs : /\ WF_sseVars(HandlerStep(s))
                     /\ WF_sseVars(PingSend(s))
                     /\ SF_sseVars(PingStop(s))
  /\ WF_sseVars(CloseEnd)

SSEFairSpec == SSESpec /\ SSEFairness

-----------------------------------------------------------------------------
(* Properties.                                                             *)

\* The handler's variables stay in their types; EventPublisher's TypeOK
\* covers the others.
SSETypeOK ==
  /\ TypeOK
  /\ mu \in {"free", "close"}
  /\ clients \subseteq Subs
  /\ conn \in [Subs -> {"new", "rejected", "admitted", "subscribed",
                        "registered", "streaming", "leaving", "returned"}]
  /\ ctx \in [Subs -> {"none", "live", "done"}]
  /\ expired \in [Subs -> BOOLEAN]
  /\ ping \in [Subs -> {"none", "waiting", "sending", "stopped"}]
  /\ sweep \subseteq Subs
  /\ closing \in {"no", "disconnecting", "closed"}

\* The two maps, each behind its own lock, agree: a subscription belongs to
\* a registered client or to a handler about to register it, and a client
\* whose publisher is open is subscribed.  Holds across a sweep that races
\* with the handler's own cleanup.
MapsAgree ==
  /\ \A s \in subscribers : s \in clients \/ conn[s] = "subscribed"
  /\ ~closed => clients \subseteq subscribers

\* A call of HandleSSE that has returned, by whatever path, left nothing
\* behind: no client, no subscription, no live context.
NothingLeftBehind ==
  \A s \in Subs : conn[s] \in {"returned", "rejected"} =>
    /\ s \notin clients
    /\ s \notin subscribers
    /\ ctx[s] # "live"

\* A connection that streams and whose context is live is still a client of
\* the handler and a subscriber of the publisher, whatever the sweeper took
\* away meanwhile; and what it was sent and what is queued for it lead to the
\* newest version of every cluster it wants, since HandleSSE takes and sends
\* its snapshot between its subscription and its first receive.  (Until the
\* publisher is closed, and but for what EventPublisher's NoGap excepts.)
LiveStreamsFollow ==
  ~closed =>
    \A s \in Subs : conn[s] = "streaming" /\ ctx[s] = "live" =>
      /\ s \in clients \cap subscribers
      /\ \A c \in Clusters :
           Wants(s, c) /\ c \notin missed[s] /\ ~InFlight(c)
             => Newest(s, c, view[s][c])

\* A handler whose context is done returns, whichever goroutine cleans up
\* first, unless a Close is stuck with the lock.
HandlersReturn ==
  \A s \in Subs :
    ctx[s] = "done" ~> (conn[s] = "returned" \/ closing = "disconnecting")

\* No pinger outlives its handler for ever.
PingersStop ==
  \A s \in Subs : conn[s] = "returned" ~> ping[s] \in {"none", "stopped"}

\* "Close shuts down the SSE handler and disconnects all clients"
\* (sse.go:411).
CloseDisconnects == closing = "disconnecting" ~> closing = "closed"
=============================================================================
