# Verification of kube-ops-view (Go)

TLA+ models of kube-ops-view: how cluster state gets from the Kubernetes API into a
store and from there to the browsers that watch it, who is let in to see it, and
how the process that does this is configured, serves and shuts down.
`MODULE.tla` files are checked with TLC under the `.cfg` files beside them, and
`*_proofs.tla` files with TLAPS. `PROJECT.json` lists the runs, the source lines
of every definition, the mutants, the hazards and the theorems.

Source paths below are relative to the repository's `internal/`.

## 1. The system

One process polls clusters and serves a page. `main.go` builds a store, a
publisher, a cluster manager and an HTTP server; a page opens an SSE stream,
gets the present state and then one event per change.

    discovery --> manager --> engine (one per cluster) --> store --> snapshot --> SSE handler --> page
                     |             |                                    ^
                     |             +--> publisher -- channel per subscriber --+
                     +--> health checks, pruning --> store, publisher

| component | state it keeps | operations | what makes it hard | what makes it correct |
|---|---|---|---|---|
| event publisher `events/publisher.go` | map of subscribers, a buffered channel each, `closed` | Publish* (4), Subscribe, Unsubscribe, Snapshot, Close | `closed` is read outside the lock; the store is called between that read and the broadcast; full channels drop; Snapshot reads while writers write | no send on or second close of a closed channel; a snapshot followed by the channel ends at the newest version; one writer's events in order |
| SSE handler `events/sse.go` | map of clients, a context and a pinger each | HandleSSE, its event loop, pinger, sweeper, BroadcastMessage, Close | two maps under two locks; three parties clean up one client; early returns; a lock taken twice | nothing left behind on any path; handler and pinger end; Close ends |
| query engine `cluster/query_engine.go` | client map, a goroutine and its context | Start, Stop, poll, query with retries | Stop during a query, a retry delay or a store call | Stop returns, and nothing runs after it |
| cluster manager `cluster/manager.go` | clients, engines, cached statuses, `running`, context, WaitGroup | Start, Stop, discovery, rediscovery, health checks, pruning, queries of status | `mu` held while waiting for a goroutine; checks and queries in flight when their cluster goes; status cache read later than it was written | engines = clients; no data of a removed cluster comes back; only unavailable clusters are pruned; quiet after Stop; Stop returns |
| discovery `cluster/discovery.go` | none | Discover of three sources and their union | a source that fails is passed over | its caller survives any answer |
| cluster client `cluster/client.go` | none | Kubernetes API calls | I/O | not modelled |
| stores `store/memory.go`, `store/redis.go` | cluster data, statuses, event subscriptions, screen tokens | Get/Set/Delete, Publish/Subscribe, Create/Redeem/Validate/Delete token | multi-command operations in Redis, keys with a TTL, commands that fail after they had effect | calls are atomic; a token is redeemed once; deletion is final |
| delta `delta/`, `cluster/delta_integration.go` | previous state per cluster | Calculate, Clear, Optimize, publish with fallback | previous state replaced before the publish succeeds; key paths that share an array | patch(old, diff(old, new)) = new; who got every event shows the last data |
| sessions `auth/session.go` | map of sessions | Create, Get, Refresh, Delete (one, a user's), cleanup, Close | expiry checked outside the lock, then deleted; sessions are pointers that outlive the map entry | what ended stays ended; only what was expired is lost; a lookup returns a session that lived during it |
| OAuth `auth/oauth.go` | states with an expiry | Generate, Validate, Remove, cleanup | map without a lock | a spent state opens no session |
| authentication `auth/manager.go`, `middleware.go` | none of its own | three middlewares, login, callback, logout, screen tokens | the order in which credentials are tried while they are withdrawn | withdrawn credentials admit nobody |
| HTTP server `server/`, `main.go` | the components | configure, build, Start, routes, Shutdown | requests between two writes; streams longer than the WriteTimeout; order of Shutdown, a step that does not return | a status with every data; the store closed behind its users; Shutdown ends |
| errors `errors/` | rate limiter map | RateLimit, error answers, RetryWithBackoff | map without a lock | only who is over the limit is refused |
| configuration `config/` | none | Load, Validate, flags of main | precedence of sources that imply each other's settings | what serves was asked for |
| health `health/` | checks | aggregate | ordering of severities | worst of the checks |
| logging, metrics, models, assets | - | - | - | not state machines |
| frontend `app/src/app.js` | clusters by id, reconnect timer | apply snapshot, update, delta | reconnect in the middle of a stream | page follows the stream |

The hazards this code is exposed to are listed in `PROJECT.json` with their line
and the properties that would catch them.

## 2. The modules

| module | models | composes |
|---|---|---|
| `EventPublisher` | publisher.go and the threads that call it | |
| `SSEHandler` | sse.go | extends `EventPublisher`: a connection's subscription is one of its `Subs` |
| `QueryEngine` | query_engine.go, a poll goroutine per cluster | |
| `ClusterManager` | manager.go | extends `QueryEngine`: starts and stops its engines |
| `ClusterManagerClock` | the ages and the threshold of pruning | extends `ClusterManager`: each step is one of its steps, with ages |
| `ScreenTokens` | what `store.Store` promises of screen tokens | |
| `MemoryTokens` | memory.go, token calls | implements `ScreenTokens` (`Promise`, MayFail = FALSE) |
| `RedisTokens` | redis.go, token calls, one step per Redis command | implements `ScreenTokens` (MayFail = TRUE) with one client |
| `RedisStore` | redis.go, cluster data by pipelines | extends `RedisTokens`: one Redis for both |
| `Sessions` | session.go | |
| `Authentication` | manager.go, middleware.go, oauth.go of `auth/` | extends `Sessions` and `MemoryTokens`: requests make their calls |
| `DeltaCalculator` | calculator.go, `OptimizeDelta`, `Clone`: operators, no state | |
| `DeltaFeed` | delta/integration.go, cluster/delta_integration.go | extends `DeltaCalculator` |
| `Configuration` | `config/` and the flags of main.go: operators, no state | |
| `RateLimit` | RateLimitMiddleware | |
| `Server` | main.go, `server/`, health.go | extends `Configuration` and `RateLimit`; manager, SSE handler and store as far as requests and Shutdown meet them |
| `MC...` | the functions and sets that the .cfg files need as constants | |
| `..._proofs` | theorems | each extends its module; `Authentication_proofs` holds those of the memory store, `ClusterManager_proofs` those of the clock, `Server_proofs` uses those of `RateLimit_proofs` |

Definitions named `...Early`, `...OffByOne`, `...Only` and the like, each under a
comment that begins with "Fault:", are plausible bugs. No specification uses
them; they stand beside the definition they would replace, and every property of
a passing run is violated when its fault is put in.

### EventPublisher

A *writer* is a thread that stores a reading of a cluster and then publishes it:
the poll goroutine of the cluster's query engine (SetClusterData,
PublishClusterUpdate). A *subscriber* calls Subscribe, then Snapshot, then
receives. What a payload says is abstracted to a version number: reading n of a
cluster is version n.

* `Store`: SetClusterData; it may fail, and the reading is published all the
  same (query_engine.go:291-317 only log). `CheckClosed`, `PublishToStore`,
  `PublishToStoreFails`, `Broadcast` are the parts of a Publish* call between
  which other threads run.
* `SubscribeCheck` and `Subscribe` are the two halves of Subscribe: the test of
  `closed`, and the rest under the lock.
* `SnapshotBegin`, `SnapshotRead`, `Bootstrap` are Snapshot: the ids, one
  cluster at a time, and the answer. `Receive`, `ReceiveClosed`, `Unsubscribe`,
  `Close` are the rest.
* `missed[s]` is a history variable: clusters of which s was refused the newest
  version (full channel, store error, failed read). Without it the promise
  "s ends at the newest version" could not be stated as weakly as the code
  deserves, since a full channel drops silently.

### SSEHandler

`conn[s]` is the position of the call of HandleSSE. `Admit` (the client limit),
`TrySubscribe`/`DoSubscribe`, `Register`, `BeginSnapshot`/`ReadSnapshot`/
`SendBootstrap` or `SendBootstrapFails`, `StreamEvent`/`StreamClosed`/
`StreamDone`, `Leave`. The peer (`Disconnect`), the deadline of the context
(`Expire`), the pinger (`PingTick`, `PingSend`, `PingStop`), the sweeper
(`SweepCollect`, then `SweepClean` one id at a time) and `CloseBegin`/`CloseEnd`
surround it. `mu` is explicit because Close calls cleanupClient with it held:
`CloseEnd` is possible only if no client is left.

The handler changes the publisher by calls only: TrySubscribe and DoSubscribe
(Subscribe, sse.go:103), BeginSnapshot to SendBootstrap (Snapshot, 139), StreamEvent
and StreamClosed (the receive, 242), and CleanupClient (Unsubscribe, 314). So it
implements the publisher's specification by its form; `HandlerUsesPublisher` in
`SSEHandler_proofs` is a lemma and not a result. What the handler has to get right is
the order of these calls, which `LiveStreamsFollow` is about.

### QueryEngine and ClusterManager

`poll[c]` is the position of the poll goroutine of cluster c. It is split at its
store calls and at its waits. `ClusterManager` adds `mu`, the maps, the three
loops and the health checks with a goroutine per cluster. `mu` is a variable only
where it is held across a wait (rediscoverClusters, performClusterPruning and
Stop wait for an engine): `Rediscover`/`Prune`, then `StopOne` and `Remove` per
cluster, then `Unlock`. The set of clusters a discovery returns is arbitrary,
since MultiDiscoverer passes over sources that fail. `mock` is Config.Mock: a mock
cluster has no engine, its data and status are stored when it is added (`Seed`), the
mock discoverer always returns all of them (`Discovered`), and its checks always
find it available (`Findings`). `Remove` deletes the
cached status in pruning and not in rediscovery, as the code does. `undeleted`
is a history variable for the clusters DeleteCluster failed for.

`ClusterManagerClock` adds ticks: `age[c]` is the time since LastSeen of the
cached status, `since[c]` the time since c was added (history), `due` the time
since a round of health checks began. `Timed(step)` is a step of the manager and
what it does to these; `Tick` passes time, but not past the next round of checks.

### Screen tokens

`ScreenTokens` is an abstract specification in the style of a linearizable
object: a call begins, takes effect in one step that gives its answer, and
returns. The clock is the set of tokens that have expired; an answer may use any
clock value within the call. `MemoryTokens` holds the map (keys and marks);
each call is one step since the store's lock is held throughout. `RedisTokens`
has one step per command: redeeming is GET, a decision, TTL, SET (or DEL when
expired). A command may fail with or without effect, and Redis drops keys on
its own (`Evict`), a key that was written back perhaps a little before its time, as
TTL answers in rounded seconds (redis.go:355). The refinement maps are identities on the shared history
variables; the concrete maps and keys are what the abstract side knows nothing of.

### RedisStore

`pipe[w]` is a pipeline that goroutine w of some process has sent: the commands
still to execute, one per step, between those of the others. `CommandFails` is an
error of one command (the next ones are executed all the same), a lost connection,
or a client that sends the whole pipeline again; with or without effect. A reader
takes one id (`GetClusterIDs`) and asks for its data later. `intact` is history: the
clusters whose last pipelines neither failed nor met another. `excused` marks a
reader that may miss its cluster.

The data calls of the memory store are a map under one lock, hence the single
steps `Store`, `StoreData`, `StoreStatus` of the other modules.

### Sessions and Authentication

`lookup[r]` is a call of GetSession or RefreshSession, split where it takes and
drops the lock: `Find`, `CheckExpiry` (no lock), `DeleteExpired` or
`TouchLastSeen`, `RefreshSession`. A session is a pointer, so a lookup goes on with
one that has left the map. The clock is the set `lapsed`; `everLapsed` and `ended`
are history.

In `Authentication`, `request[r]` is a request with what it presents; `late` says
that all of it had been withdrawn when it arrived. `UseToken`/`TokenAnswered` and
`UseSession`/`SessionAnswered` are the calls the middleware makes, in the order
RequireAuth, OptionalAuth and ScreenTokenAuth try them. Which handler an admitted
request is for is chosen when it gets there. `ValidateState` and `RemoveState` are
two steps: the map of states has no lock, and two callbacks with one state may both
pass (the properties allow that and forbid the rest). RefreshSession,
DeleteUserSessions and Close have no caller in the program and may come at any
moment; the same holds of redeeming a token.

### DeltaCalculator and DeltaFeed

A document is a function from paths to what is there: an object, whose members have
paths one key longer, or a leaf or an array, with nothing below. The recursion of
`diff` thus becomes sets of paths: where it arrives (`Visited`), which of those
become stanzas (`Changes`), and what the stanza says (`Value`). The fields kept are
one of each kind that behaves differently (a phase, labels that may be nil,
containers, a ready flag, conditions, nested pods). `Clone` turns nil labels into
empty ones and empty containers into nil, as the code does. `IsClusterData` says
what a query may return: no empty labels and no empty lists of containers other than
nil (query_engine.go:455-551).

A range over a Go map is any order, so that `Walks` are orders in which all paths
may be visited, depth first. Key paths are Go slices: `Owner(n)` is the length at which
the array of a path of n keys was allocated (append makes room for 1, 2, 4, 8), and
`ReadKey` is what the slots of that array hold when the diff is done, which is what
the last path to be written through it left there.

`DeltaFeed` is one cluster: `CalculateDelta` replaces `previous` under the lock, the
publication follows (`PublishFullUpdate`, `PublishDelta`), may be refused
(`PublishFails`) and is then a full update, which may be refused too;
`ClearCluster` comes at any moment. `reader` is a subscriber's document, Unknown
from a lost event on until the next full update. A delta of which some key was
overwritten makes it Unknown as well: `Delta_transform` is about those. The field
`exact` is history and says of a delta, before OptimizeDelta, that no key was
overwritten. Judged afterwards it would not do: of two stanzas that ended up with
one key OptimizeDelta drops the first, and what is left may look exact while a
change is missing. (The proof of ReaderFollows failed there, and TLC then showed the
lost change.)

### Configuration, RateLimit and Server

A source (file, environment, command line) is a function from settings to values; a
value is empty, garbled, bad or a name. `WithFlags`, `LoadFromEnv`, `LoadFromFile`
and `Validate` say which source wins. In this code the environment overrides the
flags, although config/README.md:8 says the opposite: the model follows the code.
main reads flags and environment; `config.Load` is tried in its place as a second
entry.

`Server` follows the process: `LoadConfig`, `CheckConfig`, `NewServer`, `Start` and
their failures; requests that `Arrive`, pass the rate limit (four steps at a map
without a lock; only without debug), authentication and a handler; `Signal`, then
`Drained`, `StopManager`, `CloseSSE`, `CloseStore`. `cluster` is what the manager
does to the store, at the grain requests see. A tick is the WriteTimeout of 15s.
A ping comes every PingTicks of a stream, and one that comes WriteTicks or more after
the request began cannot be written (`PingFails`), which ends the stream. `MapFault` is Go's throw on concurrent map writes; "hung" is Close of the SSE
handler waiting for its own lock.

## 3. The runs

Run them as `tlc -config <cfg> <module>`.

| run | module | result | question |
|---|---|---|---|
| EventPublisher | MCEventPublisher | pass | ownership of channels, order, no gap after a snapshot, and catching up |
| SSEHandler | MCSSEHandler | pass | are the maps consistent, is nothing left behind, does every live stream follow its clusters, do handlers and pingers end? |
| SSEHandler_close | MCSSEHandler | violation | does Close return? |
| ClusterManager | ClusterManager | pass | engines, ghost data, pruning, quiet after Stop; Stop returns |
| ClusterManagerClock_safety | ClusterManagerClock | pass | which clusters can pruning ever remove? |
| ClusterManagerClock_prune | ClusterManagerClock | violation | is a cluster that stays unavailable pruned? |
| RedisStore | RedisStore | pass | what is left of "atomic" pipelines; token calls with one client and a failing Redis |
| RedisTokens_two | RedisTokens | violation | is a token redeemed once by two clients of Redis? |
| Authentication | MCAuthentication | pass | who gets in while sessions, states and tokens end; are the memory store's calls atomic? |
| Delta | MCDeltaFeed | pass | does a reader of deltas follow, and how far does the damage of a shared array go? |
| Delta_transform | MCDeltaFeed | violation | does a delta lead from the previous data to the current? |
| Server | MCServer | pass | configuration, status of a cluster, rate limit, order and end of Shutdown |

Bounds, and why they suffice:

* *EventPublisher*: two clusters with one writer each, one subscriber, both
  filters, a channel of 2 and 2 versions. Subscribers do not interact except
  through Close, so one shows every race of a subscriber with two writers; two
  versions of two clusters overflow a channel of two. The proofs cover any number.
* *SSEHandler*: one connection, a channel of 1, two versions, which overflow it.
  Connections share `mu` and the maps only; with two of them the liveness
  properties need millions of states, and the safety properties are proved for
  any number.
* *ClusterManager*: one cluster, MaxTries 3 as in the code. Clusters share only
  `mu` and the loops; with two the instance exceeds 20 million states. The
  proofs cover any set of clusters. Start is called once (`stop = "no"`), as the
  server does.
* *ClusterManagerClock*: CheckPeriod 1, Threshold 2 (the code: 30s and 10m; the
  threshold is at least two periods), MaxTries 1 as retries do not touch ages.
  `MaxAge` caps ages at Threshold + 2: a cluster can be pruned at Threshold + 1,
  where the ages compared are still exact. The proofs cover any of these numbers.
* *RedisStore*: one cluster, two goroutines with pipelines, so that two meet, one
  reader, one client and one token. Clusters share no key but the set of ids, of
  which each command touches one member.
* *RedisTokens_two*: one token, two clients.
* *Authentication*: two requests (symmetric), one session, user, state and token.
  Every race is one of two requests for one of these; the proofs cover any number.
* *Delta*: 25 documents of at most two nodes and two pods, chosen so that pods
  come, go and move, labels are nil, a phase, a label and the containers change, two
  members of a status change at once, and objects have and have not half of their
  keys in common. Four walks, so that each key of an object comes last in one of
  them. The proofs cover any data and any walks.
* *Server*: two requests, 8 command lines, 11 environments and 5 lists of files (each
  way in which a source may be empty, garbled, refused or imply a setting), a limit
  of 2 within 2 ticks; PingTicks 2, WriteTicks 1, DrainTicks 2 stand for 30s, 15s
  and 30s. Under the rate limit one kind of request is offered (the code: 100 per
  minute, without debug); the other kinds are offered with debug.

`CHECK_DEADLOCK FALSE` is set where the system may stop: all versions used up
(EventPublisher, SSEHandler), a stopped manager, an exited process, states and
sessions used up (Authentication). RedisStore and Delta check deadlock.

## 4. Fairness

* Publisher: a writer that began a publish finishes it, as it blocks on nothing;
  a live subscriber keeps consuming. New readings, subscriptions, Close: none.
* SSE handler: a handler goes on (writes to slow peers end at the server's
  WriteTimeout), a pinger's write ends, and its select does not pass over a done
  context for ever (strong fairness of `PingStop`: Go picks at random among
  ready cases). Close goes on when it can.
* Manager: goroutines go on, tickers fire, a select does not pass over a done
  context for ever (strong fairness of `PollEnd` and `LoopEnd("discovery")`).
  Nothing is assumed of Start or Stop being called.
* Clock: in addition the locks are handed on in the end (a `sync.RWMutex` does
  not starve a waiter) and the clock goes on.
* Server: time passes, handlers return, the steps of Shutdown go on, a round of
  queries ends, and a stream that can no longer be written to ends. No signal is
  assumed to come, no client to leave, no request to arrive.

## 5. What is proved

TLAPS proves, for every value of the constants that satisfies the assumptions
stated in the modules (named `...Assumption` there; `ClockAssumption` puts two
periods below the threshold, `DrainAssumption` a ping that cannot be written and the
end of every other handler within the drain, `RequestsAreClients` makes the requests the clients of the store):

* `EventPublisher_proofs`: `TypeCorrect`, `Ownership` (registered = open
  channel), `Order`, `NoGapTheorem`. Order needs that no event in a channel is
  newer than what its writer publishes now and that this is not newer than
  `latest`; a writer's version must exceed what it has in any channel while it
  has not broadcast. NoGap needs more: for each subscriber and cluster, what is
  in the channel, then in the snapshot and then in flight accounts for the
  newest version, from the moment of subscription on; it assumes
  `OneWriterPerCluster`, without which it is false. NoGap is not inductive, as
  a snapshot still being read is not in `view`.
* `SSEHandler_proofs`: `HandlerTypeCorrect`, `Maps`, `NoLeak`, `StreamsFollow`. The
  invariant behind the first three ties `conn[s]` to membership in both maps and to
  `ctx[s]`. StreamsFollow adds that a stream with a live context is in both maps
  (`StreamInv`: the sweeper takes only what has expired, and then its context is done)
  and is in the publisher's phase of a live subscriber, for which NoGap holds in the
  composition too (by the lemma `HandlerUsesPublisher`); it assumes
  `OneWriterPerCluster` likewise.
* `ClusterManager_proofs`: `ManagerTypeCorrect`, `Engines`, `NoGhosts`,
  `PrunesUnavailable`, `QuietStop`, for any set of clusters, where TLC has one.
  The invariant `Inv` adds to the properties that the engines are those of the clients
  at every step, or none in mock mode (`EngineInv`); that the loop that holds `mu` is busy and that pruning
  has chosen unavailable clusters only; that no check is under way when the health
  loop is not busy; that a manager never started has no loops, without which
  Start could cut a round of checks short; that the loops are done when Stop takes
  `mu` (`LoopInv`); and that the engines Stop has crossed off are off (`StopInv`).
  NoGhostData needs `EngineInv` because a poll goroutine that stores data must
  still belong to a client.
* Of the clock, in the same module: `ClockTypeCorrect` and `PrunesStaleOnly`. (Each
  step of the clock is one of the manager's by its form: the lemma
  `ClockImplementsManager`, by which the theorems above hold with a clock.) The invariant says where
  the age of a cached status can come from (`Dated`): from before the cluster was
  managed, from this round of checks, from the one before while the cluster still
  has its check ahead, or from a round that Stop cut short. A threshold of two
  periods lies above all but the first.
* `RedisStore_proofs`: `StoreTypeCorrect`, `PipelinesKeepIds`, `ReadersFindData`, for
  any number of processes. A pipeline that was alone has executed a prefix of its
  commands, which determines ids and data of its cluster (`AlonesAre`); a cluster
  that is intact and has no pipeline has both or neither (`IntactsAre`); a reader
  without an excuse has data to find (`ReadersFind`).
* Of the tokens of Redis, in the same module: `SpentStaysSpent`, for any clients;
  `SerialCallsKeepPromise`, the refinement of `ScreenTokens` for any clients and
  tokens while no two calls on one token overlap (`NoOverlap`), and
  `OneClientKeepsPromise`, where that goes without saying. The promise is broken
  without `NoOverlap`, as RedisTokens_two shows. `Knows` is what a call has read and
  may rely on: between its GET and its SET nobody else touches the token, but the
  token may expire and Redis may drop the key. The step of the code that takes effect
  is the SET of a redemption that finds the token, its last read (GET or the decision)
  where it does not, and the failure where a command fails with effect.
* `Authentication_proofs`: `AuthTypeCorrect`, `EndIsFinal`, `LossIsExpiry`,
  `LookupsAnswerLive`, `AdmissionNeedsCredential`, `StatesAreSpent`, and
  `RequestsKeepPromise`, the refinement of `ScreenTokens` from within requests. What
  a lookup has seen (`Knows`) is an invariant of the sessions alone; that of a request
  ties what it presents to the lookup and the store call it waits for. The memory
  store has `MemoryTypeCorrect`, `MapTellsHistory` and `MemoryKeepsPromise` (each step
  is a step or a stutter of `ScreenTokens`, from the invariant that the map tells the
  history and that a call's `live` flag is true when its token has not expired).
* `Server_proofs`: `StopOrder`, `StatusComesWithData`, `OnlyLateStreamsAreCut`, for
  any number of requests, any sources and any timeouts within `DrainAssumption`. A
  handler is at least as old as the drain it is in, and a stream has had no ping yet
  that could not be written (`Aged`), so that at the end of the drain only streams
  are left, and those no older than the drain; `Wound` is what each step of Shutdown has left
  behind it; `Known` says that a status is missing in a first round only.
* `TypeCorrect` and `ServesWhatWasAsked`, there too. `Asked` is proved once for each
  way of making the configuration: what a source leaves alone keeps what it had
  from the source below (`FromEnv`, `FromFlags`, `FromFiles`). That a list of files is
  a list (`FilesAssumption`) is all it needs of them.
* `LimitIsFair`, with the lemmas of `RateLimit_proofs`: a refusal counts only entries
  of requests that were admitted within the window, each once. `Honest` says that a
  list of ages is a sublist of `admitted`, counted from its young end; `LimitInv` says
  it of the map and of every copy a request has taken of it. The four steps of a
  request each keep it: dropping the old entries (`Younger`), joining a list with the
  admissions since it was read, appending, and the tick of the clock. `Younger` is
  defined by recursion over a list; what it returns is proved by the least number
  for which it would fail (`SetInduction`), as an induction theorem cannot be cited.

* `DeltaFeed_proofs`: `ReadersFollow`, `KeysStayInTheirObject`, `ExactDeltasLead`, for
  any data whose paths can be listed, and any walks that visit them all. The heart is what a delta does to a
  document (`ApplyFacts`): no change of two documents is below another, every
  difference is at or below a change, and the parent of a change is an object in the
  reader's document too, so that stanzas whose keys are the paths of all changes lead
  to the new document in any order. The reader's document is not what the delta was
  computed from: nothing is cloned on its way to the reader, while `previous` is a
  clone. `CloneOf` says how they may differ (null for an empty object), and `Apart` why
  that is never in the way: an empty object is unlike any object the data may have in
  its place, so that diff does not descend into it (`Uncovered`). That documents of the data
  have these shapes, and six keys at most, is shown field by field (`DataFacts`).
  `FeedInv`, the inductive invariant, then says that a delta under way is from the
  clone of what the reader was told, or the reader is Unknown (`Fits`); that what is
  stored is a clone of the update under way or of what was told last (`Stored`); and
  that the reader shows what it was told (`Follows`). For the keys, `KeyFacts` shows
  that only the last slot of a path of four or six keys may be overwritten, and
  by a path that diff visited in the same object. `ExactDeltasTransform`, in no run, is
  what is left of the comment that `DeltasTransform` refutes: a delta of which no key
  was overwritten leads from the previous data to the current ones.
  `KeysAssumption` says that the field names are strings, which the provers do not
  know of a literal.

Only model-checked: every liveness property (EventuallyCaughtUp, HandlersReturn,
PingersStop, EngineStops, StopReturns, ShutdownEnds), as liveness under fairness is
out of the prover's reach. Only proved, and in no run: the types of the memory
store and of the clock, SpentStaysSpent and ExactDeltasTransform.

## 6. What the violations show

* `CloseDisconnects`: SSEHandler.Close holds `h.mu` and calls cleanupClient, which
  takes it (sse.go:413, 418, 306): with a client connected it never returns. In
  `Server` this happens to the streams that `CutsLateStreams` leaves over.
* `UnavailablePruned`: a failing health check sets LastSeen to now
  (manager.go:648-653), and pruning waits for LastSeen to be old (717).
* `RedeemsOnce`: two clients of one Redis GET a token before either SETs it
  (redis.go:316-356).
* `DeltasTransform`: `newKey := append(key, k)` (delta/calculator.go:264) shares the
  array of `key` between siblings: when label a of a pod changes, its sibling b, which
  diff visits next, overwrites the key of the stanza, and the delta says of b what is
  true of a; of two changed siblings both stanzas end up with one key, and
  OptimizeDelta drops one of them.

Seen while modelling, without a run of their own: Subscribe tests `closed` before
taking the lock (publisher.go:206-210), so a Close in between leaves an open
subscription; rediscovery leaves the cached status of a cluster it removes
(manager.go:380-399), so that the next prune may take the cluster as soon as it
returns (what `OnlyStalePruned` excepts), and GetHealthyClusterCount (783) counts it;
the client limit of sse.go:83 is compared outside the lock, so concurrent requests
overshoot it; a failing round queries its cluster three times within one interval,
where README.md:197 promises one; the environment overrides the flags (main.go:175)
where config/README.md:8 says the opposite; --redis-db, --redis-password and the
flags of the node and pod links are never read, and REDIS_URL alone does not choose
Redis; the page reads deltas as [path, value] arrays, the server would send objects;
the status of a container is taken by its index (query_engine.go:501); the store's
health check is content with any answer (server.go:539-544); clusters stored in
Redis before a restart are listed and never removed, since rediscovery removes its
own clients only (redis.go:149); QueryEngine.RemoveCluster leaves the poll goroutine
of its cluster running (query_engine.go:93), but only the delta engine calls it.

## 7. Not modelled, and why

* Conversion of Kubernetes objects, HTTP bodies, templates, logging, metrics, assets
  and the cluster client are I/O or data; the outcomes of queries and checks are
  nondeterministic.
* Discovery sources: HTTP and files; the manager meets any set of clusters.
* Event subscriptions of the stores (PublishEvent, Subscribe, Unsubscribe, Close,
  the listener of Redis) and GetClusterStatus of Redis: nothing in the program
  subscribes to a store, and a status has one key.
* Errors: no handler calls `c.Error`, so that Handle and ValidationErrorMiddleware
  have nothing to do; HandleClusterError, HandleStoreError, RetryWithBackoff and
  TimeoutMiddleware have no caller.
* BroadcastMessage of the SSE handler is not called. The interleaving of bytes when
  the pinger and the handler write to one response at once is below the model.
* A manager started again after Stop: the server starts it once.
* Compression of deltas, and ValidateDelta and ApplyDelta of the DeltaManager, which
  are placeholders. The server does not use the delta publisher. The error return of
  CalculateDelta (calculator.go:39-42) needs data that `json.Marshal` refuses, which
  the data models cannot hold.
* Shutdown stops the collector and closes the store in two statements, which are one
  step (`CloseStore`): the collector does not use the store.
* flags.go: a second reading of the flags that main does not take.
* The frontend is JavaScript of a page; its rendering and its reconnects are not here.

## 8. Plan

Done, in order of importance: publisher, handler, engines and manager, pruning,
screen tokens; then the pipelines of Redis, sessions and authentication, deltas, the
server with its configuration, rate limit and Shutdown, and the proofs of section 5.
Next:

1. `Page` (app/src/app.js): snapshot, updates and reconnects applied to the page's
   table, composed with `SSEHandler`.
2. The event subscriptions of both stores with their Close.
3. A promise of Redis that holds with two clients (what a redemption that answers ok
   still means), and its refinement.
4. Two clusters in `DeltaFeed`, whose calculator keeps them apart by id.

A run answers one question; runs of one component over one instance are merged (as
EventPublisher's and ClusterManager's are) before a new one is added.
