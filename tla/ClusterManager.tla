--------------------------- MODULE ClusterManager ---------------------------
(***************************************************************************)
(* The cluster manager of internal/cluster/manager.go with the query       *)
(* engines it starts and stops: the calls Start and Stop, and the three    *)
(* goroutines that Start leaves behind, for discovery, for health checks   *)
(* (with one more per cluster and round) and for pruning.                  *)
(*                                                                         *)
(* Manager.mu is explicit where it is held across a wait for a poll        *)
(* goroutine; a critical section without such a wait is one step.  m.ctx   *)
(* is the flag cancelled, and m.wg is waited for by waiting for the loops. *)
(*                                                                         *)
(* There is no time here: any tick may come, and which of the unavailable  *)
(* clusters were so for too long is left open.  ClusterManagerClock says.  *)
(***************************************************************************)
EXTENDS QueryEngine

VARIABLES
  mock,       \* Config.Mock, which nothing changes
  mu,         \* Manager.mu: "free", or who holds it across a wait
  running,    \* status.Running
  cancelled,  \* Manager.ctx is cancelled
  clients,    \* keys of Manager.clients
  engines,    \* keys of Manager.engines
  cache,      \* Manager.clusterStatuses, "none" for no entry
  loop,       \* loop[l]: where the goroutine of loop l stands
  check,      \* check[c]: where the health check of c stands
  found,      \* found[c]: what it found
  removing,   \* clusters the holder of mu has still to stop or remove
  undeleted,  \* history: clusters DeleteCluster failed for
  stop        \* the call of Stop: "no", "waiting", "engines", "stopped"

Loops     == {"discovery", "health", "prune"}
checkVars == <<check, found>>
stateVars == <<mock, running, cancelled, clients, engines, cache, undeleted, stop>>
managerVars == <<queryVars, stateVars, checkVars, mu, loop, removing>>

ManagerInit ==
  /\ QueryInit
  /\ mock \in BOOLEAN
  /\ mu = "free"
  /\ running = FALSE
  /\ cancelled = FALSE
  /\ clients = {}
  /\ engines = {}
  /\ cache = [c \in Clusters |-> "none"]
  /\ loop = [l \in Loops |-> "off"]
  /\ check = [c \in Clusters |-> "none"]
  /\ found = [c \in Clusters |-> "none"]
  /\ removing = {}
  /\ undeleted = {}
  /\ stop = "no"

Enter(l, from, to) == loop[l] = from /\ loop' = [loop EXCEPT ![l] = to]

\* seedMockClusterLocked, for each of cs: a store error is only logged.
Seed(cs) ==
  /\ cache' = [c \in Clusters |-> IF c \in cs THEN "up" ELSE cache[c]]
  /\ \E kept \in SUBSET cs : data' = [c \in Clusters |-> data[c] \/ c \in kept]
  /\ \E kept \in SUBSET cs :
       status' = [c \in Clusters |-> IF c \in kept THEN "up" ELSE status[c]]

\* Clients for the clusters cs, which have none; and engines, or in mock mode
\* what the engines would have stored.
Add(cs) ==
  /\ clients' = clients \cup cs
  /\ \/ /\ mock
        /\ Seed(cs)
        /\ UNCHANGED <<engines, engineVars>>
     \/ /\ ~mock
        /\ engines' = engines \cup cs
        /\ StartEngines(cs)
        /\ UNCHANGED <<storeVars, cache>>

-----------------------------------------------------------------------------
(* Start, discovery and the removal of clusters.                           *)

\* A discovery returns any set of clusters: MultiDiscoverer passes over a
\* source that fails, and a client that cannot be made is passed over too.
\* The mock discoverer returns the same clusters every time.
Discovered == IF mock THEN {Clusters} ELSE SUBSET Clusters

Start ==
  /\ ~running /\ stop = "no"
  /\ mu = "free"
  /\ \E cs \in Discovered : Add(cs)
  /\ running' = TRUE
  /\ loop' = [l \in Loops |-> "idle"]
  /\ UNCHANGED <<mock, mu, cancelled, undeleted, stop, checkVars, removing>>

\* rediscoverClusters, up to its removals, under mu.
Rediscover ==
  /\ mu = "free"
  /\ Enter("discovery", "idle", "busy")
  /\ mu' = "discovery"
  /\ \E cs \in Discovered :
       /\ Add(cs \ clients)
       /\ removing' = clients \ cs
  /\ UNCHANGED <<mock, running, cancelled, undeleted, stop, checkVars>>

\* The holder of mu stops one engine after another.
StopOne(c) ==
  /\ c \in removing \cap engines
  /\ \A d \in removing : ~ended[d]
  /\ CancelEngine(c)
  /\ UNCHANGED <<storeVars, stateVars, checkVars, mu, loop, removing>>

\* The engine, if there is one, has stopped.  Pruning forgets the cached
\* status as well, and rediscovery does not.
Remove(c) ==
  /\ mu \in {"discovery", "prune"}
  /\ c \in removing
  /\ c \in engines => Stopped(c)
  /\ engines' = engines \ {c}
  /\ clients' = clients \ {c}
  /\ cache' = IF mu = "prune" THEN [cache EXCEPT ![c] = "none"] ELSE cache
  /\ ended' = [ended EXCEPT ![c] = FALSE]
  /\ \/ /\ data' = [data EXCEPT ![c] = FALSE]
        /\ status' = [status EXCEPT ![c] = "none"]
        /\ undeleted' = undeleted \ {c}
     \/ undeleted' = undeleted \cup {c} /\ UNCHANGED storeVars
  /\ removing' = removing \ {c}
  /\ UNCHANGED <<poll, tries, mock, running, cancelled, stop, checkVars, mu, loop>>

\* The loop that holds mu has removed what it had to.
Unlock(l) ==
  /\ mu = l /\ removing = {}
  /\ mu' = "free"
  /\ Enter(l, "busy", "idle")
  /\ UNCHANGED <<queryVars, stateVars, checkVars, removing>>

-----------------------------------------------------------------------------
(* Health checks.                                                          *)

\* A tick of the health or the prune loop; m.ctx is looked at, mu not yet
\* taken.
LoopTick(l) ==
  /\ ~cancelled
  /\ Enter(l, "idle", "ticked")
  /\ UNCHANGED <<queryVars, stateVars, checkVars, mu, removing>>

BeginChecks ==
  /\ mu = "free"
  /\ Enter("health", "ticked", "busy")
  /\ check' = [c \in Clusters |-> IF c \in clients THEN "checking" ELSE "none"]
  /\ UNCHANGED <<queryVars, stateVars, found, mu, removing>>

\* A mock cluster is always available.
Findings == IF mock THEN {"up"} ELSE {"up", "down"}

\* The check ends, and m.ctx is looked at again: before the check, and
\* before the update.
Check(c) ==
  /\ check[c] = "checking"
  /\ \/ /\ ~cancelled
        /\ check' = [check EXCEPT ![c] = "checked"]
        /\ \E s \in Findings : found' = [found EXCEPT ![c] = s]
     \/ /\ cancelled
        /\ check' = [check EXCEPT ![c] = "none"]
        /\ UNCHANGED found
  /\ UNCHANGED <<queryVars, stateVars, mu, loop, removing>>

\* updateClusterStatus: the cache under mu, then the store without it.
\* LastSeen is the time of the check, whatever the check found.
CacheStatus(c) ==
  /\ check[c] = "checked"
  /\ mu = "free"
  /\ cache' = [cache EXCEPT ![c] = found[c]]
  /\ check' = [check EXCEPT ![c] = "cached"]
  /\ UNCHANGED <<queryVars, mock, running, cancelled, clients, engines,
                 undeleted, stop, found, mu, loop, removing>>

PublishStatus(c) ==
  /\ check[c] = "cached"
  /\ StoreStatus(c, found[c])
  /\ check' = [check EXCEPT ![c] = "none"]
  /\ found' = [found EXCEPT ![c] = "none"]
  /\ UNCHANGED <<engineVars, data, stateVars, mu, loop, removing>>

EndChecks ==
  /\ \A c \in Clusters : check[c] = "none"
  /\ Enter("health", "busy", "idle")
  /\ UNCHANGED <<queryVars, stateVars, checkVars, mu, removing>>

-----------------------------------------------------------------------------
(* Pruning.                                                                *)

\* Fault: the status is not asked for, only its age.
UnavailableByAge == {c \in Clusters : cache[c] # "none"}
Unavailable == {c \in Clusters : cache[c] = "down"}

Prune ==
  /\ mu = "free"
  /\ Enter("prune", "ticked", "busy")
  /\ mu' = "prune"
  /\ removing' \in SUBSET Unavailable
  /\ UNCHANGED <<queryVars, stateVars, checkVars>>

-----------------------------------------------------------------------------
(* Stop.                                                                   *)

LoopEnd(l) ==
  /\ cancelled
  /\ Enter(l, "idle", "done")
  /\ UNCHANGED <<queryVars, stateVars, checkVars, mu, removing>>

\* Fault: mu is kept while the goroutines are waited for.
StopBeginLocked ==
  /\ running /\ stop = "no"
  /\ mu = "free"
  /\ mu' = "stop"
  /\ cancelled' = TRUE
  /\ stop' = "waiting"
  /\ UNCHANGED <<queryVars, mock, running, clients, engines, cache, undeleted,
                 checkVars, loop, removing>>

\* Stop finds the manager running and cancels m.ctx.
StopBegin ==
  /\ running /\ stop = "no"
  /\ mu = "free"
  /\ cancelled' = TRUE
  /\ stop' = "waiting"
  /\ UNCHANGED <<queryVars, mock, running, clients, engines, cache, undeleted,
                 checkVars, mu, loop, removing>>

\* m.wg.Wait has returned; mu is taken to clean up.
StopLock ==
  /\ stop = "waiting"
  /\ \A l \in Loops : loop[l] = "done"
  /\ mu = "free"
  /\ mu' = "stop"
  /\ removing' = engines
  /\ stop' = "engines"
  /\ UNCHANGED <<queryVars, mock, running, cancelled, clients, engines, cache,
                 undeleted, checkVars, loop>>

\* One engine has stopped; Stop leaves its entry in the map.
StopJoin(c) ==
  /\ stop = "engines"
  /\ c \in removing /\ Stopped(c)
  /\ removing' = removing \ {c}
  /\ UNCHANGED <<queryVars, stateVars, checkVars, mu, loop>>

\* Fault: the loops are told to stop, and Stop returns without them.
StopEndEarly ==
  /\ stop \in {"waiting", "engines"} /\ removing = {} /\ mu \in {"free", "stop"}
  /\ cache' = [c \in Clusters |-> "none"]
  /\ running' = FALSE
  /\ mu' = "free"
  /\ stop' = "stopped"
  /\ UNCHANGED <<queryVars, mock, cancelled, clients, engines, undeleted,
                 checkVars, loop, removing>>

StopEnd ==
  /\ stop = "engines" /\ removing = {}
  /\ cache' = [c \in Clusters |-> "none"]
  /\ running' = FALSE
  /\ mu' = "free"
  /\ stop' = "stopped"
  /\ UNCHANGED <<queryVars, mock, cancelled, clients, engines, undeleted,
                 checkVars, loop, removing>>

-----------------------------------------------------------------------------
PollerStep(c) ==
  /\ Poller(c)
  /\ UNCHANGED <<stateVars, checkVars, mu, loop, removing>>

CheckStep(c) == Check(c) \/ CacheStatus(c) \/ PublishStatus(c)

RemovalStep ==
  \/ \E c \in Clusters : StopOne(c) \/ Remove(c)
  \/ \E l \in {"discovery", "prune"} : Unlock(l)

HealthStep == LoopTick("health") \/ BeginChecks \/ EndChecks \/ LoopEnd("health")

PruneStep == LoopTick("prune") \/ Prune \/ LoopEnd("prune")

DiscoveryStep == Rediscover \/ LoopEnd("discovery")

StopStep == StopLock \/ StopEnd \/ \E c \in Clusters : StopJoin(c)

ManagerNext ==
  \/ Start
  \/ DiscoveryStep
  \/ RemovalStep
  \/ HealthStep
  \/ PruneStep
  \/ StopBegin
  \/ StopStep
  \/ \E c \in Clusters : PollerStep(c) \/ CheckStep(c)

ManagerSpec == ManagerInit /\ [][ManagerNext]_managerVars

\* Every goroutine goes on as long as it can, and tickers fire.  The random
\* choice of a select does not pass over a done context for ever.  Nothing
\* is promised of Start, of Stop, or of a lock that others keep taking.
ManagerFairness ==
  /\ \A c \in Clusters : /\ WF_managerVars(PollerStep(c))
                         /\ SF_managerVars(PollEnd(c) /\ PollerStep(c))
                         /\ WF_managerVars(CheckStep(c))
  /\ SF_managerVars(LoopEnd("discovery"))
  /\ WF_managerVars(RemovalStep)
  /\ WF_managerVars(HealthStep)
  /\ WF_managerVars(PruneStep)
  /\ WF_managerVars(StopStep)

ManagerFairSpec == ManagerSpec /\ ManagerFairness

-----------------------------------------------------------------------------
(* Properties.                                                             *)

ManagerTypeOK ==
  /\ QueryTypeOK
  /\ mock \in BOOLEAN
  /\ mu \in {"free", "discovery", "prune", "stop"}
  /\ running \in BOOLEAN
  /\ cancelled \in BOOLEAN
  /\ clients \subseteq Clusters
  /\ engines \subseteq Clusters
  /\ cache \in [Clusters -> {"none", "up", "down"}]
  /\ loop \in [Loops -> {"off", "idle", "ticked", "busy", "done"}]
  /\ check \in [Clusters -> {"none", "checking", "checked", "cached"}]
  /\ found \in [Clusters -> {"none", "up", "down"}]
  /\ removing \subseteq Clusters
  /\ undeleted \subseteq Clusters
  /\ stop \in {"no", "waiting", "engines", "stopped"}

\* Every managed cluster has an engine, none of them in mock mode, and no
\* cluster without one is polled, although clusters come and go while rounds
\* of queries are under way.
EnginesMatchClients ==
  /\ mu = "free" => engines = IF mock THEN {} ELSE clients
  /\ \A c \in Clusters : poll[c] # "off" => c \in engines

\* Removing a cluster is final: no query that was under way brings its data
\* back to the store, where the pages and the snapshots would show it.
NoGhostData ==
  \A c \in Clusters : data[c] => c \in clients \/ c \in undeleted

\* A cluster last seen available is not pruned, whatever its status did
\* between the tick and the removal.
AvailableNotPruned ==
  [][\A c \in clients \ clients' : mu = "prune" => cache[c] = "down"]_managerVars

\* Once Stop has returned, nothing writes to the store or to the cache: the
\* server closes the store next.
QuietAfterStop ==
  [][stop = "stopped" => UNCHANGED <<storeVars, cache, clients>>]_managerVars

\* Whatever a poll goroutine is doing when its engine is stopped (a query, a
\* retry delay, a store call), it ends and QueryEngine.Stop returns.
EngineStops == \A c \in Clusters : ended[c] ~> poll[c] = "off"

\* Stop returns, whichever of the goroutines hold or want the lock.
StopReturns == stop = "waiting" ~> stop = "stopped"
=============================================================================
