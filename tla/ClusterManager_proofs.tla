------------------------ MODULE ClusterManager_proofs ------------------------
(***************************************************************************)
(* The safety properties of ClusterManager, for every set of clusters and  *)
(* every number of retries.  Its invariant Inv says, beyond the properties *)
(* themselves: who holds mu is busy; who has removals to do under mu for   *)
(* pruning has chosen unavailable clusters; a round of health checks is    *)
(* over when its loop is not busy; a manager never started has no loops;   *)
(* and Stop has waited for the loops before it takes mu, and for every     *)
(* engine it has crossed off.                                              *)
(***************************************************************************)
EXTENDS ClusterManagerClock, TLAPS

Retryable == \A c \in Clusters : poll[c] = "delay" => tries[c] < MaxTries

TypeInv == ManagerTypeOK /\ Retryable

PolledHasEngine == \A c \in Clusters : poll[c] # "off" => c \in engines

Engined == engines = IF mock THEN {} ELSE clients

EngineInv == Engined /\ PolledHasEngine

HolderBusy == \A l \in {"discovery", "prune"} : mu = l => loop[l] = "busy"
PruneChosen == mu = "prune" => removing \subseteq Unavailable
ChecksOver == loop["health"] # "busy" => \A c \in Clusters : check[c] = "none"
NotStarted == ~ running /\ stop = "no" => \A l \in Loops : loop[l] = "off"
LoopsDone == stop \in {"engines", "stopped"} => \A l \in Loops : loop[l] = "done"

LoopInv ==
  HolderBusy /\ PruneChosen /\ ChecksOver /\ NotStarted /\ LoopsDone

Joined == stop = "engines" => \A c \in engines \ removing : poll[c] = "off"
AllStopped == stop = "stopped" => \A c \in Clusters : poll[c] = "off"

StopInv == Joined /\ AllStopped

Inv == TypeInv /\ EngineInv /\ NoGhostData /\ LoopInv /\ StopInv

-----------------------------------------------------------------------------
(* The steps of the manager, by what they are about.                       *)

LoopStep ==
  \/ \E l \in {"health", "prune"} : LoopTick(l)
  \/ BeginChecks
  \/ EndChecks
  \/ Prune
  \/ \E l \in Loops : LoopEnd(l)

LEMMA StepCases ==
  ASSUME [ManagerNext]_managerVars
  PROVE  \/ Start
         \/ Rediscover
         \/ \E c \in Clusters : \/ StopOne(c)
                                \/ Remove(c)
                                \/ PollerStep(c)
                                \/ CheckStep(c)
         \/ \E l \in {"discovery", "prune"} : Unlock(l)
         \/ LoopStep
         \/ StopBegin \/ StopStep
         \/ UNCHANGED managerVars
BY DEF ManagerNext, DiscoveryStep, RemovalStep, HealthStep, PruneStep, LoopStep,
  Loops

-----------------------------------------------------------------------------
(* Types.                                                                  *)

\* The goroutine of c and the engines' owner keep QueryTypeOK and Retryable,
\* and so does the seeding of mock clusters.
LEMMA StartTypes ==
  ASSUME NEW cs \in SUBSET Clusters, QueryTypeOK, Retryable, StartEngines(cs),
         UNCHANGED storeVars
  PROVE  QueryTypeOK' /\ Retryable'
<1>. USE DEF StartEngines, QueryTypeOK, storeVars
<1>1. poll' \in [Clusters -> {"off", "waiting", "querying", "delay", "failed",
                              "fetched", "stored"}]
  OBVIOUS
<1>2. tries' \in [Clusters -> 0..MaxTries]
  BY EngineAssumption
<1>3. ended' \in [Clusters -> BOOLEAN]
  OBVIOUS
<1>4. Retryable'
  BY DEF Retryable
<1>. QED
  BY <1>1, <1>2, <1>3, <1>4

LEMMA AddTypes ==
  ASSUME NEW cs \in SUBSET Clusters, TypeInv, Add(cs)
  PROVE  /\ QueryTypeOK' /\ Retryable'
         /\ clients' \subseteq Clusters /\ engines' \subseteq Clusters
         /\ cache' \in [Clusters -> {"none", "up", "down"}]
<1>. USE DEF TypeInv, ManagerTypeOK
<1>1. CASE Seed(cs) /\ UNCHANGED <<engines, engineVars>>
  <2>1. /\ data' \in [Clusters -> BOOLEAN]
        /\ status' \in [Clusters -> {"none", "up", "down"}]
        /\ cache' \in [Clusters -> {"none", "up", "down"}]
    BY <1>1 DEF Seed, QueryTypeOK
  <2>. QED
    BY <1>1, <2>1 DEF Add, engineVars, QueryTypeOK, Retryable
<1>2. CASE /\ engines' = engines \cup cs
           /\ StartEngines(cs)
           /\ UNCHANGED <<storeVars, cache>>
  BY <1>2, StartTypes DEF Add
<1>. QED
  BY <1>1, <1>2 DEF Add

LEMMA PollerTypes ==
  ASSUME NEW c \in Clusters, QueryTypeOK, Retryable, Poller(c)
  PROVE  QueryTypeOK' /\ Retryable'
<1>. USE EngineAssumption DEF QueryTypeOK, Retryable, At, storeVars
<1>1. CASE PollTick(c)
  BY <1>1 DEF PollTick
<1>2. CASE PollEnd(c)
  BY <1>2 DEF PollEnd
<1>3. CASE QuerySucceeds(c)
  BY <1>3 DEF QuerySucceeds
<1>4. CASE QueryFails(c)
  BY <1>4 DEF QueryFails
<1>5. CASE Retry(c)
  BY <1>5 DEF Retry
<1>6. CASE RetryCancelled(c)
  BY <1>6 DEF RetryCancelled
<1>7. CASE StoreData(c)
  BY <1>7 DEF StoreData
<1>8. CASE RoundSucceeds(c)
  BY <1>8 DEF RoundSucceeds, StoreStatus
<1>9. CASE RoundFails(c)
  BY <1>9 DEF RoundFails, StoreStatus
<1>. QED
  BY <1>1, <1>2, <1>3, <1>4, <1>5, <1>6, <1>7, <1>8, <1>9 DEF Poller

LEMMA TypeInit == ManagerInit => TypeInv
<1>. SUFFICES ASSUME ManagerInit
              PROVE  TypeInv
  OBVIOUS
<1>1. QueryTypeOK /\ Retryable
  BY EngineAssumption DEF ManagerInit, QueryInit, QueryTypeOK, Retryable
<1>. QED
  BY <1>1 DEF ManagerInit, TypeInv, ManagerTypeOK, Loops

LEMMA TypeStep ==
  ASSUME TypeInv, [ManagerNext]_managerVars
  PROVE  TypeInv'
<1>. USE DEF TypeInv, ManagerTypeOK, stateVars, checkVars
<1>1. CASE Start
  <2>1. PICK cs \in SUBSET Clusters : Add(cs)
    BY <1>1 DEF Start, Discovered
  <2>2. QueryTypeOK' /\ Retryable' /\ clients' \subseteq Clusters
        /\ engines' \subseteq Clusters /\ cache' \in [Clusters -> {"none", "up", "down"}]
    BY <2>1, AddTypes
  <2>. QED
    BY <1>1, <2>2 DEF Start
<1>2. CASE Rediscover
  <2>1. PICK cs \in SUBSET Clusters :
          Add(cs \ clients) /\ removing' = clients \ cs
    BY <1>2 DEF Rediscover, Discovered
  <2>2. QueryTypeOK' /\ Retryable' /\ clients' \subseteq Clusters
        /\ engines' \subseteq Clusters /\ cache' \in [Clusters -> {"none", "up", "down"}]
    BY <2>1, AddTypes
  <2>. QED
    BY <1>2, <2>1, <2>2 DEF Rediscover, Enter
<1>3. ASSUME NEW c \in Clusters, StopOne(c)
      PROVE  TypeInv'
  BY <1>3 DEF StopOne, CancelEngine, QueryTypeOK, Retryable, storeVars
<1>4. ASSUME NEW c \in Clusters, Remove(c)
      PROVE  TypeInv'
  <2>1. QueryTypeOK' /\ Retryable'
    BY <1>4 DEF Remove, QueryTypeOK, Retryable, storeVars
  <2>. QED
    BY <1>4, <2>1 DEF Remove
<1>5. ASSUME NEW l \in {"discovery", "prune"}, Unlock(l)
      PROVE  TypeInv'
  BY <1>5 DEF Unlock, Enter, QueryTypeOK, Retryable, queryVars, engineVars,
    storeVars
<1>6. ASSUME NEW c \in Clusters, PollerStep(c)
      PROVE  TypeInv'
  BY <1>6, PollerTypes DEF PollerStep
<1>7. ASSUME NEW c \in Clusters, CheckStep(c)
      PROVE  TypeInv'
  <2>. USE DEF QueryTypeOK, Retryable, queryVars, engineVars, storeVars
  <2>1. CASE Check(c)
    BY <2>1 DEF Check, Findings
  <2>2. CASE CacheStatus(c)
    BY <2>2 DEF CacheStatus
  <2>3. CASE PublishStatus(c)
    BY <2>3 DEF PublishStatus, StoreStatus
  <2>. QED
    BY <1>7, <2>1, <2>2, <2>3 DEF CheckStep
<1>8. CASE LoopStep
  <2>. USE DEF QueryTypeOK, Retryable, queryVars, engineVars, storeVars, Enter,
    Loops
  <2>1. CASE \E l \in {"health", "prune"} : LoopTick(l)
    BY <2>1 DEF LoopTick
  <2>2. CASE BeginChecks
    BY <2>2 DEF BeginChecks
  <2>3. CASE EndChecks
    BY <2>3 DEF EndChecks
  <2>4. CASE \E l \in Loops : LoopEnd(l)
    BY <2>4 DEF LoopEnd
  <2>5. CASE Prune
    BY <2>5 DEF Prune, Unavailable
  <2>. QED
    BY <1>8, <2>1, <2>2, <2>3, <2>4, <2>5 DEF LoopStep
<1>9. CASE StopBegin \/ StopStep
  <2>. USE DEF QueryTypeOK, Retryable, queryVars, engineVars, storeVars
  <2>1. CASE StopBegin
    BY <2>1 DEF StopBegin
  <2>2. CASE StopLock
    BY <2>2 DEF StopLock
  <2>3. CASE StopEnd
    BY <2>3 DEF StopEnd
  <2>4. CASE \E c \in Clusters : StopJoin(c)
    BY <2>4 DEF StopJoin
  <2>. QED
    BY <1>9, <2>1, <2>2, <2>3, <2>4 DEF StopStep
<1>10. CASE UNCHANGED managerVars
  BY <1>10 DEF managerVars, QueryTypeOK, Retryable, queryVars, engineVars,
    storeVars
<1>. QED
  BY <1>1, <1>2, <1>3, <1>4, <1>5, <1>6, <1>7, <1>8, <1>9, <1>10, StepCases

\* Every variable of the manager and of its engines stays in its type: no
\* round makes more than MaxTries queries, for any MaxTries.
THEOREM ManagerTypeCorrect == ManagerSpec => []ManagerTypeOK
<1>1. ManagerSpec => []TypeInv
  BY TypeInit, TypeStep, PTL DEF ManagerSpec
<1>2. TypeInv => ManagerTypeOK
  BY DEF TypeInv
<1>. QED
  BY <1>1, <1>2, PTL

-----------------------------------------------------------------------------
(* Clients, engines and data.                                              *)

\* Steps that start, stop or remove no engine leave these alone.
LEMMA Elsewhere ==
  \/ \E c \in Clusters : StopOne(c) \/ CheckStep(c)
  \/ \E l \in {"discovery", "prune"} : Unlock(l)
  \/ LoopStep
  \/ StopBegin \/ StopStep
  \/ UNCHANGED managerVars
  => UNCHANGED <<mock, poll, clients, engines, data, undeleted>>
BY DEF StopOne, CancelEngine, CheckStep, Check, CacheStatus, PublishStatus,
  Unlock, LoopStep, LoopTick, BeginChecks, EndChecks, Prune, LoopEnd,
  StopBegin, StopStep, StopLock, StopEnd, StopJoin, managerVars, queryVars,
  engineVars, storeVars, stateVars

\* A goroutine that is off stays off, and only one that has fetched stores.
LEMMA PollerMoves ==
  ASSUME NEW c \in Clusters, QueryTypeOK, Poller(c)
  PROVE  /\ poll[c] # "off"
         /\ \A d \in Clusters \ {c} : poll'[d] = poll[d] /\ data'[d] = data[d]
BY DEF QueryTypeOK, Poller, At, PollTick, PollEnd, QuerySucceeds, QueryFails,
  Retry, RetryCancelled, StoreData, RoundSucceeds, RoundFails, storeVars

LEMMA EngineStep ==
  ASSUME TypeInv, EngineInv, [ManagerNext]_managerVars
  PROVE  EngineInv'
<1>. USE DEF EngineInv, Engined, PolledHasEngine
<1>1. CASE Start
  BY <1>1 DEF Start, Add, StartEngines, engineVars
<1>2. CASE Rediscover
  BY <1>2 DEF Rediscover, Add, StartEngines, engineVars
<1>3. ASSUME NEW c \in Clusters, Remove(c)
      PROVE  EngineInv'
  BY <1>3 DEF Remove, Stopped
<1>4. ASSUME NEW c \in Clusters, PollerStep(c)
      PROVE  EngineInv'
  BY <1>4, PollerMoves DEF PollerStep, stateVars, TypeInv, ManagerTypeOK
<1>5. CASE UNCHANGED <<mock, poll, clients, engines, data, undeleted>>
  BY <1>5
<1>. QED
  BY <1>1, <1>2, <1>3, <1>4, <1>5, Elsewhere, StepCases

\* Mock data are those of clusters that are managed from then on.
LEMMA AddData ==
  ASSUME NEW cs \in SUBSET Clusters, NoGhostData, Add(cs), UNCHANGED undeleted
  PROVE  NoGhostData'
<1>1. CASE Seed(cs)
  <2>1. PICK kept \in SUBSET cs : data' = [c \in Clusters |-> data[c] \/ c \in kept]
    BY <1>1 DEF Seed
  <2>2. \A c \in Clusters : data'[c] => data[c] \/ c \in cs
    BY <2>1
  <2>. QED
    BY <2>2 DEF Add, NoGhostData
<1>2. CASE UNCHANGED storeVars
  BY <1>2 DEF Add, NoGhostData, storeVars
<1>. QED
  BY <1>1, <1>2 DEF Add

LEMMA DataStep ==
  ASSUME TypeInv, EngineInv, NoGhostData, [ManagerNext]_managerVars
  PROVE  NoGhostData'
<1>. USE DEF NoGhostData
<1>1. CASE Start
  BY <1>1, AddData DEF Start, Discovered
<1>2. CASE Rediscover
  <2>1. PICK cs \in SUBSET Clusters : Add(cs \ clients)
    BY <1>2 DEF Rediscover, Discovered
  <2>. QED
    BY <1>2, <2>1, AddData DEF Rediscover
<1>3. ASSUME NEW c \in Clusters, Remove(c)
      PROVE  NoGhostData'
  BY <1>3 DEF Remove, storeVars, TypeInv, ManagerTypeOK, QueryTypeOK
<1>4. ASSUME NEW c \in Clusters, PollerStep(c)
      PROVE  NoGhostData'
  <2>1. UNCHANGED <<clients, undeleted>> /\ c \in clients
    BY <1>4, PollerMoves DEF PollerStep, stateVars, TypeInv, ManagerTypeOK,
      EngineInv, Engined, PolledHasEngine
  <2>2. \A d \in Clusters \ {c} : data'[d] = data[d]
    BY <1>4, PollerMoves DEF PollerStep, TypeInv, ManagerTypeOK
  <2>3. ASSUME NEW d \in Clusters, data'[d]
        PROVE  d \in clients' \/ d \in undeleted'
    <3>1. CASE d = c
      BY <2>1, <3>1
    <3>2. CASE d # c
      <4>1. data[d]
        BY <2>2, <2>3, <3>2
      <4>. QED
        BY <2>1, <4>1
    <3>. QED
      BY <3>1, <3>2
  <2>. QED
    BY <2>3
<1>5. CASE UNCHANGED <<mock, poll, clients, engines, data, undeleted>>
  BY <1>5
<1>. QED
  BY <1>1, <1>2, <1>3, <1>4, <1>5, Elsewhere, StepCases

-----------------------------------------------------------------------------
(* The loops, the lock and Stop.                                           *)

LEMMA LoopInvStep ==
  ASSUME TypeInv, LoopInv, [ManagerNext]_managerVars
  PROVE  LoopInv'
<1>. USE DEF LoopInv, HolderBusy, PruneChosen, ChecksOver, NotStarted,
  LoopsDone, Loops, Unavailable, TypeInv, ManagerTypeOK, stateVars, checkVars,
  Enter
<1>1. CASE Start
  BY <1>1 DEF Start
<1>2. CASE Rediscover
  BY <1>2 DEF Rediscover
<1>3. ASSUME NEW c \in Clusters, StopOne(c)
      PROVE  LoopInv'
  BY <1>3 DEF StopOne
<1>4. ASSUME NEW c \in Clusters, Remove(c)
      PROVE  LoopInv'
  BY <1>4 DEF Remove
<1>5. ASSUME NEW l \in {"discovery", "prune"}, Unlock(l)
      PROVE  LoopInv'
  BY <1>5 DEF Unlock
<1>6. ASSUME NEW c \in Clusters, PollerStep(c)
      PROVE  LoopInv'
  BY <1>6 DEF PollerStep
<1>7. ASSUME NEW c \in Clusters, CheckStep(c)
      PROVE  LoopInv'
  <2>1. CASE Check(c)
    BY <2>1 DEF Check
  <2>2. CASE CacheStatus(c)
    BY <2>2 DEF CacheStatus
  <2>3. CASE PublishStatus(c)
    BY <2>3 DEF PublishStatus
  <2>. QED
    BY <1>7, <2>1, <2>2, <2>3 DEF CheckStep
<1>8. CASE LoopStep
  <2>1. ASSUME NEW l \in {"health", "prune"}, LoopTick(l)
        PROVE  LoopInv'
    BY <2>1 DEF LoopTick
  <2>2. CASE BeginChecks
    BY <2>2 DEF BeginChecks
  <2>3. CASE EndChecks
    BY <2>3 DEF EndChecks
  <2>4. ASSUME NEW l \in Loops, LoopEnd(l)
        PROVE  LoopInv'
    BY <2>4 DEF LoopEnd
  <2>5. CASE Prune
    BY <2>5 DEF Prune
  <2>. QED
    BY <1>8, <2>1, <2>2, <2>3, <2>4, <2>5 DEF LoopStep
<1>9. CASE StopBegin \/ StopStep
  <2>1. CASE StopBegin
    BY <2>1 DEF StopBegin
  <2>2. CASE StopLock
    BY <2>2 DEF StopLock
  <2>3. CASE StopEnd
    BY <2>3 DEF StopEnd
  <2>4. CASE \E c \in Clusters : StopJoin(c)
    BY <2>4 DEF StopJoin
  <2>. QED
    BY <1>9, <2>1, <2>2, <2>3, <2>4 DEF StopStep
<1>10. CASE UNCHANGED managerVars
  BY <1>10 DEF managerVars
<1>. QED
  BY <1>1, <1>2, <1>3, <1>4, <1>5, <1>6, <1>7, <1>8, <1>9, <1>10, StepCases

\* Once Stop holds mu, nobody starts or removes an engine.
LEMMA StopInvStep ==
  ASSUME TypeInv, EngineInv, LoopInv, StopInv, [ManagerNext]_managerVars
  PROVE  StopInv'
<1>. USE DEF StopInv, Joined, AllStopped
<1>1. CASE Start
  BY <1>1 DEF Start, stateVars
<1>2. CASE Rediscover
  BY <1>2 DEF Rediscover, LoopInv, LoopsDone, Loops, Enter
<1>3. ASSUME NEW c \in Clusters, Remove(c)
      PROVE  StopInv'
  BY <1>3 DEF Remove, LoopInv, HolderBusy, LoopsDone, Loops
<1>4. ASSUME NEW c \in Clusters, PollerStep(c)
      PROVE  StopInv'
  BY <1>4, PollerMoves DEF PollerStep, stateVars, TypeInv, ManagerTypeOK
<1>5. CASE StopBegin \/ StopStep
  <2>1. CASE StopBegin
    BY <2>1 DEF StopBegin
  <2>2. CASE StopLock
    BY <2>2 DEF StopLock, queryVars, engineVars
  <2>3. CASE StopEnd
    BY <2>3 DEF StopEnd, queryVars, engineVars, EngineInv, PolledHasEngine
  <2>4. CASE \E c \in Clusters : StopJoin(c)
    BY <2>4 DEF StopJoin, queryVars, engineVars, stateVars, Stopped
  <2>. QED
    BY <1>5, <2>1, <2>2, <2>3, <2>4 DEF StopStep
<1>6. ASSUME \/ \E c \in Clusters : StopOne(c) \/ CheckStep(c)
             \/ \E l \in {"discovery", "prune"} : Unlock(l)
             \/ LoopStep
             \/ UNCHANGED managerVars
      PROVE  StopInv'
  <2>1. UNCHANGED <<poll, engines, stop>>
    BY <1>6 DEF StopOne, CancelEngine, CheckStep, Check, CacheStatus,
      PublishStatus, Unlock, LoopStep, LoopTick, BeginChecks, EndChecks, Prune,
      LoopEnd, managerVars, queryVars, engineVars, stateVars
  <2>2. stop = "engines" => UNCHANGED removing
    BY <1>6 DEF StopOne, CheckStep, Check, CacheStatus, PublishStatus, Unlock,
      LoopStep, LoopTick, BeginChecks, EndChecks, Prune, LoopEnd, managerVars,
      LoopInv, LoopsDone, Loops, Enter
  <2>. QED
    BY <2>1, <2>2
<1>. QED
  BY <1>1, <1>2, <1>3, <1>4, <1>5, <1>6, StepCases

-----------------------------------------------------------------------------
(* The invariant, and the properties.                                      *)

LEMMA InvInit == ManagerInit => Inv
<1>. SUFFICES ASSUME ManagerInit
              PROVE  Inv
  OBVIOUS
<1>1. TypeInv
  BY TypeInit
<1>2. EngineInv /\ NoGhostData
  BY DEF ManagerInit, QueryInit, EngineInv, Engined, PolledHasEngine, NoGhostData
<1>3. LoopInv /\ StopInv
  BY DEF ManagerInit, LoopInv, HolderBusy, PruneChosen, ChecksOver, NotStarted,
    LoopsDone, Loops, StopInv, Joined, AllStopped
<1>. QED
  BY <1>1, <1>2, <1>3 DEF Inv

LEMMA InvStep == Inv /\ [ManagerNext]_managerVars => Inv'
BY TypeStep, EngineStep, DataStep, LoopInvStep, StopInvStep DEF Inv

THEOREM Invariance == ManagerSpec => []Inv
BY InvInit, InvStep, PTL DEF ManagerSpec

\* Between two critical sections of mu the clusters with an engine are the
\* managed ones, or in mock mode none, and at no time is a cluster without an
\* engine polled.
THEOREM Engines == ManagerSpec => []EnginesMatchClients
<1>1. Inv => EnginesMatchClients
  BY DEF Inv, EngineInv, Engined, PolledHasEngine, EnginesMatchClients
<1>. QED
  BY <1>1, Invariance, PTL

\* No query that was under way when its cluster was removed brings its data
\* back.
THEOREM NoGhosts == ManagerSpec => []NoGhostData
<1>1. Inv => NoGhostData
  BY DEF Inv
<1>. QED
  BY <1>1, Invariance, PTL

\* Pruning removes no cluster that was last seen available.
THEOREM PrunesUnavailable == ManagerSpec => AvailableNotPruned
<1>1. ASSUME Inv, [ManagerNext]_managerVars
      PROVE  \A c \in clients \ clients' : mu = "prune" => cache[c] = "down"
  <2>1. ASSUME NEW c \in Clusters, Remove(c)
        PROVE  clients \ clients' \subseteq removing
    BY <2>1 DEF Remove
  <2>2. ASSUME ~ \E c \in Clusters : Remove(c)
        PROVE  clients \subseteq clients'
    BY <1>1, <2>2, StepCases, Elsewhere DEF Start, Rediscover, Add, PollerStep,
      stateVars
  <2>3. mu = "prune" => \A c \in removing : cache[c] = "down"
    BY <1>1 DEF Inv, LoopInv, PruneChosen, Unavailable
  <2>. QED
    BY <2>1, <2>2, <2>3
<1>. QED
  BY <1>1, Invariance, PTL DEF ManagerSpec, AvailableNotPruned

\* When Stop has returned, the store, the cache and the clients are left
\* alone: no goroutine of the manager or of an engine is left to write.
THEOREM QuietStop == ManagerSpec => QuietAfterStop
<1>1. ASSUME Inv, [ManagerNext]_managerVars, stop = "stopped"
      PROVE  UNCHANGED <<storeVars, cache, clients>>
  <2>1. /\ \A l \in Loops : loop[l] = "done"
        /\ \A c \in Clusters : poll[c] = "off" /\ check[c] = "none"
        /\ mu \notin {"discovery", "prune"}
    BY <1>1 DEF Inv, LoopInv, LoopsDone, ChecksOver, HolderBusy, StopInv,
      AllStopped, Loops
  <2>2. ~ Start /\ ~ Rediscover
    BY <1>1, <2>1 DEF Start, Rediscover, Enter, Loops
  <2>3. \A c \in Clusters : ~ Remove(c) /\ ~ PollerStep(c) /\ ~ CheckStep(c)
    BY <1>1, <2>1, PollerMoves DEF Inv, TypeInv, ManagerTypeOK, Remove,
      PollerStep, CheckStep, Check, CacheStatus, PublishStatus
  <2>4. ~ StopBegin /\ ~ StopStep
    BY <1>1 DEF StopBegin, StopStep, StopLock, StopEnd, StopJoin
  <2>. QED
    BY <1>1, <2>2, <2>3, <2>4, StepCases DEF StopOne, Unlock, LoopStep,
      LoopTick, BeginChecks, EndChecks, Prune, LoopEnd, managerVars, queryVars,
      stateVars
<1>. QED
  BY <1>1, Invariance, PTL DEF ManagerSpec, QuietAfterStop

-----------------------------------------------------------------------------
(***************************************************************************)
(* The clock takes nothing away from the manager: ClusterManagerClock      *)
(* implements ClusterManager, so that the theorems about the manager hold  *)
(* with a clock.  And for any period, any threshold of at least two of     *)
(* them and any set of clusters, pruning removes stale clusters only: as   *)
(* long as the checks go on, the status of a managed cluster is no older   *)
(* than two periods, or than the management of the cluster.                *)
(***************************************************************************)
Ages ==
  /\ due \in 0..CheckPeriod
  /\ age \in [Clusters -> 0..MaxAge]
  /\ since \in [Clusters -> 0..MaxAge]

Unmanaged == \A c \in Clusters \ clients : since[c] = 0

\* A status is from before c was managed, from the present round of checks, from
\* the one before it while c has its check ahead, or checks have been cancelled.
Dated(c) ==
  \/ age[c] >= since[c]
  \/ age[c] <= due
  \/ age[c] <= CheckPeriod + due /\ check[c] \in {"checking", "checked"}
  \/ age[c] <= 2 * CheckPeriod /\ cancelled

PrunesOld == mu = "prune" => \A c \in removing : age[c] > Threshold

ClockInv == Inv /\ Ages /\ Unmanaged /\ (\A c \in Clusters : Dated(c)) /\ PrunesOld

-----------------------------------------------------------------------------
(* What a step of the manager does to checks and removals.                 *)

LEMMA HealthBegins ==
  ASSUME Inv, [ManagerNext]_managerVars, Begins("health")
  PROVE  BeginChecks
<1>1. loop["health"] = "ticked" /\ loop'["health"] = "busy" /\ "health" \in Loops
      /\ loop \in [Loops -> {"off", "idle", "ticked", "busy", "done"}]
  BY DEF Begins, Loops, Inv, TypeInv, ManagerTypeOK
<1>2. ~Start
  BY <1>1 DEF Start
<1>3. ASSUME NEW l \in Loops, NEW from, NEW to, Enter(l, from, to)
      PROVE  l = "health" /\ from = "ticked" /\ to = "busy"
  BY <1>1, <1>3 DEF Enter
<1>4. ~(Rediscover \/ Prune \/ EndChecks)
  BY <1>3 DEF Rediscover, Prune, EndChecks, Loops
<1>5. ~\E l \in {"discovery", "prune"} : Unlock(l)
  BY <1>3 DEF Unlock, Loops
<1>6. ~(\E l \in {"health", "prune"} : LoopTick(l)) /\ ~(\E l \in Loops : LoopEnd(l))
  BY <1>3 DEF LoopTick, LoopEnd, Loops
<1>7. loop' # loop
  BY <1>1
<1>8. \/ \E c \in Clusters : StopOne(c) \/ Remove(c) \/ PollerStep(c) \/ CheckStep(c)
      \/ StopBegin \/ StopStep \/ UNCHANGED managerVars
      => loop' = loop
  BY DEF StopOne, Remove, PollerStep, CheckStep, Check, CacheStatus, PublishStatus, StopBegin,
         StopStep, StopLock, StopEnd, StopJoin, managerVars
<1> QED BY <1>2, <1>4, <1>5, <1>6, <1>7, <1>8, StepCases DEF LoopStep

LEMMA CheckMoves ==
  ASSUME Inv, [ManagerNext]_managerVars, ~BeginChecks, NEW c \in Clusters,
         check[c] \in {"checking", "checked"}
  PROVE  check'[c] \in {"checking", "checked"} \/ Checked(c) \/ cancelled
<1> USE DEF Inv, TypeInv, ManagerTypeOK
<1>1. CASE check' = check
  BY <1>1
<1>2. CASE EndChecks
  BY <1>2 DEF EndChecks
<1>3. CASE \E d \in Clusters : CheckStep(d)
  <2>1. PICK d \in Clusters : CheckStep(d)
    BY <1>3
  <2>2. CASE Check(d)
    BY <2>2 DEF Check
  <2>3. CASE CacheStatus(d)
    <3>1. CASE d = c
      BY <2>3, <3>1 DEF CacheStatus, Checked
    <3>2. CASE d # c
      BY <2>3, <3>2 DEF CacheStatus
    <3> QED BY <3>1, <3>2
  <2>4. CASE PublishStatus(d)
    BY <2>4 DEF PublishStatus
  <2> QED BY <2>1, <2>2, <2>3, <2>4 DEF CheckStep
<1>4. CASE \/ Start \/ Rediscover \/ Prune \/ StopBegin \/ StopStep \/ UNCHANGED managerVars
           \/ \E d \in Clusters : StopOne(d) \/ Remove(d) \/ PollerStep(d)
           \/ \E l \in {"discovery", "prune"} : Unlock(l)
           \/ \E l \in {"health", "prune"} : LoopTick(l)
           \/ \E l \in Loops : LoopEnd(l)
  BY <1>1, <1>4 DEF Start, Rediscover, Prune, StopBegin, StopStep, StopLock, StopEnd, StopJoin,
     StopOne, Remove, PollerStep, Unlock, LoopTick, LoopEnd, managerVars, checkVars
<1> QED BY <1>2, <1>3, <1>4, StepCases DEF LoopStep

LEMMA StaysCancelled ==
  ASSUME [ManagerNext]_managerVars, cancelled
  PROVE  cancelled'
BY StepCases
   DEF Start, Rediscover, StopOne, Remove, PollerStep,
       CheckStep, Check, CacheStatus, PublishStatus, Unlock, LoopStep, LoopTick, BeginChecks,
       EndChecks, Prune, LoopEnd, StopBegin, StopStep, StopLock, StopEnd, StopJoin,
       managerVars, stateVars

\* While pruning removes clusters, no status that it has to remove changes.
LEMMA PruningMoves ==
  ASSUME Inv, [ManagerNext]_managerVars, mu' = "prune"
  PROVE  \/ Prune
         \/ /\ mu = "prune" /\ removing' \subseteq removing
            /\ \A c \in removing' : cache'[c] = cache[c] /\ ~Checked(c)
<1>1. \A c \in removing : c \in Clusters
  BY DEF Inv, TypeInv, ManagerTypeOK
<1>2. \/ ~Start /\ ~Rediscover /\ ~BeginChecks /\ ~(\E c \in Clusters : CacheStatus(c))
      \/ mu = "free"
  BY DEF Start, Rediscover, BeginChecks, CacheStatus
<1>3. CASE \E c \in Clusters : Remove(c)
  <2>1. PICK c \in Clusters : Remove(c)
    BY <1>3
  <2>2. mu = "prune" /\ removing' = removing \ {c} /\ UNCHANGED check
    BY <2>1 DEF Remove, checkVars
  <2>3. \A d \in removing' : cache'[d] = cache[d]
    BY <1>1, <2>1, <2>2 DEF Remove, Inv, TypeInv, ManagerTypeOK
  <2> QED BY <2>2, <2>3 DEF Checked
<1>4. ASSUME NEW c \in Clusters, Check(c) \/ PublishStatus(c)
      PROVE  /\ UNCHANGED <<mu, removing, cache>>
             /\ \A d \in Clusters : ~Checked(d)
  BY <1>4 DEF Check, PublishStatus, Checked, stateVars, Inv, TypeInv, ManagerTypeOK
<1>5. CASE \/ \E c \in Clusters : StopOne(c) \/ PollerStep(c)
           \/ EndChecks \/ \E l \in {"health", "prune"} : LoopTick(l)
           \/ \E l \in Loops : LoopEnd(l)
           \/ StopBegin \/ (\E c \in Clusters : StopJoin(c)) \/ UNCHANGED managerVars
  <2>1. UNCHANGED <<mu, cache, check>> /\ removing' \subseteq removing
    BY <1>5 DEF StopOne, PollerStep, EndChecks, LoopTick, LoopEnd, StopBegin, StopJoin,
       managerVars, stateVars, checkVars
  <2> QED BY <2>1 DEF Checked
<1>6. ~(\E l \in {"discovery", "prune"} : Unlock(l)) /\ ~StopLock /\ ~StopEnd /\ ~Rediscover
  BY DEF Unlock, StopLock, StopEnd, Rediscover
<1>7. mu = "free" => ~Start /\ ~BeginChecks /\ ~(\E c \in Clusters : CacheStatus(c))
  BY DEF Start, BeginChecks, CacheStatus
<1> QED BY <1>1, <1>2, <1>3, <1>4, <1>5, <1>6, <1>7, StepCases DEF LoopStep, StopStep, CheckStep

LEMMA PruningAddsNone ==
  ASSUME [ManagerNext]_managerVars, mu' = "prune"
  PROVE  clients' \subseteq clients
<1>1. ~Start /\ ~Rediscover
  BY DEF Start, Rediscover
<1>2. ASSUME NEW c \in Clusters, Remove(c) \/ PollerStep(c)
      PROVE  clients' \subseteq clients
  BY <1>2 DEF Remove, PollerStep, stateVars
<1> QED BY <1>1, <1>2, StepCases, Elsewhere

-----------------------------------------------------------------------------
(* The invariant.                                                          *)

LEMMA ClockInvInit == ClockInit => ClockInv
<1> SUFFICES ASSUME ClockInit
             PROVE  ClockInv
  OBVIOUS
<1>1. Inv
  BY InvInit DEF ClockInit
<1>2. Ages /\ Unmanaged /\ \A c \in Clusters : Dated(c)
  BY ClockAssumption DEF ClockInit, Ages, Unmanaged, Dated, MaxAge
<1>3. PrunesOld
  BY DEF ClockInit, ManagerInit, PrunesOld
<1> QED BY <1>1, <1>2, <1>3 DEF ClockInv

LEMMA TickKeeps ==
  ASSUME ClockInv, Tick
  PROVE  ClockInv'
<1> USE ClockAssumption DEF MaxAge
<1>1. Inv'
  BY InvStep DEF ClockInv, Tick
<1>2. UNCHANGED <<clients, check, cancelled, mu, removing, cache>> /\ ~cancelled
  BY DEF Tick, managerVars, stateVars, checkVars
<1>3. due' = due + 1 /\ due' \in 0..CheckPeriod /\ due \in Nat
  BY DEF Tick, ClockInv, Ages
<1>4. ASSUME NEW c \in Clusters
      PROVE  /\ age'[c] = IF cache[c] = "none" THEN 0 ELSE Older(age[c])
             /\ since'[c] = IF c \in clients THEN Older(since[c]) ELSE 0
             /\ age[c] \in 0..MaxAge /\ since[c] \in 0..MaxAge
             /\ age'[c] \in 0..MaxAge /\ since'[c] \in 0..MaxAge
  BY DEF Tick, ClockInv, Ages, Older
<1>5. Ages'
  BY <1>3, <1>4 DEF Ages, Tick
<1>6. Unmanaged'
  BY <1>2, <1>4 DEF Unmanaged
<1>7. ASSUME NEW c \in Clusters
      PROVE  Dated(c)'
  <2>1. Dated(c)
    BY DEF ClockInv
  <2> QED BY <1>2, <1>3, <1>4, <2>1 DEF Dated, Older
<1>8. PrunesOld'
  <2> SUFFICES ASSUME mu = "prune", NEW c \in removing
               PROVE  age'[c] > Threshold
    BY <1>2 DEF PrunesOld
  <2>1. c \in Clusters /\ cache[c] = "down" /\ age[c] > Threshold
    BY DEF ClockInv, Inv, LoopInv, PruneChosen, Unavailable, PrunesOld
  <2> QED BY <1>4, <2>1 DEF Older
<1> QED BY <1>1, <1>5, <1>6, <1>7, <1>8 DEF ClockInv

LEMMA TimedKeeps ==
  ASSUME ClockInv, Timed(ManagerNext)
  PROVE  ClockInv'
<1> USE ClockAssumption DEF MaxAge
<1>1. ManagerNext /\ Inv /\ Inv'
  BY InvStep DEF ClockInv, Timed
<1>2. due' \in 0..CheckPeriod /\ due \in 0..CheckPeriod
  BY DEF Timed, ClockInv, Ages
<1>3. ASSUME NEW c \in Clusters
      PROVE  /\ age'[c] = IF cache'[c] = "none" \/ Checked(c) \/ Seeded(c)
                          THEN 0 ELSE age[c]
             /\ since'[c] = IF c \in clients' THEN since[c] ELSE 0
             /\ age[c] \in 0..MaxAge /\ since[c] \in 0..MaxAge
             /\ age'[c] \in 0..MaxAge /\ since'[c] \in 0..MaxAge
  BY DEF Timed, ClockInv, Ages
<1>4. Ages'
  BY <1>2, <1>3 DEF Ages, Timed
<1>5. Unmanaged'
  BY <1>3 DEF Unmanaged
<1>6. ASSUME NEW c \in Clusters
      PROVE  Dated(c)'
  <2>1. CASE age'[c] = 0 \/ since'[c] = 0
    BY <1>2, <1>3, <2>1 DEF Dated
  <2>2. CASE age'[c] # 0 /\ since'[c] # 0
    <3>1. age'[c] = age[c] /\ ~Checked(c) /\ since'[c] = since[c] /\ Dated(c)
      BY <1>3, <2>2 DEF ClockInv
    <3>2. c \in clients
      BY <2>2, <3>1 DEF ClockInv, Unmanaged
    <3>3. CASE BeginChecks
      <4>1. check'[c] = "checking" /\ check[c] = "none" /\ cancelled' = cancelled
        BY <1>1, <3>2, <3>3
           DEF BeginChecks, Enter, Inv, LoopInv, ChecksOver, stateVars
      <4> QED BY <1>2, <1>3, <3>1, <4>1 DEF Dated
    <3>4. CASE ~BeginChecks
      <4>1. due' = due
        BY <1>1, <3>4, HealthBegins DEF Timed
      <4>2. cancelled => cancelled'
        BY <1>1, StaysCancelled
      <4>3. check[c] \in {"checking", "checked"} =>
              check'[c] \in {"checking", "checked"} \/ cancelled
        BY <1>1, <3>1, <3>4, CheckMoves
      <4> QED BY <1>2, <1>3, <3>1, <4>1, <4>2, <4>3 DEF Dated
    <3> QED BY <3>3, <3>4
  <2> QED BY <2>1, <2>2
<1>7. PrunesOld'
  <2> SUFFICES ASSUME mu' = "prune", NEW c \in removing'
               PROVE  age'[c] > Threshold
    BY DEF PrunesOld
  <2>1. c \in Clusters /\ cache'[c] = "down" /\ ~Seeded(c)
    BY <1>1, PruningAddsNone DEF Inv, LoopInv, PruneChosen, Unavailable, Seeded
  <2>2. CASE Prune
    <3>1. Begins("prune") /\ check' = check
      BY <1>1, <2>2 DEF Prune, Enter, Begins, checkVars, Inv, TypeInv, ManagerTypeOK, Loops
    <3>2. age[c] > Threshold /\ ~Checked(c)
      BY <3>1 DEF Timed, TooOld, Checked
    <3> QED BY <1>3, <2>1, <3>2
  <2>3. CASE mu = "prune" /\ c \in removing /\ ~Checked(c)
    <3>1. age[c] > Threshold
      BY <2>3 DEF ClockInv, PrunesOld
    <3> QED BY <1>3, <2>1, <2>3, <3>1
  <2> QED BY <1>1, <2>2, <2>3, PruningMoves
<1> QED BY <1>1, <1>4, <1>5, <1>6, <1>7 DEF ClockInv

LEMMA StutterKeeps ==
  ASSUME ClockInv, UNCHANGED clockVars
  PROVE  ClockInv'
<1>1. UNCHANGED <<managerVars, due, age, since>>
  BY DEF clockVars
<1>2. Inv'
  BY <1>1, InvStep DEF ClockInv
<1>3. UNCHANGED <<clients, check, cancelled, mu, removing>>
  BY <1>1 DEF managerVars, stateVars, checkVars
<1> QED BY <1>1, <1>2, <1>3 DEF ClockInv, Ages, Unmanaged, Dated, PrunesOld

THEOREM ClockInvariance == ClockSpec => []ClockInv
<1>1. ClockInv /\ [ClockNext]_clockVars => ClockInv'
  BY TickKeeps, TimedKeeps, StutterKeeps DEF ClockNext
<1> QED BY <1>1, ClockInvInit, PTL DEF ClockSpec

-----------------------------------------------------------------------------
(* The theorems.                                                           *)

\* By the form of its steps the manager with the clock is still the manager: the
\* theorems above hold of it.
LEMMA ClockImplementsManager == ClockSpec => ManagerSpec
<1>1. ClockInit => ManagerInit
  BY DEF ClockInit
<1>2. [ClockNext]_clockVars => [ManagerNext]_managerVars
  BY DEF ClockNext, Timed, Tick, clockVars
<1> QED BY <1>1, <1>2, PTL DEF ClockSpec, ManagerSpec

\* Every variable of the manager with its clock stays in its type.
THEOREM ClockTypeCorrect == ClockSpec => []ClockTypeOK
<1>1. ClockInv => ClockTypeOK
  BY DEF ClockInv, Inv, TypeInv, Ages, ClockTypeOK
<1> QED BY <1>1, ClockInvariance, PTL

\* A managed cluster that pruning removes has a status from before it was
\* managed: performClusterPruning finds no other old enough.
THEOREM PrunesStaleOnly == ClockSpec => OnlyStalePruned
<1>1. ASSUME ClockInv, [ClockNext]_clockVars, NEW c \in clients \ clients', mu = "prune"
      PROVE  age[c] >= since[c]
  <2>1. [ManagerNext]_managerVars /\ Inv
    BY <1>1 DEF ClockNext, Timed, Tick, clockVars, ClockInv
  <2>2. \E d \in Clusters : Remove(d)
    BY <1>1, <2>1, StepCases, Elsewhere DEF Start, Rediscover, Add, PollerStep, stateVars
  <2>3. c \in removing
    BY <1>1, <2>2 DEF Remove
  <2>4. c \in Clusters /\ age[c] > Threshold
    BY <1>1, <2>1, <2>3 DEF ClockInv, PrunesOld, Inv, TypeInv, ManagerTypeOK
  <2>5. Dated(c) /\ age[c] \in Nat /\ due \in 0..CheckPeriod
    BY <1>1, <2>4, ClockAssumption DEF ClockInv, Ages, MaxAge
  <2> QED BY <2>4, <2>5, ClockAssumption DEF Dated
<1>2. ClockInv /\ [ClockNext]_clockVars =>
        [\A c \in clients \ clients' : mu = "prune" => age[c] >= since[c]]_clockVars
  BY <1>1
<1> QED BY <1>2, ClockInvariance, PTL DEF ClockSpec, OnlyStalePruned
=============================================================================
