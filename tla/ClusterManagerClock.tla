------------------------ MODULE ClusterManagerClock -------------------------
(***************************************************************************)
(* ClusterManager with a clock, for what pruneThreshold means.  Every step *)
(* is one of ClusterManager's, with the ages it sets, or the passing of    *)
(* one tick.  A tick is coarse: a round of health checks is begun at least *)
(* every CheckPeriod ticks (30s by default, a check ending within 10s),    *)
(* and pruneThreshold (10m) is at least two such periods.                  *)
(***************************************************************************)
EXTENDS ClusterManager

CONSTANTS
  CheckPeriod,  \* HealthCheckInterval, in ticks
  Threshold     \* pruneThreshold, in ticks

ASSUME ClockAssumption ==
  /\ CheckPeriod \in Nat \ {0}
  /\ Threshold \in Nat /\ Threshold >= 2 * CheckPeriod

VARIABLES
  due,   \* ticks since a round of health checks began
  age,   \* age[c]: ticks since LastSeen of the cached status of c
  since  \* history: ticks since c was added to clients

clockVars == <<managerVars, due, age, since>>

\* Bound: ages beyond the threshold by more than one tick are not told apart.
\* A cluster can be pruned one tick beyond it, where age and since still are.
MaxAge == Threshold + 2

Older(n) == IF n < MaxAge THEN n + 1 ELSE n

ClockInit ==
  /\ ManagerInit
  /\ due = 0
  /\ age = [c \in Clusters |-> 0]
  /\ since = [c \in Clusters |-> 0]

\* Fault: LastSeen is the time the cluster was last available.
CheckedAvailable(c) ==
  check[c] = "checked" /\ check'[c] = "cached" /\ found[c] = "up"

\* A health check sets LastSeen to its own time, whatever it found.
Checked(c) == check[c] = "checked" /\ check'[c] = "cached"

\* So does the seeding of a mock cluster.
Seeded(c) == mock /\ c \in clients' \ clients

\* Pruning takes the clusters whose unavailable status is older than the
\* threshold.
TooOld == {c \in Unavailable : age[c] > Threshold}

Begins(l) == loop[l] = "ticked" /\ loop'[l] = "busy"

\* A step of the manager, and what it does to the ages.
Timed(step) ==
  /\ step
  /\ Begins("prune") => removing' = TooOld
  /\ due' = IF Begins("health") THEN 0 ELSE due
  /\ age' = [c \in Clusters |->
       IF cache'[c] = "none" \/ Checked(c) \/ Seeded(c) THEN 0 ELSE age[c]]
  /\ since' = [c \in Clusters |-> IF c \in clients' THEN since[c] ELSE 0]

\* Time passes, but not beyond the next round of health checks.
Tick ==
  /\ running /\ ~cancelled
  /\ due < CheckPeriod
  /\ due' = due + 1
  /\ age' = [c \in Clusters |-> IF cache[c] = "none" THEN 0 ELSE Older(age[c])]
  /\ since' = [c \in Clusters |-> IF c \in clients THEN Older(since[c]) ELSE 0]
  /\ UNCHANGED managerVars

ClockNext == Timed(ManagerNext) \/ Tick

ClockSpec == ClockInit /\ [][ClockNext]_clockVars

\* The fairness of ManagerFairSpec as far as pruning depends on it, with
\* locks that are handed to the health and the prune loop in the end (as a
\* sync.RWMutex does), and a clock that goes on.
ClockFairness ==
  /\ \A c \in Clusters : /\ WF_clockVars(Timed(PollerStep(c)))
                         /\ SF_clockVars(Timed(PollEnd(c) /\ PollerStep(c)))
                         /\ SF_clockVars(Timed(CheckStep(c)))
  /\ WF_clockVars(Timed(RemovalStep))
  /\ SF_clockVars(Timed(HealthStep))
  /\ SF_clockVars(Timed(PruneStep))
  /\ WF_clockVars(Tick)

ClockFairSpec == ClockSpec /\ ClockFairness

-----------------------------------------------------------------------------
(* Properties.                                                             *)

ClockTypeOK ==
  /\ ManagerTypeOK
  /\ due \in 0..CheckPeriod
  /\ age \in [Clusters -> 0..MaxAge]
  /\ since \in [Clusters -> 0..MaxAge]

\* As long as health checks keep to their period they refresh LastSeen of
\* every managed cluster, failing or not: pruning never removes a managed
\* cluster, except one whose cached status dates from before it was
\* rediscovered.
OnlyStalePruned ==
  [][\A c \in clients \ clients' : mu = "prune" => age[c] >= since[c]]_clockVars

\* "removes clusters that have been unavailable for too long"
\* (manager.go:684): a cluster that stays unavailable is removed.
UnavailablePruned ==
  \A c \in Clusters :
    (c \in clients /\ cache[c] = "down")
      ~> (c \notin clients \/ cache[c] # "down" \/ cancelled)
=============================================================================
