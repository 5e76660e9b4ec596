---------------------------- MODULE QueryEngine -----------------------------
(***************************************************************************)
(* The query engines of internal/cluster/query_engine.go.  The manager     *)
(* gives every cluster an engine of its own, whose one goroutine polls it; *)
(* c names the cluster, its engine and that goroutine.                     *)
(*                                                                         *)
(* ClusterManager starts and stops the engines.                           *)
(*                                                                         *)
(* What a query returns is abstract: it succeeds or fails.  The goroutine  *)
(* is split at its store calls and at its waits; publishing, which blocks  *)
(* on nothing and is modelled in EventPublisher, belongs to the step of    *)
(* the store call before it.                                               *)
(***************************************************************************)
EXTENDS Integers, FiniteSets

CONSTANTS
  Clusters,  \* cluster ids
  MaxTries   \* queries in a round that fails throughout (maxRetries, 3)

ASSUME EngineAssumption == MaxTries \in Nat \ {0}

VARIABLES
  poll,    \* poll[c]: where the goroutine of c stands, "off" if there is none
  tries,   \* tries[c]: queries begun since the ticker fired
  ended,   \* ended[c]: the engine's context is cancelled
  data,    \* data[c]: the store holds data of c
  status   \* status[c]: what the store holds of its status

engineVars == <<poll, tries, ended>>
storeVars  == <<data, status>>
queryVars  == <<engineVars, storeVars>>

QueryInit ==
  /\ poll = [c \in Clusters |-> "off"]
  /\ tries = [c \in Clusters |-> 0]
  /\ ended = [c \in Clusters |-> FALSE]
  /\ data = [c \in Clusters |-> FALSE]
  /\ status = [c \in Clusters |-> "none"]

At(c, from, to) == poll[c] = from /\ poll' = [poll EXCEPT ![c] = to]

-----------------------------------------------------------------------------
(* What the owner of the engines does to them.                             *)

\* New engines, with contexts of their own; each begins with a query.
StartEngines(cs) ==
  /\ poll' = [c \in Clusters |-> IF c \in cs THEN "querying" ELSE poll[c]]
  /\ tries' = [c \in Clusters |-> IF c \in cs THEN 1 ELSE tries[c]]
  /\ ended' = [c \in Clusters |-> IF c \in cs THEN FALSE ELSE ended[c]]

\* Stop cancels, and returns when the goroutine has ended.
CancelEngine(c) == ended' = [ended EXCEPT ![c] = TRUE] /\ UNCHANGED <<poll, tries>>

\* Fault: Stop does not wait.
StoppedWhenCancelled(c) == ended[c]
Stopped(c) == ended[c] /\ poll[c] = "off"

-----------------------------------------------------------------------------
(* The goroutine.                                                          *)

\* The ticker fires; the select may take it although the context is done.
PollTick(c) ==
  /\ At(c, "waiting", "querying")
  /\ tries' = [tries EXCEPT ![c] = 1]
  /\ UNCHANGED <<ended, storeVars>>

\* Fault: the loop looks at its context only after a failed query.
PollEndAfterFailure(c) ==
  /\ ended[c]
  /\ At(c, "delay", "off")
  /\ UNCHANGED <<tries, ended, storeVars>>

PollEnd(c) ==
  /\ ended[c]
  /\ At(c, "waiting", "off")
  /\ UNCHANGED <<tries, ended, storeVars>>

\* All four parts of the query arrived.
QuerySucceeds(c) ==
  /\ At(c, "querying", "fetched")
  /\ UNCHANGED <<tries, ended, storeVars>>

\* Fault: one retry too many.
QueryFailsOffByOne(c) ==
  /\ At(c, "querying", IF tries[c] <= MaxTries THEN "delay" ELSE "failed")
  /\ UNCHANGED <<tries, ended, storeVars>>

\* A part failed, timed out, or the context was cancelled.
QueryFails(c) ==
  /\ At(c, "querying", IF tries[c] < MaxTries THEN "delay" ELSE "failed")
  /\ UNCHANGED <<tries, ended, storeVars>>

\* The retry delay has passed.
Retry(c) ==
  /\ At(c, "delay", "querying")
  /\ tries' = [tries EXCEPT ![c] = @ + 1]
  /\ UNCHANGED <<ended, storeVars>>

\* Cancelled during the delay: the round ends and no status is stored.
RetryCancelled(c) ==
  /\ ended[c]
  /\ At(c, "delay", "waiting")
  /\ UNCHANGED <<tries, ended, storeVars>>

\* A store error is only logged.
StoreData(c) ==
  /\ At(c, "fetched", "stored")
  /\ data' \in {data, [data EXCEPT ![c] = TRUE]}
  /\ UNCHANGED <<tries, ended, status>>

StoreStatus(c, s) == status' \in {status, [status EXCEPT ![c] = s]}

RoundSucceeds(c) ==
  /\ At(c, "stored", "waiting")
  /\ StoreStatus(c, "up")
  /\ UNCHANGED <<tries, ended, data>>

RoundFails(c) ==
  /\ At(c, "failed", "waiting")
  /\ StoreStatus(c, "down")
  /\ UNCHANGED <<tries, ended, data>>

Poller(c) ==
  \/ PollTick(c)
  \/ PollEnd(c)
  \/ QuerySucceeds(c)
  \/ QueryFails(c)
  \/ Retry(c)
  \/ RetryCancelled(c)
  \/ StoreData(c)
  \/ RoundSucceeds(c)
  \/ RoundFails(c)

-----------------------------------------------------------------------------
(* Properties.                                                             *)

\* The part of ManagerTypeOK that the engines own.
QueryTypeOK ==
  /\ poll \in [Clusters -> {"off", "waiting", "querying", "delay", "failed",
                            "fetched", "stored"}]
  /\ tries \in [Clusters -> 0..MaxTries]
  /\ ended \in [Clusters -> BOOLEAN]
  /\ data \in [Clusters -> BOOLEAN]
  /\ status \in [Clusters -> {"none", "up", "down"}]
=============================================================================
