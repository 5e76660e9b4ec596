----------------------------- MODULE DeltaFeed ------------------------------
(***************************************************************************)
(* DeltaAwareEventPublisher (internal/cluster/delta_integration.go) over   *)
(* DeltaManager (internal/delta/integration.go): the updates that the poll *)
(* goroutine of one cluster publishes, and the removal of the cluster      *)
(* beside them.  CalculateDelta and ClearCluster hold the lock of the      *)
(* calculator; the publication comes after it.                             *)
(***************************************************************************)
EXTENDS DeltaCalculator

CONSTANTS
  Data,     \* what the polls of the cluster may find
  Unknown   \* no document

ASSUME DataAssumption == \A data \in Data : IsClusterData(data)

\* A walk comes to every path.
ASSUME WalksAssumption == \A walk \in Walks :
  /\ IsWalk(walk)
  /\ \A data \in Data : DOMAIN ToGenericInterface(data) \subseteq Range(walk)

VARIABLES
  previous,  \* DeltaCalculator.previous of the cluster, or Nil
  update,    \* the update under way
  told,      \* history: the data of the last update that was published
  reader     \* the document of a subscriber, or Unknown

vars == <<previous, update, told, reader>>

Idle == [at |-> "idle"]

Init ==
  /\ previous = Nil
  /\ update = Idle
  /\ told = Nil
  /\ reader = Unknown

\* Every delta between two polls.
Deltas == [p \in {Clone(d) : d \in Data} |-> [c \in Data |-> CalculateJSONDelta(p, c)]]

\* No key was overwritten.
Exact(delta) == \A i \in DOMAIN delta : delta[i].key = delta[i].path

\* OptimizeDelta may drop a stanza whose key was overwritten, so that exact says
\* of the delta before it that it has none.
Full(data) == [at |-> "full", data |-> data]
Delta(base, data, delta) ==
  [at |-> "delta", base |-> base, data |-> data,
   delta |-> OptimizeDelta(delta), exact |-> Exact(delta)]

\* Fault: the stored data are replaced only where nothing was stored.
CalculateDeltaOnce(data) ==
  /\ update = Idle
  /\ \/ /\ previous = Nil
        /\ previous' = Clone(data)
        /\ update' = Full(data)
     \/ /\ previous # Nil
        /\ UNCHANGED previous
        /\ \E delta \in Deltas[previous][data] :
             update' = IF DOMAIN delta = {} THEN Full(data) ELSE Delta(previous, data, delta)
  /\ UNCHANGED <<told, reader>>
\* The first data of a cluster, and data without a change, go out in full.
CalculateDelta(data) ==
  /\ update = Idle
  /\ previous' = Clone(data)
  /\ \/ /\ previous = Nil
        /\ update' = Full(data)
     \/ /\ previous # Nil
        /\ \E delta \in Deltas[previous][data] :
             update' = IF DOMAIN delta = {} THEN Full(data) ELSE Delta(previous, data, delta)
  /\ UNCHANGED <<told, reader>>

ClearCluster ==
  /\ previous # Nil
  /\ previous' = Nil
  /\ UNCHANGED <<update, told, reader>>

\* A subscriber gets an event, or its channel is full.
Published(document) ==
  /\ told' = update.data
  /\ reader' \in {document, Unknown}
  /\ update' = Idle
  /\ UNCHANGED previous

PublishFullUpdate ==
  /\ update.at \in {"full", "fallback"}
  /\ Published(ToGenericInterface(update.data))

PublishDelta ==
  /\ update.at = "delta"
  /\ Published(IF reader = Unknown \/ ~update.exact THEN Unknown
               ELSE ApplyDelta(reader, update.delta))

\* The publisher refuses the event: the whole data are published instead,
\* which may fail too.
PublishFails ==
  /\ update.at \in {"full", "delta"}
  /\ update' = [at |-> "fallback", data |-> update.data]
  /\ UNCHANGED <<previous, told, reader>>

FallbackFails ==
  /\ update.at = "fallback"
  /\ update' = Idle
  /\ reader' = Unknown
  /\ UNCHANGED <<previous, told>>

Next ==
  \/ \E data \in Data : CalculateDelta(data)
  \/ ClearCluster
  \/ PublishFullUpdate
  \/ PublishDelta
  \/ PublishFails
  \/ FallbackFails

Spec == Init /\ [][Next]_vars

-----------------------------------------------------------------------------
(* Properties.                                                             *)

\* A subscriber that got every event since a full update, none of them with
\* an overwritten key, shows the data of the last one, however updates,
\* removals and failed publications follow each other: the deltas fit on one
\* another and on what is stored.
ReaderFollows ==
  reader # Unknown => Shown(reader) = Shown(ToGenericInterface(told))

\* An overwritten key names another key of the same object, and only two kinds
\* of keys are overwritten: those of length four, where append has left room
\* (the pods of a node, its status, the labels of a pod without a node), and
\* those of length six (the labels of a pod on a node).
KeysNameSiblings ==
  update.at = "delta" =>
    \A i \in DOMAIN update.delta :
      LET s == update.delta[i]
      IN s.key # s.path =>
           /\ Len(s.path) \in {4, 6}
           /\ Len(s.key) = Len(s.path) /\ Front(s.key) = Front(s.path)
           /\ s.key \in DOMAIN ToGenericInterface(update.base)
                         \cup DOMAIN ToGenericInterface(update.data)

\* "Returns a list of diff stanzas that can be applied to transform prev into
\* current" (calculator.go:75).
DeltasTransform ==
  update.at = "delta" =>
    Shown(ApplyDelta(ToGenericInterface(update.base), update.delta))
      = Shown(ToGenericInterface(update.data))
=============================================================================
