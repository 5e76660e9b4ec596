----------------------------- MODULE RedisStore -----------------------------
(***************************************************************************)
(* The clusters of internal/store/redis.go, beside the screen tokens, in   *)
(* one Redis that several processes share.  Storing the data of a cluster  *)
(* and deleting a cluster are pipelines: their commands are sent at once   *)
(* and executed one by one, between those of other connections, and one of *)
(* them may fail where the next one does not.  A reader asks for the ids   *)
(* and then for the data of each.                                          *)
(***************************************************************************)
EXTENDS RedisTokens, Integers, Sequences, FiniteSets

CONSTANTS
  Clusters,
  Callers,  \* the goroutines, of all processes, that store and delete
  Readers   \* the goroutines that read

ASSUME ClustersAssumption == "none" \notin Clusters  \* it stands for no cluster

VARIABLES
  data,     \* clusters with a data key
  status,   \* clusters with a status key
  listed,   \* members of the set of cluster ids
  pipe,     \* pipe[w]: the pipeline that w has sent
  reader,   \* reader[q]: the cluster that q has an id of
  intact    \* history: clusters whose last pipelines neither failed nor met

dataVars  == <<data, status, listed, pipe, reader, intact>>
storeVars == <<redisVars, dataVars>>

NoPipe   == [on |-> "none"]
Outside  == [on |-> "none"]

StoreInit ==
  /\ RedisInit
  /\ data = {} /\ status = {} /\ listed = {}
  /\ pipe = [w \in Callers |-> NoPipe]
  /\ reader = [q \in Readers |-> Outside]
  /\ intact = Clusters

\* Fault: the id first.
SetClusterDataIdFirst == <<"SADD", "SET data">>
SetClusterData == <<"SET data", "SADD">>

\* Fault: the id is left.
DeleteClusterKeepId == <<"DEL data", "DEL status">>
DeleteCluster == <<"DEL data", "DEL status", "SREM">>

On(c)       == {w \in Callers : pipe[w].on = c}
Deleting(c) == \E w \in On(c) : pipe[w].deletes

\* Those who read c meanwhile may miss it: it is being deleted, or its
\* pipelines met or failed.
Excuse(c) ==
  reader' = [q \in Readers |->
    IF reader[q].on = c THEN [reader[q] EXCEPT !.excused = TRUE] ELSE reader[q]]

\* A pipeline is sent.  One that is under way for the same cluster meets it.
Send(w, c, commands, deletes) ==
  /\ pipe[w] = NoPipe
  /\ LET others == On(c)
     IN /\ pipe' = [v \in Callers |->
             IF v = w THEN [on |-> c, todo |-> commands, deletes |-> deletes,
                            alone |-> others = {}]
             ELSE IF v \in others THEN [pipe[v] EXCEPT !.alone = FALSE]
             ELSE pipe[v]]
        /\ intact' = IF others = {} THEN intact ELSE intact \ {c}
        /\ IF deletes \/ others # {} THEN Excuse(c) ELSE UNCHANGED reader
  /\ UNCHANGED <<data, status, listed>>

Effect(command, c) ==
  /\ data'   = CASE command = "SET data" -> data \cup {c}
                 [] command = "DEL data" -> data \ {c}
                 [] OTHER -> data
  /\ status' = IF command = "DEL status" THEN status \ {c} ELSE status
  /\ listed' = CASE command = "SADD" -> listed \cup {c}
                 [] command = "SREM" -> listed \ {c}
                 [] OTHER -> listed

Pending(w) == pipe[w] # NoPipe /\ pipe[w].todo # << >>

Execute(w) ==
  /\ Pending(w)
  /\ Effect(Head(pipe[w].todo), pipe[w].on)
  /\ pipe' = [pipe EXCEPT ![w].todo = Tail(@)]
  /\ UNCHANGED <<reader, intact>>

Sent(w) == IF pipe[w].deletes THEN DeleteCluster ELSE SetClusterData

\* An error, with the effect or without it; or the connection is gone, and the
\* rest of the pipeline with it, unless the client sends all of it again.
CommandFails(w) ==
  /\ Pending(w)
  /\ LET c == pipe[w].on
     IN /\ Effect(Head(pipe[w].todo), c) \/ UNCHANGED <<data, status, listed>>
        /\ \E rest \in {Tail(pipe[w].todo), << >>, Sent(w)} :
             pipe' = [pipe EXCEPT ![w].todo = rest, ![w].alone = FALSE]
        /\ intact' = intact \ {c}
        /\ Excuse(c)

\* Exec returns.  A pipeline that was alone and whole leaves the cluster in
\* order, whatever went before it.
Executed(w) ==
  /\ pipe[w] # NoPipe /\ pipe[w].todo = << >>
  /\ intact' = IF pipe[w].alone THEN intact \cup {pipe[w].on} ELSE intact
  /\ pipe' = [pipe EXCEPT ![w] = NoPipe]
  /\ UNCHANGED <<data, status, listed, reader>>

SetClusterStatus(c) ==
  /\ status' = status \cup {c}
  /\ UNCHANGED <<data, listed, pipe, reader, intact>>

\* GetClusterIDs; on an error there are none.
GetClusterIDs(q, c) ==
  /\ reader[q] = Outside /\ c \in listed
  /\ reader' = [reader EXCEPT ![q] =
       [on |-> c, excused |-> c \notin intact \/ Deleting(c)]]
  /\ UNCHANGED <<data, status, listed, pipe, intact>>

\* GetClusterData; an error is passed over like a cluster that is not found.
Passed(q) == reader' = [reader EXCEPT ![q] = Outside]
GetClusterData(q) ==
  /\ reader[q].on \in data
  /\ Passed(q)
  /\ UNCHANGED <<data, status, listed, pipe, intact>>
ClusterNotFound(q) ==
  /\ reader[q].on \in Clusters \ data
  /\ Passed(q)
  /\ UNCHANGED <<data, status, listed, pipe, intact>>

DataNext ==
  \/ \E w \in Callers :
       \/ \E c \in Clusters : Send(w, c, SetClusterData, FALSE)
                                \/ Send(w, c, DeleteCluster, TRUE)
       \/ Execute(w) \/ CommandFails(w) \/ Executed(w)
  \/ \E c \in Clusters : SetClusterStatus(c) \/ \E q \in Readers : GetClusterIDs(q, c)
  \/ \E q \in Readers : GetClusterData(q) \/ ClusterNotFound(q)

StoreNext ==
  \/ RedisNext /\ UNCHANGED dataVars
  \/ DataNext /\ UNCHANGED redisVars

StoreSpec == StoreInit /\ [][StoreNext]_storeVars

-----------------------------------------------------------------------------
(* Properties.                                                             *)

Todos == {SetClusterData, Tail(SetClusterData), DeleteCluster, Tail(DeleteCluster),
          Tail(Tail(DeleteCluster)), << >>}
Pipes == [on : Clusters, todo : Todos, deletes : BOOLEAN, alone : BOOLEAN]

StoreTypeOK ==
  /\ RedisTypeOK
  /\ data \subseteq Clusters /\ status \subseteq Clusters /\ listed \subseteq Clusters
  /\ pipe \in [Callers -> Pipes \cup {NoPipe}]
  /\ reader \in [Readers -> [on : Clusters, excused : BOOLEAN] \cup {Outside}]
  /\ intact \subseteq Clusters

\* "Use pipeline for atomic operations" (redis.go:161): a pipeline is none, but
\* one that met no other and no error leaves the cluster with data and id or
\* without both, however the ones before it met and failed.
IdsMatchData ==
  \A c \in intact : On(c) = {} => (c \in listed <=> c \in data)

\* Who reads a listed cluster finds its data, although id and data are two
\* keys, unless a deletion or a disturbed pipeline came in between.
MissesOnlyDeleted ==
  [][\A q \in Readers : ClusterNotFound(q) => reader[q].excused]_storeVars
=============================================================================
