-------------------------- MODULE RedisStore_proofs -------------------------
(***************************************************************************)
(* Proofs about RedisStore, for any tokens, clusters and numbers of        *)
(* clients, callers and readers.  Tokens and clusters share a Redis but no *)
(* keys: each has an invariant of its own.                                 *)
(***************************************************************************)
EXTENDS RedisStore, TLAPS

-----------------------------------------------------------------------------
(* The screen tokens.                                                      *)

\* A call that has a command to send has no answer yet, and is about an issued
\* token.
CallsKnown ==
  \A r \in Clients :
    /\ call[r].op # "none" => call[r].on \in issued
    /\ at[r] # "idle" => call[r].op # "none" /\ call[r].ans = "none"

TokensInv == RedisTypeOK /\ CallsKnown

\* The end of a call keeps what is known of calls.
LEMMA FinishKeeps ==
  ASSUME TokensInv, NEW r \in Clients, at[r] # "idle", NEW a \in Promise!Answers,
         Finish(r, a), issued' = issued
  PROVE  /\ at' \in [Clients -> {"idle", "GET", "decide", "DEL expired", "TTL", "SET", "DEL"}]
         /\ got' \in [Clients -> {"absent", "fresh", "used"}]
         /\ newTTL' \in [Clients -> {"none", "rest", "keep"}]
         /\ call' \in [Clients -> Promise!Calls \cup {Promise!NoCall}]
         /\ CallsKnown'
<1>1. call[r] \in Promise!Calls
  <2>1. call[r].op # "none" /\ call[r] \in Promise!Calls \cup {Promise!NoCall}
    BY DEF TokensInv, RedisTypeOK, CallsKnown
  <2> QED BY <2>1 DEF Promise!NoCall
<1>2. at' = [at EXCEPT ![r] = "idle"] /\ call' = [call EXCEPT ![r].ans = a]
  BY DEF Finish, Goto, Promise!Answer
<1>3. call'[r] \in Promise!Calls /\ call'[r].op = call[r].op /\ call'[r].on = call[r].on
  BY <1>1, <1>2 DEF TokensInv, RedisTypeOK, Promise!Calls
<1>4. call' \in [Clients -> Promise!Calls \cup {Promise!NoCall}]
  BY <1>2, <1>3 DEF TokensInv, RedisTypeOK
<1>5. CallsKnown'
  <2> SUFFICES ASSUME NEW q \in Clients
               PROVE  /\ call'[q].op # "none" => call'[q].on \in issued
                      /\ at'[q] # "idle" => call'[q].op # "none" /\ call'[q].ans = "none"
    BY DEF CallsKnown
  <2>1. CASE q = r
    BY <1>2, <1>3, <2>1 DEF TokensInv, RedisTypeOK, CallsKnown
  <2>2. CASE q # r
    BY <1>2, <2>2 DEF TokensInv, RedisTypeOK, CallsKnown
  <2> QED BY <2>1, <2>2
<1>6. /\ at' \in [Clients -> {"idle", "GET", "decide", "DEL expired", "TTL", "SET", "DEL"}]
      /\ got' \in [Clients -> {"absent", "fresh", "used"}]
      /\ newTTL' \in [Clients -> {"none", "rest", "keep"}]
  BY DEF Finish, Goto, TokensInv, RedisTypeOK
<1> QED BY <1>4, <1>5, <1>6

LEMMA UnreachableKeeps ==
  ASSUME TokensInv, NEW r \in Clients, at[r] # "idle", Unreachable(r), issued' = issued
  PROVE  /\ at' \in [Clients -> {"idle", "GET", "decide", "DEL expired", "TTL", "SET", "DEL"}]
         /\ got' \in [Clients -> {"absent", "fresh", "used"}]
         /\ newTTL' \in [Clients -> {"none", "rest", "keep"}]
         /\ call' \in [Clients -> Promise!Calls \cup {Promise!NoCall}]
         /\ CallsKnown'
BY FinishKeeps DEF Unreachable, Promise!Answers

\* A command other than the last of its call keeps them too.
LEMMA GotoKeeps ==
  ASSUME TokensInv, NEW r \in Clients, at[r] # "idle",
         NEW command \in {"decide", "DEL expired", "TTL", "SET"}, Goto(r, command),
         UNCHANGED <<call, issued>>
  PROVE  /\ at' \in [Clients -> {"idle", "GET", "decide", "DEL expired", "TTL", "SET", "DEL"}]
         /\ CallsKnown'
BY DEF TokensInv, RedisTypeOK, CallsKnown, Goto

LEMMA TokensStep ==
  ASSUME TokensInv, [RedisNext]_redisVars
  PROVE  TokensInv'
<1>1. ASSUME NEW t \in Tokens, CreateToken(t) \/ Passes(t) \/ Evict(t)
      PROVE  TokensInv'
  <2>1. UNCHANGED <<at, got, newTTL, call>>
    BY <1>1 DEF CreateToken, Passes, Evict, Promise!Create, Promise!Expire, localVars
  <2>2. CASE CreateToken(t)
    BY <1>1, <2>1, <2>2 DEF CreateToken, Promise!Create, TokensInv, RedisTypeOK, CallsKnown
  <2>3. CASE Passes(t)
    BY <1>1, <2>1, <2>3 DEF Passes, Promise!Expire, TokensInv, RedisTypeOK, CallsKnown
  <2>4. CASE Evict(t)
    BY <1>1, <2>1, <2>4 DEF Evict, DropKey, history, TokensInv, RedisTypeOK, CallsKnown
  <2> QED BY <1>1, <2>2, <2>3, <2>4
<1>2. ASSUME NEW r \in Clients, NEW o \in Promise!Ops, NEW t \in Tokens, Calling(r, o, t)
      PROVE  TokensInv'
  BY <1>2 DEF Calling, Promise!Begin, Promise!Ops, Promise!Calls, Promise!NoCall, Promise!Answers,
     Goto, TokensInv, RedisTypeOK, CallsKnown
<1>3. ASSUME NEW r \in Clients, Get(r)
      PROVE  TokensInv'
  <2>1. at[r] # "idle" /\ UNCHANGED <<key, ttl, issued, expired, used, deleted>>
    BY <1>3 DEF Get, history
  <2>2. CASE Finish(r, "refused") \/ Unreachable(r)
    BY <2>1, <2>2, FinishKeeps, UnreachableKeeps DEF TokensInv, RedisTypeOK, Promise!Answers
  <2>3. CASE /\ Goto(r, "decide") /\ UNCHANGED <<newTTL, call>>
             /\ got' = [got EXCEPT ![r] = key[call[r].on]]
    <3>1. key[call[r].on] \in {"absent", "fresh", "used"}
      BY <2>1 DEF TokensInv, RedisTypeOK, CallsKnown
    <3> QED BY <2>1, <2>3, <3>1, GotoKeeps DEF TokensInv, RedisTypeOK
  <2> QED BY <1>3, <2>2, <2>3 DEF Get
<1>4. ASSUME NEW r \in Clients, Decide(r)
      PROVE  TokensInv'
  <2>1. at[r] # "idle" /\ UNCHANGED <<key, ttl, issued, expired, used, deleted>>
    BY <1>4 DEF Decide, history
  <2>2. CASE Finish(r, "refused") \/ Finish(r, "ok")
    BY <2>1, <2>2, FinishKeeps DEF TokensInv, RedisTypeOK, Promise!Answers
  <2>3. CASE (Goto(r, "DEL expired") \/ Goto(r, "TTL")) /\ UNCHANGED <<got, newTTL, call>>
    BY <2>1, <2>3, GotoKeeps DEF TokensInv, RedisTypeOK
  <2> QED BY <1>4, <2>2, <2>3 DEF Decide
<1>5. ASSUME NEW r \in Clients, DeleteExpired(r)
      PROVE  TokensInv'
  <2>1. at[r] # "idle" /\ UNCHANGED <<issued, expired, used, deleted>> /\ Finish(r, "refused")
    BY <1>5 DEF DeleteExpired, history
  <2>2. (key \in [Tokens -> {"absent", "fresh", "used"}]
          /\ ttl \subseteq {t \in Tokens : key[t] # "absent"})'
    BY <1>5 DEF DeleteExpired, DropKey, TokensInv, RedisTypeOK
  <2> QED BY <2>1, <2>2, FinishKeeps DEF TokensInv, RedisTypeOK, Promise!Answers
<1>6. ASSUME NEW r \in Clients, ReadTTL(r)
      PROVE  TokensInv'
  <2>1. /\ at[r] # "idle" /\ Goto(r, "SET")
        /\ UNCHANGED <<key, ttl, got, call, issued, expired, used, deleted>>
    BY <1>6 DEF ReadTTL, history
  <2>2. newTTL' \in [Clients -> {"none", "rest", "keep"}]
    BY <1>6 DEF ReadTTL, TokensInv, RedisTypeOK
  <2> QED BY <2>1, <2>2, GotoKeeps DEF TokensInv, RedisTypeOK
<1>7. ASSUME NEW r \in Clients, SetUsed(r)
      PROVE  TokensInv'
  <2>1. at[r] # "idle" /\ UNCHANGED <<issued, expired, deleted>>
    BY <1>7 DEF SetUsed
  <2>2. call[r].on \in issued /\ issued \subseteq Tokens
    BY <2>1 DEF TokensInv, RedisTypeOK, CallsKnown
  <2>3. (/\ key \in [Tokens -> {"absent", "fresh", "used"}]
         /\ ttl \subseteq {t \in Tokens : key[t] # "absent"}
         /\ used \subseteq issued)'
    BY <1>7, <2>1, <2>2 DEF SetUsed, MarkUsed, TokensInv, RedisTypeOK
  <2>4. Finish(r, "ok") \/ Unreachable(r)
    BY <1>7 DEF SetUsed
  <2> QED BY <2>1, <2>3, <2>4, FinishKeeps, UnreachableKeeps
          DEF TokensInv, RedisTypeOK, Promise!Answers
<1>8. ASSUME NEW r \in Clients, DeleteScreenToken(r)
      PROVE  TokensInv'
  <2>1. at[r] # "idle" /\ UNCHANGED <<issued, expired, used>>
    BY <1>8 DEF DeleteScreenToken
  <2>2. call[r].on \in issued /\ issued \subseteq Tokens
    BY <2>1 DEF TokensInv, RedisTypeOK, CallsKnown
  <2>3. (/\ key \in [Tokens -> {"absent", "fresh", "used"}]
         /\ ttl \subseteq {t \in Tokens : key[t] # "absent"}
         /\ deleted \subseteq issued)'
    BY <1>8, <2>1, <2>2 DEF DeleteScreenToken, DropKey, TokensInv, RedisTypeOK
  <2>4. Finish(r, "ok") \/ Unreachable(r)
    BY <1>8 DEF DeleteScreenToken
  <2> QED BY <2>1, <2>3, <2>4, FinishKeeps, UnreachableKeeps
          DEF TokensInv, RedisTypeOK, Promise!Answers
<1>9. ASSUME NEW r \in Clients, Returning(r)
      PROVE  TokensInv'
  BY <1>9 DEF Returning, Promise!Return, Promise!NoCall, localVars, TokensInv, RedisTypeOK,
     CallsKnown
<1>10. CASE UNCHANGED redisVars
  BY <1>10 DEF redisVars, localVars, history, TokensInv, RedisTypeOK, CallsKnown
<1> QED
  BY <1>1, <1>2, <1>3, <1>4, <1>5, <1>6, <1>7, <1>8, <1>9, <1>10 DEF RedisNext

-----------------------------------------------------------------------------
(* The clusters.                                                           *)

\* What is left of a pipeline after its first commands.
ToList   == Tail(SetClusterData)
ToForget == Tail(DeleteCluster)
ToUnlist == Tail(ToForget)

LEMMA CommandFacts ==
  /\ Head(SetClusterData) = "SET data" /\ Head(ToList) = "SADD"
  /\ Head(DeleteCluster) = "DEL data" /\ Head(ToForget) = "DEL status"
  /\ Head(ToUnlist) = "SREM"
  /\ Tail(ToList) = << >> /\ Tail(ToUnlist) = << >>
  /\ \A todo \in {SetClusterData, ToList, DeleteCluster, ToForget, ToUnlist} : todo # << >>
<1>1. Head(SetClusterData) = "SET data"
  BY DEF SetClusterData
<1>2. SetClusterData # << >>
  BY DEF SetClusterData
<1>3. ToList = <<"SADD">>
  BY DEF ToList, SetClusterData
<1>4. Head(ToList) = "SADD"
  BY DEF ToList, SetClusterData
<1>5. ToList # << >>
  BY <1>3
<1>6. Tail(ToList) = << >>
  BY DEF ToList, SetClusterData
<1>7. Head(DeleteCluster) = "DEL data"
  BY DEF DeleteCluster
<1>8. DeleteCluster # << >>
  BY DEF DeleteCluster
<1>9. Len(ToForget) = 2
  BY DEF ToForget, DeleteCluster
<1>10. Head(ToForget) = "DEL status"
  BY DEF ToForget, DeleteCluster
<1>11. ToForget # << >>
  <2>1. Len(<< >>) = 0
    OBVIOUS
  <2> QED BY <1>9, <2>1
<1>12. ToUnlist = <<"SREM">>
  BY DEF ToUnlist, ToForget, DeleteCluster
<1>13. Head(ToUnlist) = "SREM"
  BY DEF ToUnlist, ToForget, DeleteCluster
<1>14. ToUnlist # << >>
  BY <1>12
<1>15. Tail(ToUnlist) = << >>
  BY DEF ToUnlist, ToForget, DeleteCluster
<1> QED BY <1>1, <1>2, <1>4, <1>5, <1>6, <1>7, <1>8, <1>10, <1>11, <1>13, <1>14, <1>15

DataTypeOK ==
  /\ data \subseteq Clusters /\ status \subseteq Clusters /\ listed \subseteq Clusters
  /\ pipe \in [Callers -> Pipes \cup {NoPipe}]
  /\ reader \in [Readers -> [on : Clusters, excused : BOOLEAN] \cup {Outside}]
  /\ intact \subseteq Clusters

Matches(c) == c \in listed <=> c \in data

\* How far a pipeline that met no other has come.
SetSoFar(todo, c) ==
  /\ todo \in {SetClusterData, ToList, << >>}
  /\ todo = SetClusterData /\ c \in intact => Matches(c)
  /\ todo # SetClusterData => c \in data
  /\ todo = << >> => c \in listed
DeletedSoFar(todo, c) ==
  /\ todo \in {DeleteCluster, ToForget, ToUnlist, << >>}
  /\ todo # DeleteCluster => c \notin data
  /\ todo = << >> => c \notin listed
SoFar(p) ==
  /\ p.deletes => DeletedSoFar(p.todo, p.on)
  /\ ~p.deletes => SetSoFar(p.todo, p.on)

\* A pipeline that is alone has no other on its cluster, and did what it says.
AlonesAre ==
  \A w \in Callers : pipe[w].on \in Clusters /\ pipe[w].alone =>
    /\ SoFar(pipe[w])
    /\ \A v \in Callers : pipe[v].on = pipe[w].on => v = w

\* An intact cluster is in order, or in the hands of one pipeline.
IntactsAre ==
  \A c \in intact :
    /\ On(c) = {} => Matches(c)
    /\ \A w \in Callers : pipe[w].on = c => pipe[w].alone

\* A reader without an excuse finds what it asks for.
ReadersFind ==
  \A q \in Readers : reader[q].on \in Clusters /\ ~reader[q].excused =>
    /\ reader[q].on \in intact \cap data
    /\ \A w \in Callers : pipe[w].on = reader[q].on => ~pipe[w].deletes

DataInv == DataTypeOK /\ AlonesAre /\ IntactsAre /\ ReadersFind

LEMMA PipeFacts ==
  ASSUME DataTypeOK, NEW w \in Callers
  PROVE  /\ pipe[w] # NoPipe <=> pipe[w].on \in Clusters
         /\ pipe[w] # NoPipe <=> pipe[w] \in Pipes
BY ClustersAssumption DEF DataTypeOK, Pipes, NoPipe

\* A command changes nothing of another cluster, and puts in nothing but its own.
LEMMA EffectFacts ==
  ASSUME NEW command, NEW c \in Clusters, Effect(command, c), DataTypeOK
  PROVE  /\ data' \subseteq Clusters /\ status' \subseteq Clusters /\ listed' \subseteq Clusters
         /\ \A d \in Clusters \ {c} : (d \in data' <=> d \in data)
                                     /\ (d \in listed' <=> d \in listed)
BY DEF Effect, DataTypeOK

LEMMA TodoKept ==
  ASSUME NEW todo \in Todos, todo # << >>
  PROVE  Tail(todo) \in Todos
BY CommandFacts DEF Todos, ToList, ToForget, ToUnlist

\* Of what the invariant says of one pipeline, a step on another cluster
\* disturbs nothing.
LEMMA ExecuteKeeps ==
  ASSUME DataInv, NEW w \in Callers, Execute(w)
  PROVE  DataInv'
<1> DEFINE c == pipe[w].on
           todo == pipe[w].todo
<1>1. /\ pipe[w] \in Pipes /\ c \in Clusters /\ todo \in Todos /\ todo # << >>
      /\ Effect(Head(todo), c) /\ UNCHANGED <<reader, intact>>
      /\ pipe' = [pipe EXCEPT ![w] = [pipe[w] EXCEPT !.todo = Tail(todo)]]
  BY PipeFacts DEF Execute, Pending, DataInv, Pipes
<1>2. Tail(todo) \in Todos
  BY <1>1, TodoKept
<1>3. /\ pipe'[w].on = c /\ pipe'[w].deletes = pipe[w].deletes
      /\ pipe'[w].alone = pipe[w].alone /\ pipe'[w].todo = Tail(todo)
      /\ pipe'[w] \in Pipes
  BY <1>1, <1>2 DEF DataInv, DataTypeOK, Pipes
<1>4. \A v \in Callers \ {w} : pipe'[v] = pipe[v]
  BY <1>1 DEF DataInv, DataTypeOK
<1>5. DataTypeOK'
  <2>1. pipe' \in [Callers -> Pipes \cup {NoPipe}]
    BY <1>1, <1>3, <1>4 DEF DataInv, DataTypeOK
  <2> QED BY <1>1, <2>1, EffectFacts DEF DataInv, DataTypeOK
<1>6. \A v \in Callers : pipe'[v].on = pipe[v].on /\ pipe'[v].deletes = pipe[v].deletes
                           /\ pipe'[v].alone = pipe[v].alone
  BY <1>3, <1>4
<1>7. AlonesAre'
  <2> SUFFICES ASSUME NEW v \in Callers, pipe'[v].on \in Clusters, pipe'[v].alone
               PROVE  /\ SoFar(pipe[v])'
                      /\ \A u \in Callers : pipe'[u].on = pipe'[v].on => u = v
    BY DEF AlonesAre
  <2>1. \A u \in Callers : pipe'[u].on = pipe'[v].on => u = v
    BY <1>6 DEF DataInv, AlonesAre
  <2>2. SoFar(pipe[v])
    BY <1>6 DEF DataInv, AlonesAre
  <2>3. CASE v # w
    <3>1. pipe[v].on # c
      BY <1>6, <2>1, <2>3
    <3>2. /\ pipe'[v] = pipe[v] /\ intact' = intact /\ pipe[v].on \in Clusters
          /\ pipe[v].on \in data' <=> pipe[v].on \in data
          /\ pipe[v].on \in listed' <=> pipe[v].on \in listed
      BY <1>1, <1>4, <1>6, <2>3, <3>1, EffectFacts DEF DataInv
    <3>3. (SetSoFar(pipe[v].todo, pipe[v].on)' <=> SetSoFar(pipe[v].todo, pipe[v].on))
          /\ (DeletedSoFar(pipe[v].todo, pipe[v].on)' <=> DeletedSoFar(pipe[v].todo, pipe[v].on))
      BY <3>2 DEF SetSoFar, DeletedSoFar, Matches
    <3> QED BY <2>1, <2>2, <3>2, <3>3 DEF SoFar
  <2>4. CASE v = w /\ pipe[w].deletes
    <3>1. DeletedSoFar(todo, c)
      BY <2>2, <2>4 DEF SoFar
    <3>2. /\ Tail(todo) \in {ToForget, ToUnlist, << >>} /\ c \notin data'
          /\ Tail(todo) = << >> => c \notin listed'
      <4>1. CASE todo = DeleteCluster
        BY <1>1, <4>1, CommandFacts DEF Effect, ToForget
      <4>2. CASE todo = ToForget
        BY <1>1, <3>1, <4>2, CommandFacts DEF DeletedSoFar, Effect, ToUnlist
      <4>3. CASE todo = ToUnlist
        BY <1>1, <3>1, <4>3, CommandFacts DEF DeletedSoFar, Effect
      <4> QED BY <1>1, <3>1, <4>1, <4>2, <4>3 DEF DeletedSoFar
    <3>3. DeletedSoFar(pipe[v].todo, pipe[v].on)'
      BY <1>3, <2>4, <3>2 DEF DeletedSoFar
    <3> QED BY <1>6, <2>1, <2>4, <3>3 DEF SoFar
  <2>5. CASE v = w /\ ~pipe[w].deletes
    <3>1. SetSoFar(todo, c)
      BY <2>2, <2>5 DEF SoFar
    <3>2. /\ Tail(todo) \in {ToList, << >>} /\ c \in data'
          /\ Tail(todo) = << >> => c \in listed'
      <4>1. CASE todo = SetClusterData
        BY <1>1, <4>1, CommandFacts DEF Effect, ToList
      <4>2. CASE todo = ToList
        BY <1>1, <3>1, <4>2, CommandFacts DEF SetSoFar, Effect
      <4> QED BY <1>1, <3>1, <4>1, <4>2 DEF SetSoFar
    <3>3. SetSoFar(pipe[v].todo, pipe[v].on)'
      BY <1>3, <2>5, <3>2, CommandFacts DEF SetSoFar
    <3> QED BY <1>6, <2>1, <2>5, <3>3 DEF SoFar
  <2> QED BY <2>1, <2>3, <2>4, <2>5
<1>8. IntactsAre'
  <2> SUFFICES ASSUME NEW d \in intact
               PROVE  /\ On(d)' = {} => Matches(d)'
                      /\ \A v \in Callers : pipe'[v].on = d => pipe'[v].alone
    BY <1>1 DEF IntactsAre
  <2>1. \A v \in Callers : pipe'[v].on = d => pipe'[v].alone
    BY <1>6 DEF DataInv, IntactsAre
  <2>2. CASE d = c
    <3>1. w \in On(d)'
      BY <1>6, <2>2 DEF On
    <3> QED BY <2>1, <3>1
  <2>3. CASE d # c
    <3>1. On(d)' = On(d)
      BY <1>6 DEF On
    <3> QED BY <1>1, <2>1, <2>3, <3>1, EffectFacts
            DEF DataInv, DataTypeOK, IntactsAre, Matches
  <2> QED BY <2>1, <2>2, <2>3
<1>9. ReadersFind'
  <2> SUFFICES ASSUME NEW q \in Readers, reader[q].on \in Clusters, ~reader[q].excused
               PROVE  reader[q].on \in data'
    BY <1>1, <1>6 DEF DataInv, ReadersFind
  <2>1. reader[q].on \in intact \cap data
    BY DEF DataInv, ReadersFind
  <2>2. CASE reader[q].on # c
    BY <1>1, <2>1, <2>2, EffectFacts DEF DataInv
  <2>3. CASE reader[q].on = c
    <3>1. ~pipe[w].deletes /\ pipe[w].alone
      BY <2>1, <2>3 DEF DataInv, ReadersFind, IntactsAre
    <3>2. SetSoFar(todo, c)
      BY <1>1, <3>1 DEF DataInv, AlonesAre, SoFar
    <3> QED BY <1>1, <2>1, <2>3, <3>2, CommandFacts DEF SetSoFar, Effect, ToList
  <2> QED BY <2>2, <2>3
<1> QED BY <1>5, <1>7, <1>8, <1>9 DEF DataInv

LEMMA ExcuseFacts ==
  ASSUME DataTypeOK, NEW c \in Clusters, Excuse(c)
  PROVE  /\ reader' \in [Readers -> [on : Clusters, excused : BOOLEAN] \cup {Outside}]
         /\ \A q \in Readers : /\ reader'[q].on = reader[q].on
                               /\ reader[q].on = c => reader'[q].excused
                               /\ reader[q].on # c => reader'[q] = reader[q]
<1>1. ASSUME NEW q \in Readers
      PROVE  /\ reader'[q] \in [on : Clusters, excused : BOOLEAN] \cup {Outside}
             /\ reader'[q].on = reader[q].on
             /\ reader[q].on = c => reader'[q].excused
             /\ reader[q].on # c => reader'[q] = reader[q]
  <2>1. reader[q] \in [on : Clusters, excused : BOOLEAN] \cup {Outside}
    BY DEF DataTypeOK
  <2>2. CASE reader[q].on = c
    <3>1. reader[q] \in [on : Clusters, excused : BOOLEAN]
      BY <2>1, <2>2, ClustersAssumption DEF Outside
    <3>2. reader'[q] = [reader[q] EXCEPT !.excused = TRUE]
      BY <2>2 DEF Excuse
    <3> QED BY <2>2, <3>1, <3>2
  <2>3. CASE reader[q].on # c
    BY <2>1, <2>3 DEF Excuse
  <2> QED BY <2>2, <2>3
<1>2. reader' \in [Readers -> [on : Clusters, excused : BOOLEAN] \cup {Outside}]
  BY <1>1 DEF Excuse
<1> QED BY <1>1, <1>2

LEMMA SendKeeps ==
  ASSUME DataInv, NEW w \in Callers, NEW c \in Clusters, NEW commands, NEW deletes \in BOOLEAN,
         commands = IF deletes THEN DeleteCluster ELSE SetClusterData,
         Send(w, c, commands, deletes)
  PROVE  DataInv'
<1> DEFINE others == On(c)
           new == [on |-> c, todo |-> commands, deletes |-> deletes, alone |-> others = {}]
<1>1. /\ pipe[w] = NoPipe /\ w \notin others /\ UNCHANGED <<data, status, listed>>
      /\ intact' = IF others = {} THEN intact ELSE intact \ {c}
  BY ClustersAssumption DEF Send, On, NoPipe
<1>2. pipe' = [v \in Callers |-> IF v = w THEN new
                 ELSE IF v \in others THEN [pipe[v] EXCEPT !.alone = FALSE] ELSE pipe[v]]
  BY DEF Send
<1>3. new \in Pipes /\ pipe'[w] = new
  BY <1>2 DEF Pipes, Todos
<1>11. pipe'[w].on = c /\ pipe'[w].todo = commands
  BY <1>3
<1>12. pipe'[w].alone <=> others = {}
  <2>1. CASE others = {}
    <3>1. new = [on |-> c, todo |-> commands, deletes |-> deletes, alone |-> TRUE]
      BY <2>1
    <3> QED BY <1>3, <2>1, <3>1
  <2>2. CASE others # {}
    <3>1. new = [on |-> c, todo |-> commands, deletes |-> deletes, alone |-> FALSE]
      BY <2>2
    <3> QED BY <1>3, <2>2, <3>1
  <2> QED BY <2>1, <2>2
<1>13. pipe'[w].deletes <=> deletes
  BY <1>3
<1>4. ASSUME NEW v \in others
      PROVE  /\ v \in Callers /\ pipe'[v].on = c /\ ~pipe'[v].alone /\ pipe'[v] \in Pipes
             /\ pipe'[v].deletes <=> pipe[v].deletes
  <2>1. v \in Callers /\ v # w /\ pipe[v].on = c /\ pipe[v] \in Pipes
    BY <1>1, PipeFacts DEF On, DataInv
  <2>2. pipe'[v] = [pipe[v] EXCEPT !.alone = FALSE]
    BY <1>2, <2>1
  <2> QED BY <2>1, <2>2 DEF Pipes
<1>5. ASSUME NEW v \in Callers \ {w}, v \notin others
      PROVE  pipe'[v] = pipe[v] /\ pipe[v].on # c
  BY <1>2, <1>5 DEF On
<1>6. \/ /\ ~deletes /\ others = {} /\ reader' = reader
      \/ /\ deletes \/ others # {}
         /\ Excuse(c)
  BY DEF Send
<1>7. DataTypeOK'
  <2>1. pipe' \in [Callers -> Pipes \cup {NoPipe}]
    <3>1. ASSUME NEW v \in Callers
          PROVE  pipe'[v] \in Pipes \cup {NoPipe}
      BY <1>3, <1>4, <1>5 DEF DataInv, DataTypeOK
    <3> QED BY <1>2, <3>1
  <2>2. reader' \in [Readers -> [on : Clusters, excused : BOOLEAN] \cup {Outside}]
    BY <1>6, ExcuseFacts DEF DataInv, DataTypeOK
  <2> QED BY <1>1, <2>1, <2>2 DEF DataInv, DataTypeOK
<1>8. AlonesAre'
  <2> SUFFICES ASSUME NEW v \in Callers, pipe'[v].on \in Clusters, pipe'[v].alone
               PROVE  /\ SoFar(pipe[v])'
                      /\ \A u \in Callers : pipe'[u].on = pipe'[v].on => u = v
    BY DEF AlonesAre
  <2>1. CASE v = w
    <3>1. others = {}
      BY <1>12, <2>1
    <3>2. \A u \in Callers : pipe'[u].on = pipe'[v].on => u = v
      BY <1>3, <1>5, <2>1, <3>1
    <3>3. c \in intact' => Matches(c)'
      BY <1>1, <3>1 DEF DataInv, IntactsAre, Matches
    <3>4. SetSoFar(SetClusterData, c)' /\ DeletedSoFar(DeleteCluster, c)'
      BY <3>3, CommandFacts DEF SetSoFar, DeletedSoFar, Matches
    <3>5. SoFar(pipe[v])'
      <4>1. CASE deletes
        BY <1>11, <1>13, <2>1, <3>4, <4>1 DEF SoFar
      <4>2. CASE ~deletes
        BY <1>11, <1>13, <2>1, <3>4, <4>2 DEF SoFar
      <4> QED BY <4>1, <4>2
    <3> QED BY <3>2, <3>5
  <2>2. CASE v # w
    <3>1. v \notin others
      BY <1>4
    <3>2. pipe'[v] = pipe[v] /\ pipe[v].on # c
      BY <1>5, <2>2, <3>1
    <3>3. SoFar(pipe[v]) /\ \A u \in Callers : pipe[u].on = pipe[v].on => u = v
      BY <3>2 DEF DataInv, AlonesAre
    <3>4. SoFar(pipe[v])'
      BY <1>1, <3>2, <3>3 DEF SoFar, SetSoFar, DeletedSoFar, Matches
    <3>5. ASSUME NEW u \in Callers, pipe'[u].on = pipe'[v].on
          PROVE  u = v
      BY <1>3, <1>4, <1>5, <3>2, <3>3, <3>5
    <3> QED BY <3>4, <3>5
  <2> QED BY <2>1, <2>2
<1>9. IntactsAre'
  <2> SUFFICES ASSUME NEW d \in intact'
               PROVE  /\ On(d)' = {} => Matches(d)'
                      /\ \A v \in Callers : pipe'[v].on = d => pipe'[v].alone
    BY DEF IntactsAre
  <2>1. CASE d = c
    <3>1. others = {}
      BY <1>1, <2>1
    <3>2. w \in On(d)'
      BY <1>3, <2>1 DEF On
    <3> QED BY <1>12, <1>5, <2>1, <3>1, <3>2
  <2>2. CASE d # c
    <3>1. \A v \in Callers : pipe'[v].on = d <=> pipe[v].on = d
      <4>1. pipe[w].on # d
        BY <1>1, ClustersAssumption DEF NoPipe, DataInv, DataTypeOK
      <4> QED BY <1>3, <1>4, <1>5, <2>2, <4>1 DEF On
    <3>2. On(d)' = On(d)
      BY <3>1 DEF On
    <3>3. ASSUME NEW v \in Callers, pipe'[v].on = d
          PROVE  pipe'[v].alone
      BY <1>1, <1>3, <1>4, <1>5, <2>2, <3>1, <3>3 DEF DataInv, IntactsAre
    <3> QED BY <1>1, <3>2, <3>3 DEF DataInv, IntactsAre, Matches
  <2> QED BY <2>1, <2>2
<1>10. ReadersFind'
  <2> SUFFICES ASSUME NEW q \in Readers, reader'[q].on \in Clusters, ~reader'[q].excused
               PROVE  /\ reader'[q].on \in intact' \cap data'
                      /\ \A v \in Callers : pipe'[v].on = reader'[q].on => ~pipe'[v].deletes
    BY DEF ReadersFind
  <2>1. reader'[q] = reader[q]
    BY <1>6, ExcuseFacts DEF DataInv
  <2>2. /\ reader[q].on \in intact \cap data
        /\ \A v \in Callers : pipe[v].on = reader[q].on => ~pipe[v].deletes
    BY <2>1 DEF DataInv, ReadersFind
  <2>3. reader[q].on = c => ~deletes /\ others = {}
    BY <1>6, <2>1, ExcuseFacts DEF DataInv
  <2>4. reader'[q].on \in intact' \cap data'
    BY <1>1, <2>1, <2>2, <2>3
  <2>5. ASSUME NEW v \in Callers, pipe'[v].on = reader'[q].on
        PROVE  ~pipe'[v].deletes
    BY <1>3, <1>4, <1>5, <2>1, <2>2, <2>3, <2>5
  <2> QED BY <2>4, <2>5
<1> QED BY <1>7, <1>8, <1>9, <1>10 DEF DataInv

LEMMA CommandFailsKeeps ==
  ASSUME DataInv, NEW w \in Callers, CommandFails(w)
  PROVE  DataInv'
<1> DEFINE c == pipe[w].on
<1>1. /\ pipe[w] \in Pipes /\ c \in Clusters /\ pipe[w].todo \in Todos /\ pipe[w].todo # << >>
      /\ Effect(Head(pipe[w].todo), c) \/ UNCHANGED <<data, status, listed>>
      /\ intact' = intact \ {c} /\ Excuse(c)
  BY PipeFacts DEF CommandFails, Pending, DataInv, Pipes
<1>2. PICK rest \in {Tail(pipe[w].todo), << >>, Sent(w)} :
        pipe' = [pipe EXCEPT ![w].todo = rest, ![w].alone = FALSE]
  BY DEF CommandFails
<1>3. rest \in Todos
  BY <1>1, TodoKept DEF Sent, Todos
<1>4. /\ pipe'[w] \in Pipes /\ pipe'[w].on = c /\ ~pipe'[w].alone
      /\ pipe'[w].deletes <=> pipe[w].deletes
  <2>1. pipe'[w] = [pipe[w] EXCEPT !.todo = rest, !.alone = FALSE]
    BY <1>2 DEF DataInv, DataTypeOK
  <2> QED BY <1>1, <1>3, <2>1 DEF Pipes
<1>5. \A v \in Callers \ {w} : pipe'[v] = pipe[v]
  BY <1>2 DEF DataInv, DataTypeOK
<1>6. /\ data' \subseteq Clusters /\ status' \subseteq Clusters /\ listed' \subseteq Clusters
      /\ \A d \in Clusters \ {c} : (d \in data' <=> d \in data) /\ (d \in listed' <=> d \in listed)
  BY <1>1, EffectFacts DEF DataInv, DataTypeOK
<1>7. DataTypeOK'
  <2>1. pipe' \in [Callers -> Pipes \cup {NoPipe}]
    BY <1>2, <1>4, <1>5 DEF DataInv, DataTypeOK
  <2>2. reader' \in [Readers -> [on : Clusters, excused : BOOLEAN] \cup {Outside}]
    BY <1>1, ExcuseFacts DEF DataInv
  <2> QED BY <1>1, <1>6, <2>1, <2>2 DEF DataInv, DataTypeOK
<1>8. AlonesAre'
  <2> SUFFICES ASSUME NEW v \in Callers, pipe'[v].on \in Clusters, pipe'[v].alone
               PROVE  /\ SoFar(pipe[v])'
                      /\ \A u \in Callers : pipe'[u].on = pipe'[v].on => u = v
    BY DEF AlonesAre
  <2>1. v # w /\ pipe'[v] = pipe[v]
    BY <1>4, <1>5
  <2>2. SoFar(pipe[v]) /\ \A u \in Callers : pipe[u].on = pipe[v].on => u = v
    BY <2>1 DEF DataInv, AlonesAre
  <2>3. pipe[v].on # c
    BY <2>1, <2>2
  <2>4. /\ pipe[v].on \in intact' <=> pipe[v].on \in intact
        /\ pipe[v].on \in data' <=> pipe[v].on \in data
        /\ pipe[v].on \in listed' <=> pipe[v].on \in listed
    BY <1>1, <1>6, <2>1, <2>3
  <2>5. SoFar(pipe[v])'
    BY <2>1, <2>2, <2>4 DEF SoFar, SetSoFar, DeletedSoFar, Matches
  <2> QED BY <1>4, <1>5, <2>1, <2>2, <2>5
<1>9. IntactsAre'
  <2> SUFFICES ASSUME NEW d \in intact, d # c
               PROVE  /\ On(d)' = {} => Matches(d)'
                      /\ \A v \in Callers : pipe'[v].on = d => pipe'[v].alone
    BY <1>1 DEF IntactsAre
  <2>1. On(d)' = On(d)
    BY <1>4, <1>5 DEF On
  <2>2. Matches(d)' <=> Matches(d)
    BY <1>6 DEF DataInv, DataTypeOK, Matches
  <2> QED BY <1>4, <1>5, <2>1, <2>2 DEF DataInv, IntactsAre
<1>10. ReadersFind'
  <2> SUFFICES ASSUME NEW q \in Readers, reader'[q].on \in Clusters, ~reader'[q].excused
               PROVE  /\ reader'[q].on \in intact' \cap data'
                      /\ \A v \in Callers : pipe'[v].on = reader'[q].on => ~pipe'[v].deletes
    BY DEF ReadersFind
  <2>1. reader[q].on # c /\ reader'[q] = reader[q]
    BY <1>1, ExcuseFacts DEF DataInv
  <2> QED BY <1>1, <1>4, <1>5, <1>6, <2>1 DEF DataInv, ReadersFind
<1> QED BY <1>7, <1>8, <1>9, <1>10 DEF DataInv

LEMMA ExecutedKeeps ==
  ASSUME DataInv, NEW w \in Callers, Executed(w)
  PROVE  DataInv'
<1> DEFINE c == pipe[w].on
<1>1. /\ pipe[w] \in Pipes /\ c \in Clusters /\ pipe[w].todo = << >>
      /\ UNCHANGED <<data, status, listed, reader>>
      /\ pipe' = [pipe EXCEPT ![w] = NoPipe]
  BY PipeFacts DEF Executed, DataInv, Pipes
<1>2. intact' = IF pipe[w].alone THEN intact \cup {c} ELSE intact
  BY DEF Executed
<1>3. pipe'[w] = NoPipe /\ pipe'[w].on \notin Clusters /\ \A v \in Callers \ {w} : pipe'[v] = pipe[v]
  BY <1>1, ClustersAssumption DEF DataInv, DataTypeOK, NoPipe
<1>4. DataTypeOK'
  BY <1>1, <1>2 DEF DataInv, DataTypeOK
<1>5. pipe[w].alone => Matches(c) /\ \A v \in Callers : pipe[v].on = c => v = w
  BY <1>1, CommandFacts DEF DataInv, AlonesAre, SoFar, SetSoFar, DeletedSoFar, Matches
<1>6. AlonesAre'
  <2> SUFFICES ASSUME NEW v \in Callers, pipe'[v].on \in Clusters, pipe'[v].alone
               PROVE  /\ SoFar(pipe[v])'
                      /\ \A u \in Callers : pipe'[u].on = pipe'[v].on => u = v
    BY DEF AlonesAre
  <2>1. v # w /\ pipe'[v] = pipe[v]
    BY <1>3
  <2>2. SoFar(pipe[v]) /\ \A u \in Callers : pipe[u].on = pipe[v].on => u = v
    BY <2>1 DEF DataInv, AlonesAre
  <2>3. pipe[v].on \in intact' <=> pipe[v].on \in intact
    BY <1>2, <2>1, <2>2
  <2>4. SoFar(pipe[v])'
    BY <1>1, <2>1, <2>2, <2>3 DEF SoFar, SetSoFar, DeletedSoFar, Matches
  <2> QED BY <1>3, <2>1, <2>2, <2>4
<1>7. IntactsAre'
  <2> SUFFICES ASSUME NEW d \in intact'
               PROVE  /\ On(d)' = {} => Matches(d)'
                      /\ \A v \in Callers : pipe'[v].on = d => pipe'[v].alone
    BY DEF IntactsAre
  <2>1. d \in Clusters
    BY <1>4 DEF DataTypeOK
  <2>2. CASE d = c
    <3>1. pipe[w].alone
      BY <1>1, <1>2, <2>2 DEF DataInv, IntactsAre
    <3> QED BY <1>1, <1>3, <1>5, <2>1, <2>2, <3>1 DEF Matches
  <2>3. CASE d # c
    <3>1. On(d)' = On(d)
      BY <1>3, <2>1, <2>3 DEF On
    <3> QED BY <1>1, <1>2, <1>3, <2>1, <2>3, <3>1 DEF DataInv, IntactsAre, Matches
  <2> QED BY <2>2, <2>3
<1>8. ReadersFind'
  BY <1>1, <1>2, <1>3 DEF DataInv, ReadersFind
<1> QED BY <1>4, <1>6, <1>7, <1>8 DEF DataInv

LEMMA ReaderKeeps ==
  ASSUME DataInv, UNCHANGED <<data, listed, pipe, intact>>,
         status' \subseteq Clusters,
         reader' \in [Readers -> [on : Clusters, excused : BOOLEAN] \cup {Outside}], ReadersFind'
  PROVE  DataInv'
<1>1. DataTypeOK'
  BY DEF DataInv, DataTypeOK
<1>2. AlonesAre'
  BY DEF DataInv, AlonesAre, SoFar, SetSoFar, DeletedSoFar, Matches
<1>3. IntactsAre'
  BY DEF DataInv, IntactsAre, On, Matches
<1> QED BY <1>1, <1>2, <1>3 DEF DataInv

LEMMA DataStep ==
  ASSUME DataInv, [StoreNext]_storeVars
  PROVE  DataInv'
<1>1. CASE UNCHANGED dataVars
  BY <1>1, ReaderKeeps DEF dataVars, DataInv, DataTypeOK, ReadersFind
<1>2. ASSUME NEW w \in Callers, NEW c \in Clusters,
             Send(w, c, SetClusterData, FALSE) \/ Send(w, c, DeleteCluster, TRUE)
      PROVE  DataInv'
  <2>1. CASE Send(w, c, SetClusterData, FALSE)
    BY <2>1, SendKeeps
  <2>2. CASE Send(w, c, DeleteCluster, TRUE)
    BY <2>2, SendKeeps
  <2> QED BY <1>2, <2>1, <2>2
<1>3. ASSUME NEW c \in Clusters, SetClusterStatus(c)
      PROVE  DataInv'
  BY <1>3, ReaderKeeps DEF SetClusterStatus, DataInv, DataTypeOK, ReadersFind
<1>4. ASSUME NEW c \in Clusters, NEW q \in Readers, GetClusterIDs(q, c)
      PROVE  DataInv'
  <2> DEFINE late == c \notin intact \/ Deleting(c)
             new == [on |-> c, excused |-> late]
  <2>1. /\ reader' = [reader EXCEPT ![q] = new] /\ c \in listed
        /\ UNCHANGED <<data, status, listed, pipe, intact>>
    BY <1>4 DEF GetClusterIDs
  <2>2. reader' \in [Readers -> [on : Clusters, excused : BOOLEAN] \cup {Outside}]
    BY <2>1 DEF DataInv, DataTypeOK
  <2>3. reader'[q] = new /\ \A p \in Readers \ {q} : reader'[p] = reader[p]
    BY <2>1 DEF DataInv, DataTypeOK
  <2>4. ~late => /\ c \in intact \cap data
                 /\ \A w \in Callers : pipe[w].on = c => ~pipe[w].deletes
    <3> SUFFICES ASSUME ~late
                 PROVE  /\ c \in data
                        /\ \A w \in Callers : pipe[w].on = c => ~pipe[w].deletes
      OBVIOUS
    <3>1. \A w \in Callers : pipe[w].on = c => ~pipe[w].deletes
      BY DEF Deleting, On
    <3>2. CASE On(c) = {}
      BY <2>1, <3>1, <3>2 DEF DataInv, IntactsAre, Matches
    <3>3. CASE On(c) # {}
      <4>1. PICK w \in Callers : pipe[w].on = c
        BY <3>3 DEF On
      <4>2. pipe[w].alone
        BY <4>1 DEF DataInv, IntactsAre
      <4>3. SetSoFar(pipe[w].todo, c)
        BY <3>1, <4>1, <4>2 DEF DataInv, AlonesAre, SoFar
      <4> QED BY <2>1, <3>1, <4>3 DEF SetSoFar, Matches
    <3> QED BY <3>1, <3>2, <3>3
  <2>5. ReadersFind'
    <3> SUFFICES ASSUME NEW p \in Readers, reader'[p].on \in Clusters, ~reader'[p].excused
                 PROVE  /\ reader'[p].on \in intact \cap data
                        /\ \A w \in Callers : pipe[w].on = reader'[p].on => ~pipe[w].deletes
      BY <2>1 DEF ReadersFind
    <3>1. CASE p = q
      <4>1. ~late /\ reader'[p].on = c
        <5>1. CASE late
          <6>1. new = [on |-> c, excused |-> TRUE]
            BY <5>1
          <6> QED BY <2>3, <3>1, <6>1
        <5>2. CASE ~late
          BY <2>3, <3>1, <5>2
        <5> QED BY <5>1, <5>2
      <4> QED BY <2>4, <4>1
    <3>2. CASE p # q
      BY <2>3, <3>2 DEF DataInv, ReadersFind
    <3> QED BY <3>1, <3>2
  <2> QED BY <2>1, <2>2, <2>5, ReaderKeeps DEF DataInv, DataTypeOK
<1>5. ASSUME NEW q \in Readers, GetClusterData(q) \/ ClusterNotFound(q)
      PROVE  DataInv'
  <2>1. UNCHANGED <<data, status, listed, pipe, intact>> /\ reader' = [reader EXCEPT ![q] = Outside]
    BY <1>5 DEF GetClusterData, ClusterNotFound, Passed
  <2>2. Outside.on \notin Clusters
    BY ClustersAssumption DEF Outside
  <2> QED BY <2>1, <2>2, ReaderKeeps DEF DataInv, DataTypeOK, ReadersFind
<1>6. CASE DataNext
  BY <1>2, <1>3, <1>4, <1>5, <1>6, ExecuteKeeps, CommandFailsKeeps, ExecutedKeeps DEF DataNext
<1> QED BY <1>1, <1>6 DEF StoreNext, storeVars

-----------------------------------------------------------------------------
(* The theorems.                                                           *)

THEOREM Invariant == StoreSpec => []DataInv
<1>1. StoreInit => DataInv
  BY ClustersAssumption
     DEF StoreInit, DataInv, DataTypeOK, AlonesAre, IntactsAre, ReadersFind, NoPipe, Outside,
         Matches
<1>2. DataInv /\ [StoreNext]_storeVars => DataInv'
  BY DataStep
<1> QED BY <1>1, <1>2, PTL DEF StoreSpec

\* Every variable of the store stays in its type, the tokens' included.
THEOREM StoreTypeCorrect == StoreSpec => []StoreTypeOK
<1>1. StoreInit => TokensInv
  BY DEF StoreInit, RedisInit, Promise!Init, Promise!NoCall, TokensInv, RedisTypeOK, CallsKnown
<1>2. TokensInv /\ [StoreNext]_storeVars => TokensInv'
  BY TokensStep DEF StoreNext, storeVars
<1>3. TokensInv /\ DataInv => StoreTypeOK
  BY DEF TokensInv, DataInv, DataTypeOK, StoreTypeOK
<1> QED BY <1>1, <1>2, <1>3, Invariant, PTL DEF StoreSpec

\* A cluster whose last pipelines neither met nor failed has data and id or
\* neither, between pipelines.
THEOREM PipelinesKeepIds == StoreSpec => []IdsMatchData
<1>1. DataInv => IdsMatchData
  BY DEF DataInv, IntactsAre, IdsMatchData, Matches
<1> QED BY <1>1, Invariant, PTL

\* A reader that finds no data under an id has a deletion or a disturbed
\* pipeline to blame.
THEOREM ReadersFindData == StoreSpec => MissesOnlyDeleted
<1>1. DataInv /\ [StoreNext]_storeVars =>
        [\A q \in Readers : ClusterNotFound(q) => reader[q].excused]_storeVars
  BY DEF DataInv, ReadersFind, ClusterNotFound
<1> QED BY <1>1, Invariant, PTL DEF StoreSpec, MissesOnlyDeleted

-----------------------------------------------------------------------------
(* The promise of the tokens.                                              *)

\* What was redeemed or deleted is never again as it was issued: only the
\* creation of a token stores it so.  This holds however calls overlap.
Spent == used \cup deleted
SpentNotFresh == \A t \in Spent : key[t] # "fresh"

LEMMA SpentStep ==
  ASSUME TokensInv, SpentNotFresh, [RedisNext]_redisVars
  PROVE  SpentNotFresh'
<1> USE DEF TokensInv, RedisTypeOK, SpentNotFresh, Spent
<1>1. ASSUME NEW t \in Tokens, CreateToken(t) \/ Passes(t) \/ Evict(t)
      PROVE  SpentNotFresh'
  <2>1. CASE CreateToken(t)
    BY <2>1 DEF CreateToken, Promise!Create
  <2>2. CASE Passes(t)
    BY <2>2 DEF Passes, Promise!Expire
  <2>3. CASE Evict(t)
    BY <2>3 DEF Evict, DropKey, history
  <2> QED BY <1>1, <2>1, <2>2, <2>3
<1>2. ASSUME NEW r \in Clients, DeleteExpired(r)
      PROVE  SpentNotFresh'
  BY <1>2 DEF DeleteExpired, DropKey, history
<1>3. ASSUME NEW r \in Clients, SetUsed(r)
      PROVE  SpentNotFresh'
  <2>1. call[r].on \in Tokens
    BY <1>3 DEF SetUsed, CallsKnown
  <2> QED BY <1>3, <2>1 DEF SetUsed, MarkUsed
<1>4. ASSUME NEW r \in Clients, DeleteScreenToken(r)
      PROVE  SpentNotFresh'
  <2>1. call[r].on \in Tokens
    BY <1>4 DEF DeleteScreenToken, CallsKnown
  <2> QED BY <1>4, <2>1 DEF DeleteScreenToken, DropKey
<1>5. ASSUME UNCHANGED <<key, used, deleted>>
      PROVE  SpentNotFresh'
  BY <1>5
<1>6. ASSUME NEW r \in Clients,
             \/ \E o \in Promise!Ops, t \in Tokens : Calling(r, o, t)
             \/ Get(r) \/ Decide(r) \/ ReadTTL(r) \/ Returning(r)
      PROVE  UNCHANGED <<key, used, deleted>>
  BY <1>6 DEF Calling, Promise!Begin, Get, Decide, ReadTTL, Returning, Promise!Return, history
<1> QED
  BY <1>1, <1>2, <1>3, <1>4, <1>5, <1>6 DEF RedisNext, redisVars, history

\* No two calls on the same token are under way at once.
NoOverlap ==
  \A q, r \in Clients :
    at[q] # "idle" /\ at[r] # "idle" /\ call[q].on = call[r].on => q = r

\* What a call knows of its token, from what it has read, while no other call
\* changes it.
Knows(r) ==
  at[r] # "idle" =>
    /\ at[r] \in {"GET", "decide"} => call[r].op \in {"redeem", "validate"}
    /\ at[r] \in {"DEL expired", "TTL", "SET"} => call[r].op = "redeem"
    /\ at[r] = "DEL" => call[r].op = "delete"
    /\ call[r].live \/ call[r].on \in expired
    /\ at[r] \in {"decide", "TTL", "SET"} =>
         \/ got[r] = "fresh" /\ call[r].on \notin Spent
         \/ got[r] = "used" /\ at[r] = "decide" /\ call[r].on \in used \ deleted
    /\ at[r] = "DEL expired" => call[r].on \in expired
    /\ at[r] \in {"TTL", "SET"} => call[r].live

\* What a key says of its token.
KeyTells(t) ==
  /\ key[t] = "absent" => t \in deleted \cup expired \cup used
  /\ key[t] = "used" => t \in used \ deleted

SerialInv == (\A r \in Clients : Knows(r)) /\ (\A t \in issued : KeyTells(t))

\* A step of one client leaves what the others know.
LEMMA OthersKnow ==
  ASSUME SerialInv, NEW q \in Clients, expired \subseteq expired',
         \A r \in Clients \ {q} :
           /\ at'[r] = at[r] /\ call'[r] = call[r] /\ got'[r] = got[r]
           /\ at[r] # "idle" => /\ call[r].on \in used' <=> call[r].on \in used
                                /\ call[r].on \in deleted' <=> call[r].on \in deleted
  PROVE  \A r \in Clients \ {q} : Knows(r)'
BY DEF SerialInv, Knows, Spent

\* The step that ends a call, after what it did to its token.
LEMMA FinishSerial ==
  ASSUME TokensInv, SerialInv, NoOverlap, NEW r \in Clients, at[r] # "idle",
         NEW a, Finish(r, a), UNCHANGED <<issued, expired>>, NEW on, on = call[r].on,
         used' \ {on} = used \ {on}, deleted' \ {on} = deleted \ {on},
         \A t \in Tokens \ {on} : key'[t] = key[t], KeyTells(on)'
  PROVE  SerialInv'
<1>1. /\ at'[r] = "idle"
      /\ \A q \in Clients \ {r} : at'[q] = at[q] /\ call'[q] = call[q] /\ got'[q] = got[q]
  BY DEF Finish, Goto, Promise!Answer, TokensInv, RedisTypeOK
<1>2. \A q \in Clients \ {r} : at[q] # "idle" => call[q].on # call[r].on
  BY DEF NoOverlap
<1>3. \A q \in Clients \ {r} : Knows(q)'
  BY <1>1, <1>2, OthersKnow
<1>4. Knows(r)'
  BY <1>1 DEF Knows
<1>5. ASSUME NEW t \in issued
      PROVE  KeyTells(t)'
  <2>1. CASE t = on
    BY <2>1
  <2>2. CASE t # on
    BY <2>2 DEF SerialInv, KeyTells, TokensInv, RedisTypeOK
  <2> QED BY <2>1, <2>2
<1> QED BY <1>3, <1>4, <1>5 DEF SerialInv

LEMMA UnreachableSerial ==
  ASSUME TokensInv, SerialInv, NoOverlap, NEW r \in Clients, at[r] # "idle",
         Unreachable(r), UNCHANGED <<issued, expired>>, NEW on, on = call[r].on,
         used' \ {on} = used \ {on}, deleted' \ {on} = deleted \ {on},
         \A t \in Tokens \ {on} : key'[t] = key[t], KeyTells(on)'
  PROVE  SerialInv'
BY FinishSerial DEF Unreachable

LEMMA SerialStep ==
  ASSUME TokensInv, SpentNotFresh, SerialInv, NoOverlap, [RedisNext]_redisVars
  PROVE  SerialInv'
<1>1. ASSUME NEW t \in Tokens, CreateToken(t)
      PROVE  SerialInv'
  <2>1. /\ key' = [key EXCEPT ![t] = "fresh"] /\ issued' = issued \cup {t}
        /\ UNCHANGED <<at, got, call, expired, used, deleted>>
    BY <1>1 DEF CreateToken, Promise!Create, localVars
  <2>2. \A r \in Clients : Knows(r)'
    BY <2>1 DEF SerialInv, Knows, Spent
  <2>3. \A u \in issued' : KeyTells(u)'
    BY <2>1 DEF SerialInv, KeyTells, TokensInv, RedisTypeOK
  <2> QED BY <2>2, <2>3 DEF SerialInv
<1>2. ASSUME NEW t \in Tokens, Passes(t)
      PROVE  SerialInv'
  BY <1>2 DEF Passes, Promise!Expire, localVars, SerialInv, Knows, KeyTells, Spent
<1>3. ASSUME NEW t \in Tokens, Evict(t)
      PROVE  SerialInv'
  BY <1>3 DEF Evict, DropKey, localVars, history, SerialInv, Knows, KeyTells, Spent,
              TokensInv, RedisTypeOK
<1>4. ASSUME NEW r \in Clients
      PROVE  /\ call[r].op # "none" => call[r].on \in Tokens /\ call[r].on \in issued
             /\ at[r] # "idle" => /\ call[r].on \in Tokens /\ KeyTells(call[r].on)
  BY DEF TokensInv, RedisTypeOK, CallsKnown, SerialInv
<1>5. ASSUME NEW r \in Clients, NEW o \in Promise!Ops, NEW t \in Tokens, Calling(r, o, t)
      PROVE  SerialInv'
  <2>1. /\ UNCHANGED <<key, issued, expired, used, deleted, got>>
        /\ \A q \in Clients \ {r} : at'[q] = at[q] /\ call'[q] = call[q]
        /\ at'[r] = IF o = "delete" THEN "DEL" ELSE "GET"
        /\ call'[r] = [op |-> o, on |-> t, live |-> t \notin expired, ans |-> "none"]
    BY <1>5 DEF Calling, Promise!Begin, Goto, TokensInv, RedisTypeOK
  <2>2. Knows(r)'
    <3>1. call'[r].op = o /\ call'[r].on = t /\ expired' = expired
      BY <2>1
    <3>2. call'[r].live \/ t \in expired
      <4>1. CASE t \notin expired
        <5>1. call'[r] = [op |-> o, on |-> t, live |-> TRUE, ans |-> "none"]
          BY <2>1, <4>1
        <5> QED BY <5>1
      <4> QED BY <4>1
    <3>3. o = "delete" => at'[r] = "DEL"
      BY <2>1
    <3>4. o # "delete" => at'[r] = "GET" /\ o \in {"redeem", "validate"}
      BY <2>1 DEF Promise!Ops
    <3> QED BY <3>1, <3>2, <3>3, <3>4 DEF Knows
  <2>3. \A q \in Clients \ {r} : Knows(q)'
    BY <2>1, OthersKnow
  <2> QED BY <2>1, <2>2, <2>3 DEF SerialInv, KeyTells
<1>6. ASSUME NEW r \in Clients, at[r] # "idle", NEW a, Finish(r, a) \/ Unreachable(r),
             UNCHANGED <<key, history>>
      PROVE  SerialInv'
  <2>1. PICK on : on = call[r].on
    OBVIOUS
  <2>2. KeyTells(on)
    BY <1>4, <1>6, <2>1
  <2>3. KeyTells(on)'
    BY <1>6, <2>2 DEF KeyTells, history
  <2> QED BY <1>6, <2>1, <2>3, FinishSerial, UnreachableSerial DEF history
\* A command between the first and the last of a call.
<1>7. ASSUME NEW r \in Clients, at[r] # "idle", UNCHANGED <<key, history, call>>,
             NEW next, Goto(r, next), \A q \in Clients \ {r} : got'[q] = got[q], Knows(r)'
      PROVE  SerialInv'
  <2>1. \A q \in Clients \ {r} : at'[q] = at[q]
    BY <1>7 DEF Goto, TokensInv, RedisTypeOK
  <2>2. \A q \in Clients \ {r} : Knows(q)'
    BY <1>7, <2>1, OthersKnow DEF history
  <2> QED BY <1>7, <2>2 DEF SerialInv, KeyTells, history
<1>8. ASSUME NEW r \in Clients, Get(r)
      PROVE  SerialInv'
  <2>1. at[r] = "GET" /\ UNCHANGED <<key, ttl, history>>
    BY <1>8 DEF Get
  <2>2. CASE Finish(r, "refused") \/ Unreachable(r)
    BY <1>6, <2>1, <2>2
  <2>3. CASE /\ key[call[r].on] # "absent" /\ got' = [got EXCEPT ![r] = key[call[r].on]]
             /\ Goto(r, "decide") /\ UNCHANGED <<newTTL, call>>
    <3>1. \/ key[call[r].on] = "fresh" /\ call[r].on \notin Spent
          \/ key[call[r].on] = "used" /\ call[r].on \in used \ deleted
      BY <1>4, <2>1, <2>3 DEF KeyTells, SpentNotFresh, TokensInv, RedisTypeOK
    <3>2. /\ at'[r] = "decide" /\ got'[r] = key[call[r].on]
          /\ \A q \in Clients \ {r} : got'[q] = got[q]
      BY <2>3 DEF Goto, TokensInv, RedisTypeOK
    <3>3. Knows(r)'
      <4>1. /\ call[r].op \in {"redeem", "validate"}
            /\ call[r].live \/ call[r].on \in expired
            /\ call' = call /\ UNCHANGED <<used, deleted, expired>>
        BY <2>1, <2>3 DEF SerialInv, Knows, history
      <4>2. \/ got'[r] = "fresh" /\ call'[r].on \notin Spent'
            \/ got'[r] = "used" /\ call'[r].on \in used' \ deleted'
        BY <3>1, <3>2, <4>1 DEF Spent
      <4> QED BY <3>2, <4>1, <4>2 DEF Knows
    <3> QED BY <1>7, <2>1, <2>3, <3>2, <3>3
  <2> QED BY <1>8, <2>2, <2>3 DEF Get
<1>9. ASSUME NEW r \in Clients, Decide(r)
      PROVE  SerialInv'
  <2>1. at[r] = "decide" /\ UNCHANGED <<key, ttl, history>>
    BY <1>9 DEF Decide
  <2>2. CASE \E a : Finish(r, a)
    BY <1>6, <2>1, <2>2
  <2>3. CASE /\ call[r].op = "redeem" /\ (call[r].on \in expired \/ ~Refuses(r))
             /\ Goto(r, IF call[r].on \in expired THEN "DEL expired" ELSE "TTL")
             /\ UNCHANGED <<got, newTTL, call>>
    <3>1. at'[r] = IF call[r].on \in expired THEN "DEL expired" ELSE "TTL"
      BY <2>3 DEF Goto, TokensInv, RedisTypeOK
    <3>2. Knows(r)'
      BY <2>1, <2>3, <3>1 DEF SerialInv, Knows, Spent, Refuses, history
    <3> QED BY <1>7, <2>1, <2>3, <3>2
  <2> QED BY <1>9, <2>2, <2>3 DEF Decide
<1>10. ASSUME NEW r \in Clients, DeleteExpired(r)
       PROVE  SerialInv'
  <2>1. /\ at[r] = "DEL expired" /\ UNCHANGED history /\ Finish(r, "refused")
        /\ DropKey(call[r].on) \/ UNCHANGED <<key, ttl>>
    BY <1>10 DEF DeleteExpired
  <2>2. PICK on : on = call[r].on
    OBVIOUS
  <2>3. on \in Tokens /\ KeyTells(on) /\ on \in expired
    BY <1>4, <2>1, <2>2 DEF SerialInv, Knows
  <2>4. KeyTells(on)' /\ \A t \in Tokens \ {on} : key'[t] = key[t]
    BY <2>1, <2>2, <2>3 DEF DropKey, KeyTells, history, TokensInv, RedisTypeOK
  <2> QED BY <2>1, <2>2, <2>4, FinishSerial DEF history
<1>11. ASSUME NEW r \in Clients, ReadTTL(r)
       PROVE  SerialInv'
  <2>1. at[r] = "TTL" /\ Goto(r, "SET") /\ UNCHANGED <<key, got, call, history>>
    BY <1>11 DEF ReadTTL
  <2>2. at'[r] = "SET"
    BY <2>1 DEF Goto, TokensInv, RedisTypeOK
  <2>3. Knows(r)'
    BY <2>1, <2>2 DEF SerialInv, Knows, Spent, history
  <2> QED BY <1>7, <2>1, <2>3
<1>12. ASSUME NEW r \in Clients, SetUsed(r)
       PROVE  SerialInv'
  <2>1. at[r] = "SET" /\ UNCHANGED <<issued, expired, deleted>>
    BY <1>12 DEF SetUsed
  <2>2. PICK on : on = call[r].on
    OBVIOUS
  <2>3. on \in Tokens /\ KeyTells(on) /\ on \notin Spent
    BY <1>4, <2>1, <2>2 DEF SerialInv, Knows
  <2>4. Finish(r, "ok") \/ Unreachable(r)
    BY <1>12 DEF SetUsed
  <2>5. CASE MarkUsed(r)
    <3>1. KeyTells(on)' /\ \A t \in Tokens \ {on} : key'[t] = key[t]
      BY <2>1, <2>2, <2>3, <2>5 DEF MarkUsed, KeyTells, Spent, TokensInv, RedisTypeOK
    <3>2. used' \ {on} = used \ {on}
      BY <2>2, <2>5 DEF MarkUsed
    <3> QED BY <2>1, <2>2, <2>4, <3>1, <3>2, FinishSerial, UnreachableSerial
  <2>6. CASE Unreachable(r) /\ UNCHANGED <<key, ttl, used>>
    BY <1>6, <2>1, <2>6 DEF history
  <2> QED BY <1>12, <2>5, <2>6 DEF SetUsed
<1>13. ASSUME NEW r \in Clients, DeleteScreenToken(r)
       PROVE  SerialInv'
  <2>1. at[r] = "DEL" /\ UNCHANGED <<issued, expired, used>>
    BY <1>13 DEF DeleteScreenToken
  <2>2. PICK on : on = call[r].on
    OBVIOUS
  <2>3. on \in Tokens
    BY <1>4, <2>1, <2>2
  <2>4. Finish(r, "ok") \/ Unreachable(r)
    BY <1>13 DEF DeleteScreenToken
  <2>5. CASE DropKey(on) /\ deleted' = deleted \cup {on}
    <3>1. KeyTells(on)' /\ \A t \in Tokens \ {on} : key'[t] = key[t]
      BY <2>1, <2>3, <2>5 DEF DropKey, KeyTells, TokensInv, RedisTypeOK
    <3>2. deleted' \ {on} = deleted \ {on}
      BY <2>5
    <3> QED BY <2>1, <2>2, <2>4, <3>1, <3>2, FinishSerial, UnreachableSerial
  <2>6. CASE Unreachable(r) /\ UNCHANGED <<key, ttl, deleted>>
    BY <1>6, <2>1, <2>6 DEF history
  <2> QED BY <1>13, <2>2, <2>5, <2>6 DEF DeleteScreenToken
<1>14. ASSUME NEW r \in Clients, Returning(r)
       PROVE  SerialInv'
  <2>1. at[r] = "idle"
    BY <1>14 DEF Returning, Promise!Return, TokensInv, CallsKnown
  <2>2. /\ UNCHANGED <<key, at, got, issued, expired, used, deleted>>
        /\ \A q \in Clients \ {r} : call'[q] = call[q]
    BY <1>14 DEF Returning, Promise!Return, localVars, TokensInv, RedisTypeOK
  <2>3. \A q \in Clients \ {r} : Knows(q)'
    BY <2>2, OthersKnow
  <2> QED BY <2>1, <2>2, <2>3 DEF SerialInv, KeyTells, Knows
<1>15. CASE UNCHANGED redisVars
  BY <1>15 DEF redisVars, localVars, history, SerialInv, Knows, KeyTells, Spent
<1> QED
  BY <1>1, <1>2, <1>3, <1>5, <1>8, <1>9, <1>10, <1>11, <1>12, <1>13, <1>14, <1>15
     DEF RedisNext

\* A command that fails is a call that fails, with its effect or without.
LEMMA UnreachableRefines ==
  ASSUME TokensInv, SerialInv, NEW r \in Clients, at[r] # "idle", Unreachable(r),
         UNCHANGED <<issued, expired>>,
         used' = used \/ (call[r].op = "redeem" /\ used' = used \cup {call[r].on}),
         deleted' = deleted \/ (call[r].op = "delete" /\ deleted' = deleted \cup {call[r].on})
  PROVE  Promise!Fail(r)
<1>1. call[r].ans = "none" /\ call[r].op \in {"redeem", "validate", "delete"}
  BY DEF SerialInv, Knows, TokensInv, CallsKnown, RedisTypeOK
<1>2. Promise!Answer(r, IF call[r].op = "validate" THEN "refused" ELSE "error")
  BY DEF Unreachable, Finish
<1>3. CASE call[r].op = "redeem"
  BY <1>1, <1>2, <1>3 DEF Promise!Fail, Promise!Pending
<1>4. CASE call[r].op = "validate"
  BY <1>1, <1>2, <1>4 DEF Promise!Fail, Promise!Pending
<1>5. CASE call[r].op = "delete"
  BY <1>1, <1>2, <1>5 DEF Promise!Fail, Promise!Pending
<1> QED BY <1>1, <1>3, <1>4, <1>5

\* Every command is a step of the promised store, or none: a call takes effect
\* with its last command.
LEMMA StepRefines ==
  ASSUME TokensInv, SpentNotFresh, SerialInv, RedisNext
  PROVE  Promise!Next \/ UNCHANGED Promise!tokenVars
<1> USE DEF Promise!tokenVars
<1>1. ASSUME NEW t \in Tokens, CreateToken(t) \/ Passes(t) \/ Evict(t)
      PROVE  Promise!Next \/ UNCHANGED Promise!tokenVars
  <2>1. CASE Evict(t)
    BY <2>1 DEF Evict, history
  <2>2. CASE CreateToken(t) \/ Passes(t)
    BY <2>2 DEF CreateToken, Passes, Promise!Next
  <2> QED BY <1>1, <2>1, <2>2
<1>2. ASSUME NEW r \in Clients, NEW o \in Promise!Ops, NEW t \in Tokens, Calling(r, o, t)
      PROVE  Promise!Next
  BY <1>2 DEF Calling, Promise!Next
<1>3. ASSUME NEW r \in Clients, Returning(r)
      PROVE  Promise!Next
  BY <1>3 DEF Returning, Promise!Next
<1>4. ASSUME NEW r \in Clients, at[r] # "idle", Unreachable(r), UNCHANGED history
      PROVE  Promise!Next
  <2>1. Promise!Fail(r)
    BY <1>4, UnreachableRefines DEF history
  <2> QED BY <2>1 DEF Promise!Next
<1>5. ASSUME NEW r \in Clients, at[r] # "idle", Finish(r, "refused"), UNCHANGED history,
             \/ call[r].op = "redeem" /\ call[r].on \in Spent \cup expired
             \/ call[r].op = "validate" /\ call[r].on \in deleted \cup expired
      PROVE  Promise!Next
  <2>1. call[r].ans = "none" /\ Promise!Answer(r, "refused")
    BY <1>5 DEF TokensInv, CallsKnown, Finish
  <2>2. CASE call[r].op = "redeem" /\ call[r].on \in Spent \cup expired
    <3>1. Promise!Redeem(r)
      BY <1>5, <2>1, <2>2 DEF Promise!Redeem, Promise!Pending, Spent, history
    <3> QED BY <3>1 DEF Promise!Next
  <2>3. CASE call[r].op = "validate" /\ call[r].on \in deleted \cup expired
    <3>1. Promise!Validate(r)
      BY <1>5, <2>1, <2>3 DEF Promise!Validate, Promise!Pending, history
    <3> QED BY <3>1 DEF Promise!Next
  <2> QED BY <1>5, <2>2, <2>3
<1>6. ASSUME NEW r \in Clients, Get(r)
      PROVE  Promise!Next \/ UNCHANGED Promise!tokenVars
  <2>1. /\ at[r] = "GET" /\ UNCHANGED history
        /\ call[r].op \in {"redeem", "validate"} /\ call[r].on \in issued
    BY <1>6 DEF Get, SerialInv, Knows, TokensInv, CallsKnown
  <2>2. CASE key[call[r].on] = "absent" /\ Finish(r, "refused")
    <3>1. call[r].on \in deleted \cup expired \cup used
      BY <2>1, <2>2 DEF SerialInv, KeyTells
    <3>2. CASE call[r].op = "redeem"
      BY <1>5, <2>1, <2>2, <3>1, <3>2 DEF Spent
    <3>3. CASE call[r].op = "validate"
      BY <1>4, <2>1, <2>2, <3>3 DEF Unreachable
    <3> QED BY <2>1, <3>2, <3>3
  <2>3. CASE Unreachable(r)
    BY <1>4, <2>1, <2>3
  <2>4. CASE UNCHANGED call
    BY <2>1, <2>4 DEF history
  <2> QED BY <1>6, <2>2, <2>3, <2>4 DEF Get
<1>7. ASSUME NEW r \in Clients, Decide(r)
      PROVE  Promise!Next \/ UNCHANGED Promise!tokenVars
  <2>1. /\ at[r] = "decide" /\ UNCHANGED history /\ call[r].ans = "none"
        /\ call[r].live \/ call[r].on \in expired
        /\ call[r].on \notin Spent \/ (got[r] = "used" /\ call[r].on \in used \ deleted)
    BY <1>7 DEF Decide, SerialInv, Knows, TokensInv, CallsKnown
  <2>2. CASE call[r].op = "validate" /\ call[r].on \in expired /\ Finish(r, "refused")
    BY <1>5, <2>1, <2>2
  <2>3. CASE call[r].op = "validate" /\ call[r].on \notin expired /\ Finish(r, "ok")
    <3>1. Promise!Validate(r)
      BY <2>1, <2>3 DEF Promise!Validate, Promise!Pending, Finish, Spent, history
    <3> QED BY <3>1 DEF Promise!Next
  <2>4. CASE call[r].op = "redeem" /\ Refuses(r) /\ Finish(r, "refused")
    <3>1. call[r].on \in Spent
      BY <1>7, <2>1, <2>4 DEF Refuses, SerialInv, Knows, Spent
    <3> QED BY <1>5, <2>1, <2>4, <3>1
  <2>5. CASE UNCHANGED call
    BY <2>1, <2>5 DEF history
  <2> QED BY <1>7, <2>2, <2>3, <2>4, <2>5 DEF Decide
<1>8. ASSUME NEW r \in Clients, DeleteExpired(r)
      PROVE  Promise!Next
  <2>1. /\ at[r] = "DEL expired" /\ UNCHANGED history /\ Finish(r, "refused")
        /\ call[r].op = "redeem" /\ call[r].on \in expired
    BY <1>8 DEF DeleteExpired, SerialInv, Knows
  <2> QED BY <1>5, <2>1
<1>9. ASSUME NEW r \in Clients, SetUsed(r)
      PROVE  Promise!Next
  <2>1. /\ at[r] = "SET" /\ UNCHANGED <<issued, expired, deleted>>
        /\ call[r].op = "redeem" /\ call[r].ans = "none"
        /\ call[r].live /\ call[r].on \notin Spent
    BY <1>9 DEF SetUsed, SerialInv, Knows, TokensInv, CallsKnown
  <2>2. CASE MarkUsed(r) /\ Finish(r, "ok")
    <3>1. Promise!Redeem(r)
      BY <2>1, <2>2 DEF Promise!Redeem, Promise!Pending, MarkUsed, Finish, Spent
    <3> QED BY <3>1 DEF Promise!Next
  <2>3. CASE Unreachable(r) /\ (used' = used \/ MarkUsed(r))
    <3>1. Promise!Fail(r)
      BY <2>1, <2>3, UnreachableRefines DEF MarkUsed
    <3> QED BY <3>1 DEF Promise!Next
  <2> QED BY <1>9, <2>2, <2>3 DEF SetUsed
<1>10. ASSUME NEW r \in Clients, DeleteScreenToken(r)
       PROVE  Promise!Next
  <2>1. /\ at[r] = "DEL" /\ UNCHANGED <<issued, expired, used>>
        /\ call[r].op = "delete" /\ call[r].ans = "none"
    BY <1>10 DEF DeleteScreenToken, SerialInv, Knows, TokensInv, CallsKnown
  <2>2. CASE deleted' = deleted \cup {call[r].on} /\ Finish(r, "ok")
    <3>1. Promise!Delete(r)
      BY <2>1, <2>2 DEF Promise!Delete, Promise!Pending, Finish
    <3> QED BY <3>1 DEF Promise!Next
  <2>3. CASE Unreachable(r) /\ (deleted' = deleted \/ deleted' = deleted \cup {call[r].on})
    <3>1. Promise!Fail(r)
      BY <2>1, <2>3, UnreachableRefines
    <3> QED BY <3>1 DEF Promise!Next
  <2> QED BY <1>10, <2>2, <2>3 DEF DeleteScreenToken
<1>11. ASSUME NEW r \in Clients, ReadTTL(r)
       PROVE  UNCHANGED Promise!tokenVars
  BY <1>11 DEF ReadTTL, history
<1> QED
  BY <1>1, <1>2, <1>3, <1>6, <1>7, <1>8, <1>9, <1>10, <1>11 DEF RedisNext

LEMMA RedisInitInv == RedisInit => TokensInv /\ SpentNotFresh /\ SerialInv
BY DEF RedisInit, Promise!Init, Promise!NoCall, TokensInv, RedisTypeOK, CallsKnown, Spent,
       SpentNotFresh, SerialInv, Knows

\* However many clients redeem and delete at once, a token that was redeemed or
\* deleted is never again stored as unused: a redemption that begins after that
\* finds it used or not at all.
THEOREM SpentStaysSpent == RedisSpec => []SpentNotFresh
<1>1. TokensInv /\ [RedisNext]_redisVars => TokensInv'
  BY TokensStep
<1>2. TokensInv /\ SpentNotFresh /\ [RedisNext]_redisVars => SpentNotFresh'
  BY SpentStep
<1> QED BY <1>1, <1>2, RedisInitInv, PTL DEF RedisSpec

\* While calls on the same token do not overlap, Redis keeps the promise for any
\* tokens and clients, whatever commands fail and keys are dropped.
THEOREM SerialCallsKeepPromise == RedisSpec /\ []NoOverlap => KeepsPromise
<1> DEFINE Inv == TokensInv /\ SpentNotFresh /\ SerialInv
<1>1. RedisInit => Inv
  BY RedisInitInv
<1>2. Inv /\ NoOverlap /\ [RedisNext]_redisVars => Inv'
  BY TokensStep, SpentStep, SerialStep
<1>3. RedisInit => Promise!Init
  BY DEF RedisInit
<1>4. Inv /\ [RedisNext]_redisVars => [Promise!Next]_(Promise!tokenVars)
  <2>1. CASE UNCHANGED redisVars
    BY <2>1 DEF redisVars, history, Promise!tokenVars
  <2>2. CASE RedisNext
    BY <2>2, StepRefines
  <2> QED BY <2>1, <2>2
<1> HIDE DEF Inv
<1> QED BY <1>1, <1>2, <1>3, <1>4, PTL DEF RedisSpec, KeepsPromise, Promise!Spec

\* With one client no calls overlap, and the store of the clusters beside the
\* tokens does not disturb them.
THEOREM OneClientKeepsPromise ==
  ASSUME NEW r, Clients = {r}
  PROVE  StoreSpec => KeepsPromise
<1>1. NoOverlap
  BY DEF NoOverlap
<1>2. StoreInit => RedisInit
  BY DEF StoreInit
<1>3. [StoreNext]_storeVars => [RedisNext]_redisVars
  BY DEF StoreNext, storeVars
<1>4. StoreSpec => RedisSpec
  BY <1>2, <1>3, PTL DEF StoreSpec, RedisSpec
<1> QED BY <1>1, <1>4, SerialCallsKeepPromise, PTL
=============================================================================
