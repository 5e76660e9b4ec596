---------------------------- MODULE RedisTokens -----------------------------
(***************************************************************************)
(* The screen tokens of internal/store/redis.go.  Every Redis command is a *)
(* step of its own, and a call is one or several of them: redeeming a      *)
(* token is a GET, a TTL and a SET.  Clients are the requests of all       *)
(* replicas, which share the Redis server.                                 *)
(*                                                                         *)
(* A command may fail, with or without its effect.  Redis drops a key when *)
(* its TTL ends, which is after the token's ExpiresAt, unless redeeming    *)
(* cut it short.  go-redis answers TTL with 0 on an error, with -2 for a   *)
(* missing key and -1 for a key without one; SET takes -1 for KEEPTTL, and *)
(* a 0 or -2 for no TTL.                                                   *)
(***************************************************************************)
CONSTANTS Tokens, Clients

VARIABLES
  key,      \* key[t]: what Redis holds, "absent", "fresh" or "used"
  ttl,      \* tokens whose key has a TTL
  at,       \* at[r]: the command that client r sends next, "idle" for none
  got,      \* got[r]: the token as r has read it
  newTTL,   \* newTTL[r]: the TTL that r will SET
  issued, expired, used, deleted, call  \* history, and calls: ScreenTokens

localVars == <<at, got, newTTL>>
history   == <<issued, expired, used, deleted>>
redisVars == <<key, ttl, localVars, history, call>>

Promise == INSTANCE ScreenTokens WITH MayFail <- TRUE

RedisInit ==
  /\ Promise!Init
  /\ key = [t \in Tokens |-> "absent"]
  /\ ttl = {}
  /\ at = [r \in Clients |-> "idle"]
  /\ got = [r \in Clients |-> "absent"]
  /\ newTTL = [r \in Clients |-> "none"]

Goto(r, command) == at' = [at EXCEPT ![r] = command]

\* The call ends with answer a, and forgets what it read.
Finish(r, a) ==
  /\ Promise!Answer(r, a)
  /\ Goto(r, "idle")
  /\ got' = [got EXCEPT ![r] = "absent"]
  /\ newTTL' = [newTTL EXCEPT ![r] = "none"]

\* Out of reach: an error, except that validating a token is to refuse it.
Unreachable(r) ==
  Finish(r, IF call[r].op = "validate" THEN "refused" ELSE "error")

\* Fault: the key is emptied, not removed.
DropKeyOnly(t) == key' = [key EXCEPT ![t] = "absent"] /\ ttl' = ttl
DropKey(t) == key' = [key EXCEPT ![t] = "absent"] /\ ttl' = ttl \ {t}

\* A token whose SET failed was not returned: nobody knows its id.
CreateToken(t) ==
  /\ Promise!Create(t)
  /\ key' = [key EXCEPT ![t] = "fresh"]
  /\ ttl' = ttl \cup {t}
  /\ UNCHANGED localVars

Passes(t) == Promise!Expire(t) /\ UNCHANGED <<key, ttl, localVars>>

\* Redis drops the key.  TTL answers in rounded seconds, so that the rest of a
\* token that was written back may be up to half a second short.
Evict(t) ==
  /\ t \in ttl
  /\ t \in expired \/ key[t] = "used"
  /\ DropKey(t)
  /\ UNCHANGED <<localVars, history, call>>

Calling(r, o, t) ==
  /\ Promise!Begin(r, o, t)
  /\ Goto(r, IF o = "delete" THEN "DEL" ELSE "GET")
  /\ UNCHANGED <<key, ttl, got, newTTL>>

\* GET, for redeeming and for validating.
Get(r) ==
  LET k == key[call[r].on] IN
    /\ at[r] = "GET"
    /\ \/ k = "absent" /\ Finish(r, "refused")
       \/ /\ k # "absent"
          /\ got' = [got EXCEPT ![r] = k]
          /\ Goto(r, "decide")
          /\ UNCHANGED <<newTTL, call>>
       \/ Unreachable(r)
    /\ UNCHANGED <<key, ttl, history>>

\* Fault: UsedAt is not looked at.
RefusesNothing(r) == FALSE
Refuses(r) == got[r] = "used"

\* The clock and UsedAt are looked at, with what was read.
Decide(r) ==
  LET e == call[r].on \in expired
      o == call[r].op
  IN
    /\ at[r] = "decide"
    /\ \/ o = "validate" /\ Finish(r, IF e THEN "refused" ELSE "ok")
       \/ o = "redeem" /\ ~e /\ Refuses(r) /\ Finish(r, "refused")
       \/ /\ o = "redeem" /\ (e \/ ~Refuses(r))
          /\ Goto(r, IF e THEN "DEL expired" ELSE "TTL")
          /\ UNCHANGED <<got, newTTL, call>>
    /\ UNCHANGED <<key, ttl, history>>

\* The error of this DEL is not looked at.
DeleteExpired(r) ==
  /\ at[r] = "DEL expired"
  /\ DropKey(call[r].on) \/ UNCHANGED <<key, ttl>>
  /\ Finish(r, "refused")
  /\ UNCHANGED history

\* Val passes over the error; a TTL of less than half a second reads as 0.
ReadTTL(r) ==
  LET t == call[r].on IN
    /\ at[r] = "TTL"
    /\ \E n \in {"none", IF t \in ttl THEN "rest"
                         ELSE IF key[t] = "absent" THEN "none" ELSE "keep"} :
         newTTL' = [newTTL EXCEPT ![r] = n]
    /\ Goto(r, "SET")
    /\ UNCHANGED <<key, ttl, got, call, history>>

\* The token is written back as redeemed.
MarkUsed(r) ==
  LET t == call[r].on IN
    /\ key' = [key EXCEPT ![t] = "used"]
    /\ ttl' = IF newTTL[r] = "rest" THEN ttl \cup {t}
              ELSE IF newTTL[r] = "keep" THEN ttl ELSE ttl \ {t}
    /\ used' = used \cup {t}

SetUsed(r) ==
  /\ at[r] = "SET"
  /\ \/ MarkUsed(r) /\ (Finish(r, "ok") \/ Unreachable(r))
     \/ Unreachable(r) /\ UNCHANGED <<key, ttl, used>>
  /\ UNCHANGED <<issued, expired, deleted>>

DeleteScreenToken(r) ==
  LET t == call[r].on IN
    /\ at[r] = "DEL"
    /\ \/ /\ DropKey(t)
          /\ deleted' = deleted \cup {t}
          /\ Finish(r, "ok") \/ Unreachable(r)
       \/ Unreachable(r) /\ UNCHANGED <<key, ttl, deleted>>
    /\ UNCHANGED <<issued, expired, used>>

Returning(r) == Promise!Return(r) /\ UNCHANGED <<key, ttl, localVars>>

RedisNext ==
  \/ \E t \in Tokens : CreateToken(t) \/ Passes(t) \/ Evict(t)
  \/ \E r \in Clients :
       \/ \E o \in Promise!Ops, t \in Tokens : Calling(r, o, t)
       \/ Get(r)
       \/ Decide(r)
       \/ DeleteExpired(r)
       \/ ReadTTL(r)
       \/ SetUsed(r)
       \/ DeleteScreenToken(r)
       \/ Returning(r)

RedisSpec == RedisInit /\ [][RedisNext]_redisVars

-----------------------------------------------------------------------------
(* Properties.                                                             *)

RedisTypeOK ==
  /\ key \in [Tokens -> {"absent", "fresh", "used"}]
  /\ ttl \subseteq {t \in Tokens : key[t] # "absent"}
  /\ at \in [Clients -> {"idle", "GET", "decide", "DEL expired", "TTL", "SET",
                         "DEL"}]
  /\ got \in [Clients -> {"absent", "fresh", "used"}]
  /\ newTTL \in [Clients -> {"none", "rest", "keep"}]
  /\ issued \subseteq Tokens
  /\ expired \subseteq issued
  /\ used \subseteq issued
  /\ deleted \subseteq issued
  /\ call \in [Clients -> Promise!Calls \cup {Promise!NoCall}]

\* With one client the calls are those of ScreenTokens, whichever command
\* fails and whenever Redis drops the key, the key of a token that expires
\* while it is redeemed included.
KeepsPromise == Promise!Spec

\* "RedisStore: Redis operations are inherently atomic"
\* (store/README.md:266), and redeeming a token answers "Token was already
\* redeemed" (store/README.md:193) the second time: never twice with success.
RedeemsOnce ==
  [][\A r \in Clients : Promise!Pending(r, "redeem") /\ call'[r].ans = "ok"
       => call[r].on \notin used]_redisVars
=============================================================================
