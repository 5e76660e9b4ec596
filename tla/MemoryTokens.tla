---------------------------- MODULE MemoryTokens ----------------------------
(***************************************************************************)
(* The screen tokens of internal/store/memory.go.  MemoryStore.mu is held  *)
(* for the whole of a call, so that a call is one step between its         *)
(* beginning and its answer.  The map is given by its keys and by those of *)
(* them whose UsedAt is set.                                               *)
(***************************************************************************)
CONSTANTS Tokens, Clients

VARIABLES
  tokens,   \* keys of MemoryStore.tokens
  marked,   \* those of them with UsedAt set
  issued, expired, used, deleted, call  \* history, and calls: ScreenTokens

memoryVars == <<tokens, marked, issued, expired, used, deleted, call>>

Promise == INSTANCE ScreenTokens WITH MayFail <- FALSE

MemoryInit ==
  /\ Promise!Init
  /\ tokens = {}
  /\ marked = {}

Keep(ts) == tokens' = ts /\ marked' = marked \cap ts

\* cleanupExpiredTokens
Cleanup == tokens \ expired

CreateToken(t) ==
  /\ Promise!Create(t)
  /\ Keep(Cleanup \cup {t})

Passes(t) == Promise!Expire(t) /\ UNCHANGED <<tokens, marked>>

Calling(r, o, t) == Promise!Begin(r, o, t) /\ UNCHANGED <<tokens, marked>>

\* Fault: UsedAt is not looked at.
RedeemScreenTokenTwice(r) ==
  LET t == call[r].on IN
    /\ Promise!Pending(r, "redeem")
    /\ t \in tokens /\ t \notin expired
    /\ marked' = marked \cup {t}
    /\ used' = used \cup {t}
    /\ Promise!Answer(r, "ok")
    /\ UNCHANGED <<tokens, issued, expired, deleted>>

\* Fault: a redeemed token is removed, and is no longer valid for a screen.
RedeemRemoves(r) ==
  /\ Promise!Redeem(r)
  /\ IF used' # used THEN Keep(tokens \ {call[r].on}) ELSE Keep(tokens)

RedeemScreenToken(r) ==
  LET t == call[r].on IN
    /\ Promise!Pending(r, "redeem")
    /\ \/ /\ t \notin tokens
          /\ Promise!Answer(r, "refused")
          /\ UNCHANGED <<tokens, marked, used>>
       \/ /\ t \in tokens \cap expired
          /\ Keep(tokens \ {t})
          /\ Promise!Answer(r, "refused")
          /\ UNCHANGED used
       \/ /\ t \in tokens \ expired /\ t \in marked
          /\ Promise!Answer(r, "refused")
          /\ UNCHANGED <<tokens, marked, used>>
       \/ /\ t \in tokens \ expired /\ t \notin marked
          /\ marked' = marked \cup {t}
          /\ used' = used \cup {t}
          /\ Promise!Answer(r, "ok")
          /\ UNCHANGED tokens
    /\ UNCHANGED <<issued, expired, deleted>>

ValidateScreenToken(r) ==
  /\ Promise!Pending(r, "validate")
  /\ Promise!Answer(r, IF call[r].on \in tokens \ expired THEN "ok" ELSE "refused")
  /\ UNCHANGED <<tokens, marked, issued, expired, used, deleted>>

DeleteScreenToken(r) ==
  /\ Promise!Delete(r)
  /\ Keep(tokens \ {call[r].on})

Returning(r) == Promise!Return(r) /\ UNCHANGED <<tokens, marked>>

MemoryNext ==
  \/ \E t \in Tokens : CreateToken(t) \/ Passes(t)
  \/ \E r \in Clients :
       \/ \E o \in Promise!Ops, t \in Tokens : Calling(r, o, t)
       \/ RedeemScreenToken(r)
       \/ ValidateScreenToken(r)
       \/ DeleteScreenToken(r)
       \/ Returning(r)

MemorySpec == MemoryInit /\ [][MemoryNext]_memoryVars

-----------------------------------------------------------------------------
(* Properties.                                                             *)

MemoryTypeOK ==
  /\ tokens \subseteq Tokens
  /\ marked \subseteq tokens
  /\ issued \subseteq Tokens
  /\ expired \subseteq issued
  /\ used \subseteq issued
  /\ deleted \subseteq issued
  /\ call \in [Clients -> Promise!Calls \cup {Promise!NoCall}]

\* The map against the history of the store: what is in it was issued, was
\* not deleted and carries its mark, and what is missing was deleted or has
\* expired.  Redemptions, deletions and the cleanup of CreateScreenToken all
\* remove entries.
MapMatchesHistory ==
  /\ tokens \subseteq issued \ deleted
  /\ marked = used \cap tokens
  /\ issued \ (tokens \cup expired) \subseteq deleted

\* "MemoryStore: Uses sync.RWMutex for all operations" (store/README.md:265):
\* its calls are atomic, whoever calls it concurrently.  A token is redeemed
\* at most once, and deleting it is final.
KeepsPromise == Promise!Spec
=============================================================================
