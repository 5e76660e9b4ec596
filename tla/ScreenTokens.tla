---------------------------- MODULE ScreenTokens ----------------------------
(***************************************************************************)
(* What a store promises of its screen tokens (the token operations of     *)
(* store.Store): every call takes effect at one moment between its         *)
(* beginning and its answer.  MemoryTokens and RedisTokens are measured    *)
(* against it.                                                             *)
(*                                                                         *)
(* The clock is the set of tokens whose ExpiresAt has passed.  A call may  *)
(* read it at any moment, so that a token counts as unexpired for a call   *)
(* that began before it expired.                                           *)
(***************************************************************************)
CONSTANTS
  Tokens,   \* token ids, each one generated at most once
  Clients,  \* threads, and replicas, that call the store
  MayFail   \* the store may be out of reach

VARIABLES
  issued,   \* tokens CreateScreenToken has returned
  expired,  \* tokens whose ExpiresAt has passed
  used,     \* tokens that were redeemed
  deleted,  \* tokens that were deleted
  call      \* call[r]: the call client r has made, with its answer

tokenVars == <<issued, expired, used, deleted, call>>

Ops     == {"redeem", "validate", "delete"}
Answers == {"ok", "refused", "error"}
NoCall  == [op |-> "none", ans |-> "none"]
Calls   == [op : Ops, on : Tokens, live : BOOLEAN, ans : Answers \cup {"none"}]

Init ==
  /\ issued = {}
  /\ expired = {}
  /\ used = {}
  /\ deleted = {}
  /\ call = [r \in Clients |-> NoCall]

Pending(r, o) == call[r].op = o /\ call[r].ans = "none"
Answer(r, a)  == call' = [call EXCEPT ![r].ans = a]

Create(t) ==
  /\ t \notin issued
  /\ issued' = issued \cup {t}
  /\ UNCHANGED <<expired, used, deleted, call>>

Expire(t) ==
  /\ t \in issued \ expired
  /\ expired' = expired \cup {t}
  /\ UNCHANGED <<issued, used, deleted, call>>

Begin(r, o, t) ==
  /\ call[r] = NoCall
  /\ t \in issued
  /\ call' = [call EXCEPT ![r] =
       [op |-> o, on |-> t, live |-> t \notin expired, ans |-> "none"]]
  /\ UNCHANGED <<issued, expired, used, deleted>>

Redeem(r) ==
  LET t == call[r].on IN
    /\ Pending(r, "redeem")
    /\ \/ /\ call[r].live /\ t \notin used \cup deleted
          /\ used' = used \cup {t}
          /\ Answer(r, "ok")
       \/ /\ t \in used \cup deleted \cup expired
          /\ Answer(r, "refused")
          /\ UNCHANGED used
    /\ UNCHANGED <<issued, expired, deleted>>

\* A token is valid until it expires or is deleted, redeemed or not.
Validate(r) ==
  LET t == call[r].on IN
    /\ Pending(r, "validate")
    /\ \/ call[r].live /\ t \notin deleted /\ Answer(r, "ok")
       \/ t \in deleted \cup expired /\ Answer(r, "refused")
    /\ UNCHANGED <<issued, expired, used, deleted>>

Delete(r) ==
  /\ Pending(r, "delete")
  /\ deleted' = deleted \cup {call[r].on}
  /\ Answer(r, "ok")
  /\ UNCHANGED <<issued, expired, used>>

\* A call that fails may have had its effect; to validate is to refuse then.
Fail(r) ==
  LET t == call[r].on IN
    /\ MayFail
    /\ \/ /\ Pending(r, "redeem")
          /\ used' \in {used, used \cup {t}}
          /\ Answer(r, "error") /\ UNCHANGED deleted
       \/ /\ Pending(r, "delete")
          /\ deleted' \in {deleted, deleted \cup {t}}
          /\ Answer(r, "error") /\ UNCHANGED used
       \/ /\ Pending(r, "validate")
          /\ Answer(r, "refused") /\ UNCHANGED <<used, deleted>>
    /\ UNCHANGED <<issued, expired>>

Return(r) ==
  /\ call[r] # NoCall /\ call[r].ans # "none"
  /\ call' = [call EXCEPT ![r] = NoCall]
  /\ UNCHANGED <<issued, expired, used, deleted>>

Next ==
  \/ \E t \in Tokens : Create(t) \/ Expire(t)
  \/ \E r \in Clients :
       \/ \E o \in Ops, t \in Tokens : Begin(r, o, t)
       \/ Redeem(r)
       \/ Validate(r)
       \/ Delete(r)
       \/ Fail(r)
       \/ Return(r)

Spec == Init /\ [][Next]_tokenVars
=============================================================================
