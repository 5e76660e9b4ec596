------------------------ MODULE Authentication_proofs -----------------------
(***************************************************************************)
(* The properties of Authentication for any sessions, tokens, states and   *)
(* requests.  SessionInv is inductive for the session manager alone, and   *)
(* is kept by the requests because they change sessions through its        *)
(* operations only; MemoryInv is the same for the tokens of the store.     *)
(* RequestInv ties what a request presents to the calls made for it.       *)
(***************************************************************************)
EXTENDS Authentication, TLAPS

-----------------------------------------------------------------------------
(* The tokens of the memory store.  The map alone does not say whether a    *)
(* missing token was deleted or has expired: MapMatchesHistory, with what   *)
(* is known of the pending calls, is the invariant the refinement needs.    *)

\* A pending call is about an issued token, and was late only if that token
\* has expired.
CallsKnown ==
  \A r \in Clients : call[r].op # "none" =>
    /\ call[r].on \in issued
    /\ ~call[r].live => call[r].on \in expired

MemoryInv == MemoryTypeOK /\ MapMatchesHistory /\ CallsKnown

USE DEF Promise!tokenVars, Promise!Ops, Promise!Answers, Promise!NoCall,
        Promise!Calls

LEMMA MemoryInitInv == MemoryInit => MemoryInv
BY DEF MemoryInit, Promise!Init, MemoryInv, MemoryTypeOK, MapMatchesHistory, CallsKnown

\* An answer changes nothing of a pending call but its answer.
LEMMA AnswerKeeps ==
  ASSUME MemoryInv, NEW r \in Clients, call[r].op # "none",
         NEW a \in Promise!Answers, Promise!Answer(r, a)
  PROVE  /\ call' \in [Clients -> Promise!Calls \cup {Promise!NoCall}]
         /\ \A q \in Clients : /\ call'[q].op = call[q].op
                               /\ call[q].op # "none" =>
                                    /\ call'[q].on = call[q].on
                                    /\ call'[q].live = call[q].live
BY DEF MemoryInv, MemoryTypeOK, Promise!Answer

\* Every step keeps the invariant.
LEMMA MemoryStepInv == MemoryInv /\ [MemoryNext]_memoryVars => MemoryInv'
<1> SUFFICES ASSUME MemoryInv, [MemoryNext]_memoryVars PROVE MemoryInv'
  OBVIOUS
<1> USE DEF MemoryInv, MemoryTypeOK, MapMatchesHistory, CallsKnown
<1>1. ASSUME NEW t \in Tokens, CreateToken(t) PROVE MemoryInv'
  BY <1>1 DEF CreateToken, Promise!Create, Keep, Cleanup
<1>2. ASSUME NEW t \in Tokens, Passes(t) PROVE MemoryInv'
  BY <1>2 DEF Passes, Promise!Expire
<1>3. ASSUME NEW r \in Clients, NEW o \in Promise!Ops, NEW t \in Tokens,
             Calling(r, o, t)
      PROVE MemoryInv'
  BY <1>3 DEF Calling, Promise!Begin
<1>4. ASSUME NEW r \in Clients, RedeemScreenToken(r) PROVE MemoryInv'
  <2>1. call[r].op # "none" /\ call[r].on \in issued
    BY <1>4 DEF RedeemScreenToken, Promise!Pending
  <2>2. PICK a \in Promise!Answers : Promise!Answer(r, a)
    BY <1>4 DEF RedeemScreenToken
  <2>3. (tokens \subseteq Tokens /\ marked \subseteq tokens
          /\ tokens \subseteq issued \ deleted)' /\ UNCHANGED <<issued, expired, deleted>>
    BY <1>4 DEF RedeemScreenToken, Keep
  <2>4. (used \subseteq issued /\ marked = used \cap tokens
          /\ issued \ (tokens \cup expired) \subseteq deleted)'
    BY <1>4, <2>1 DEF RedeemScreenToken, Keep
  <2> QED BY <2>1, <2>2, <2>3, <2>4, AnswerKeeps
<1>5. ASSUME NEW r \in Clients, ValidateScreenToken(r) PROVE MemoryInv'
  <2>1. call[r].op # "none" BY <1>5 DEF ValidateScreenToken, Promise!Pending
  <2>2. PICK a \in Promise!Answers : Promise!Answer(r, a)
    BY <1>5 DEF ValidateScreenToken
  <2> QED BY <1>5, <2>1, <2>2, AnswerKeeps DEF ValidateScreenToken
<1>6. ASSUME NEW r \in Clients, DeleteScreenToken(r) PROVE MemoryInv'
  <2>1. call[r].op # "none" /\ call[r].on \in issued
    BY <1>6 DEF DeleteScreenToken, Promise!Delete, Promise!Pending
  <2>2. Promise!Answer(r, "ok")
    BY <1>6 DEF DeleteScreenToken, Promise!Delete
  <2> QED BY <1>6, <2>1, <2>2, AnswerKeeps DEF DeleteScreenToken, Promise!Delete, Keep
<1>7. ASSUME NEW r \in Clients, Returning(r) PROVE MemoryInv'
  BY <1>7 DEF Returning, Promise!Return
<1>8. CASE UNCHANGED memoryVars
  BY <1>8 DEF memoryVars
<1> QED
  BY <1>1, <1>2, <1>3, <1>4, <1>5, <1>6, <1>7, <1>8 DEF MemoryNext

LEMMA MemoryInvariant == MemorySpec => []MemoryInv
<1>1. MemoryInv /\ [MemoryNext]_memoryVars => MemoryInv' BY MemoryStepInv
<1> QED BY MemoryInitInv, <1>1, PTL DEF MemorySpec

\* Types: the map and the history hold tokens only.
THEOREM MemoryTypeCorrect == MemorySpec => []MemoryTypeOK
BY MemoryInvariant, PTL DEF MemoryInv

\* The map tells the history of every unexpired token.
THEOREM MapTellsHistory == MemorySpec => []MapMatchesHistory
BY MemoryInvariant, PTL DEF MemoryInv

-----------------------------------------------------------------------------
\* Every step of the memory store is one of ScreenTokens, or a stutter.
LEMMA MemoryStepRefines ==
  MemoryInv /\ [MemoryNext]_memoryVars => [Promise!Next]_(Promise!tokenVars)
<1> SUFFICES ASSUME MemoryInv, [MemoryNext]_memoryVars
             PROVE  Promise!Next \/ UNCHANGED Promise!tokenVars
  OBVIOUS
<1>1. ASSUME NEW t \in Tokens, CreateToken(t) PROVE Promise!Next
  BY <1>1 DEF CreateToken, Promise!Next
<1>2. ASSUME NEW t \in Tokens, Passes(t) PROVE Promise!Next
  BY <1>2 DEF Passes, Promise!Next
<1>3. ASSUME NEW r \in Clients, NEW o \in Promise!Ops, NEW t \in Tokens,
             Calling(r, o, t)
      PROVE Promise!Next
  BY <1>3 DEF Calling, Promise!Next
<1>4. ASSUME NEW r \in Clients, RedeemScreenToken(r) PROVE Promise!Next
  <2>1. Promise!Redeem(r)
    BY <1>4 DEF RedeemScreenToken, Promise!Redeem, Promise!Pending, MemoryInv,
                MemoryTypeOK, MapMatchesHistory, CallsKnown
  <2> QED BY <2>1 DEF Promise!Next
<1>5. ASSUME NEW r \in Clients, ValidateScreenToken(r) PROVE Promise!Next
  <2>1. Promise!Validate(r)
    BY <1>5 DEF ValidateScreenToken, Promise!Validate, Promise!Pending, MemoryInv,
                MemoryTypeOK, MapMatchesHistory, CallsKnown
  <2> QED BY <2>1 DEF Promise!Next
<1>6. ASSUME NEW r \in Clients, DeleteScreenToken(r) PROVE Promise!Next
  BY <1>6 DEF DeleteScreenToken, Promise!Next
<1>7. ASSUME NEW r \in Clients, Returning(r) PROVE Promise!Next
  BY <1>7 DEF Returning, Promise!Next
<1>8. CASE UNCHANGED memoryVars
  BY <1>8 DEF memoryVars
<1> QED
  BY <1>1, <1>2, <1>3, <1>4, <1>5, <1>6, <1>7, <1>8 DEF MemoryNext

\* The memory store implements ScreenTokens: its calls are atomic, no token
\* is redeemed twice, and a deleted token is never valid again.
THEOREM MemoryKeepsPromise == MemorySpec => KeepsPromise
<1>1. MemoryInit => Promise!Init BY DEF MemoryInit
<1>2. MemoryInv /\ [MemoryNext]_memoryVars => [Promise!Next]_(Promise!tokenVars)
  BY MemoryStepRefines
<1> QED BY MemoryInvariant, <1>1, <1>2, PTL DEF MemorySpec, KeepsPromise, Promise!Spec

HIDE DEF Promise!tokenVars, Promise!Ops, Promise!Answers, Promise!NoCall,
        Promise!Calls

-----------------------------------------------------------------------------
(* The sessions.                                                           *)

SessionTypeOK ==
  /\ sessions \subseteq Created /\ Created \subseteq SessionIDs
  /\ owner \in [Created -> Users]
  /\ lapsed \subseteq everLapsed /\ everLapsed \subseteq Created
  /\ ended \subseteq Created
  /\ lookup \in [Requests -> Lookups \cup {NoLookup}]

\* What a lookup knows: a session that had ended is not found, one that is
\* taken for valid was seen unexpired, one taken for expired was expired.
Knows(r) ==
  lookup[r] # NoLookup =>
    /\ lookup[r].on \in Created
    /\ lookup[r].late => /\ lookup[r].on \in ended
                         /\ lookup[r].at \in {"lookup", "found nothing"}
    /\ ~lookup[r].fresh => lookup[r].on \in lapsed
    /\ lookup[r].at \in {"valid", "extend", "returned"} => lookup[r].fresh
    /\ lookup[r].at = "expired" => lookup[r].on \in everLapsed

LookupKnows == \A r \in Requests : Knows(r)

SessionInv == SessionTypeOK /\ LookupKnows /\ EndedStaysEnded /\ OnlyExpiredLost

LEMMA SessionInitInv == SessionInit => SessionInv
BY DEF SessionInit, SessionInv, SessionTypeOK, LookupKnows, Knows, EndedStaysEnded,
       OnlyExpiredLost, Created, NoLookup

\* What is left alone by a step is known as before, as sets of history grow.
LEMMA KnowsKept ==
  ASSUME NEW q \in Requests, Knows(q), lookup'[q] = lookup[q],
         Created \subseteq Created', ended \subseteq ended', lapsed \subseteq lapsed',
         everLapsed \subseteq everLapsed'
  PROVE  Knows(q)'
BY DEF Knows

\* Moving a lookup on keeps everything about it but its place.
LEMMA MoveKeeps ==
  ASSUME SessionInv, NEW r \in Requests, lookup[r] # NoLookup,
         NEW stage \in Stages, Move(r, stage)
  PROVE  /\ lookup' \in [Requests -> Lookups \cup {NoLookup}]
         /\ \A q \in Requests \ {r} : lookup'[q] = lookup[q]
         /\ lookup'[r].on = lookup[r].on
         /\ lookup'[r].late = lookup[r].late
         /\ lookup'[r].fresh = lookup[r].fresh
         /\ lookup'[r].at = stage
<1>1. lookup[r] \in Lookups BY DEF SessionInv, SessionTypeOK
<1> DEFINE moved == [lookup[r] EXCEPT !.at = stage]
<1>2. /\ moved \in Lookups
      /\ moved.on = lookup[r].on /\ moved.late = lookup[r].late
      /\ moved.fresh = lookup[r].fresh /\ moved.at = stage
  BY <1>1 DEF Lookups
<1>3. lookup' = [lookup EXCEPT ![r] = moved] BY DEF Move
<1> HIDE DEF moved
<1> QED BY <1>2, <1>3 DEF SessionInv, SessionTypeOK

LEMMA CreateInv ==
  ASSUME SessionInv, NEW s \in SessionIDs, NEW u \in Users, CreateSession(s, u)
  PROVE  SessionInv'
<1>1. Created' = Created \cup {s}
  BY DEF CreateSession, Created
<1>2. owner' \in [Created' -> Users]
  BY <1>1 DEF CreateSession, SessionInv, SessionTypeOK
<1>3. SessionTypeOK'
  BY <1>1, <1>2 DEF CreateSession, SessionInv, SessionTypeOK
<1>4. LookupKnows'
  BY <1>1, KnowsKept DEF CreateSession, SessionInv, LookupKnows
<1>5. EndedStaysEnded' /\ OnlyExpiredLost'
  BY <1>1 DEF CreateSession, SessionInv, SessionTypeOK, EndedStaysEnded, OnlyExpiredLost
<1> QED BY <1>3, <1>4, <1>5 DEF SessionInv

LEMMA BeginInv ==
  ASSUME SessionInv, NEW r \in Requests, NEW o \in {"get", "refresh"},
         NEW s \in SessionIDs, Begin(r, o, s)
  PROVE  SessionInv'
<1>1. Created' = Created BY DEF Begin, Created
<1> DEFINE made == [op |-> o, on |-> s, at |-> "lookup",
                    late |-> s \in ended, fresh |-> s \notin lapsed]
<1>a. lookup' = [lookup EXCEPT ![r] = made] BY DEF Begin
<1>b. made \in Lookups BY DEF Lookups, Stages
<1>c. /\ made.on = s /\ made.at = "lookup"
      /\ made.late = (s \in ended) /\ made.fresh = (s \notin lapsed)
  OBVIOUS
<1> HIDE DEF made
<1>2. lookup' \in [Requests -> Lookups \cup {NoLookup}]
  BY <1>a, <1>b DEF SessionInv, SessionTypeOK
<1>3. SessionTypeOK'
  BY <1>1, <1>2 DEF Begin, SessionInv, SessionTypeOK
<1>4. ASSUME NEW q \in Requests PROVE Knows(q)'
  <2>1. CASE q = r
    <3>1. lookup'[q] = made BY <1>a, <2>1 DEF SessionInv, SessionTypeOK
    <3>2. s \in Created /\ UNCHANGED <<lapsed, ended, everLapsed>> BY DEF Begin
    <3>3. lookup'[q].on = s /\ lookup'[q].at = "lookup"
          /\ lookup'[q].late = (s \in ended) /\ lookup'[q].fresh = (s \notin lapsed)
      BY <1>c, <3>1
    <3>4. lookup'[q].late => s \in ended BY <3>3
    <3>5. ~lookup'[q].fresh => s \in lapsed BY <3>3
    <3> QED BY <1>1, <3>2, <3>3, <3>4, <3>5 DEF Knows
  <2>2. CASE q # r
    <3>1. lookup'[q] = lookup[q] BY <1>a, <2>2 DEF SessionInv, SessionTypeOK
    <3> QED BY <1>1, <3>1, KnowsKept DEF Begin, SessionInv, LookupKnows
  <2> QED BY <2>1, <2>2
<1>5. EndedStaysEnded' /\ OnlyExpiredLost'
  BY <1>1 DEF Begin, SessionInv, EndedStaysEnded, OnlyExpiredLost
<1> QED BY <1>3, <1>4, <1>5 DEF SessionInv, LookupKnows

\* A lookup moves on to a stage its session allows.
LEMMA MoveInv ==
  ASSUME SessionInv, NEW r \in Requests, lookup[r] # NoLookup,
         NEW stage \in Stages, Move(r, stage),
         UNCHANGED <<lapsed, owner, ended, everLapsed>>,
         sessions' \subseteq sessions,
         sessions \ sessions' \subseteq everLapsed,
         lookup[r].late => stage \in {"lookup", "found nothing"},
         stage \in {"valid", "extend", "returned"} => lookup[r].fresh,
         stage = "expired" => lookup[r].on \in everLapsed
  PROVE  SessionInv'
<1>1. Created' = Created BY DEF Created
<1>2. SessionTypeOK' BY <1>1, MoveKeeps DEF SessionInv, SessionTypeOK
<1>3. ASSUME NEW q \in Requests PROVE Knows(q)'
  <2>1. CASE q = r
    <3>1. Knows(r) BY DEF SessionInv, LookupKnows
    <3> QED BY <1>1, <2>1, <3>1, MoveKeeps DEF Knows
  <2>2. CASE q # r
    BY <1>1, <2>2, MoveKeeps, KnowsKept DEF SessionInv, LookupKnows
  <2> QED BY <2>1, <2>2
<1>4. EndedStaysEnded' /\ OnlyExpiredLost'
  BY <1>1 DEF SessionInv, EndedStaysEnded, OnlyExpiredLost
<1> QED BY <1>2, <1>3, <1>4 DEF SessionInv, LookupKnows

LEMMA RefreshInv ==
  ASSUME SessionInv, NEW r \in Requests, lookup[r] # NoLookup, RefreshSession(r)
  PROVE  SessionInv'
<1>1. Created' = Created BY DEF Created, RefreshSession
<1>2. ASSUME NEW q \in Requests, lookup[q] # NoLookup, lookup[q].on = lookup[r].on
      PROVE  /\ lookup'[q] \in Lookups
             /\ lookup'[q].on = lookup[q].on /\ lookup'[q].late = lookup[q].late
             /\ lookup'[q].fresh
             /\ lookup'[q].at = IF q = r THEN "returned" ELSE lookup[q].at
  <2>1. lookup[q] \in Lookups BY <1>2 DEF SessionInv, SessionTypeOK
  <2> DEFINE stage == IF q = r THEN "returned" ELSE lookup[q].at
  <2> DEFINE new == [lookup[q] EXCEPT !.fresh = TRUE, !.at = stage]
  <2>2. stage \in Stages BY <2>1 DEF Lookups, Stages
  <2>3. lookup'[q] = new BY <1>2 DEF RefreshSession, Freshen
  <2> HIDE DEF stage
  <2>4. /\ new \in Lookups /\ new.on = lookup[q].on /\ new.late = lookup[q].late
        /\ new.fresh /\ new.at = stage
    BY <2>1, <2>2 DEF Lookups
  <2> HIDE DEF new
  <2> QED BY <2>3, <2>4 DEF stage
<1>3. ASSUME NEW q \in Requests, lookup[q] = NoLookup \/ lookup[q].on # lookup[r].on
      PROVE  lookup'[q] = lookup[q]
  BY <1>3 DEF RefreshSession, Freshen
<1>4. lookup' \in [Requests -> Lookups \cup {NoLookup}]
  <2>1. lookup' = [q \in Requests |-> lookup'[q]] BY DEF RefreshSession, Freshen
  <2>2. \A q \in Requests : lookup'[q] \in Lookups \cup {NoLookup}
    BY <1>2, <1>3 DEF SessionInv, SessionTypeOK
  <2> QED BY <2>1, <2>2
<1>5. SessionTypeOK'
  BY <1>1, <1>4 DEF RefreshSession, SessionInv, SessionTypeOK
<1>6. ASSUME NEW q \in Requests PROVE Knows(q)'
  <2>1. Knows(q) /\ Knows(r) BY DEF SessionInv, LookupKnows
  <2>2. CASE lookup[q] # NoLookup /\ lookup[q].on = lookup[r].on
    <3>1. ~lookup[r].late BY <2>1 DEF Knows, RefreshSession, At
    <3> QED BY <1>1, <1>2, <2>1, <2>2, <3>1 DEF Knows, RefreshSession
  <2>3. CASE lookup[q] = NoLookup \/ lookup[q].on # lookup[r].on
    BY <1>1, <1>3, <2>1, <2>3 DEF Knows, RefreshSession
  <2> QED BY <2>2, <2>3
<1>7. EndedStaysEnded' /\ OnlyExpiredLost'
  BY <1>1 DEF RefreshSession, SessionInv, EndedStaysEnded, OnlyExpiredLost
<1> QED BY <1>5, <1>6, <1>7 DEF SessionInv, LookupKnows

LEMMA LookupInv ==
  ASSUME SessionInv, NEW r \in Requests, LookupStep(r)
  PROVE  SessionInv'
<1>1. lookup[r] # NoLookup
  <2>1. lookup[r].at # "none"
    BY DEF LookupStep, Find, CheckExpiry, DeleteExpired, TouchLastSeen,
           RefreshSession, At
  <2> QED BY <2>1 DEF NoLookup
<1>2. Knows(r) /\ lookup[r] \in Lookups
  BY <1>1 DEF SessionInv, LookupKnows, SessionTypeOK
<1>3. CASE Find(r)
  <2>1. PICK stage \in {"found", "found nothing"} :
          Move(r, stage) /\ (stage = "found" => lookup[r].on \in sessions)
    BY <1>3 DEF Find
  <2>2. stage \in Stages BY DEF Stages
  <2>3. lookup[r].late => stage = "found nothing"
    BY <1>1, <1>2, <2>1 DEF Knows, SessionInv, EndedStaysEnded
  <2> QED BY <1>1, <1>3, <2>1, <2>2, <2>3, MoveInv DEF Find
<1>4. CASE CheckExpiry(r)
  <2>1. PICK stage \in {"expired", "valid"} :
          Move(r, stage) /\ (stage = "expired" <=> lookup[r].on \in lapsed)
    BY <1>4 DEF CheckExpiry
  <2>2. stage \in Stages BY DEF Stages
  <2>3. ~lookup[r].late BY <1>4, <1>1, <1>2 DEF Knows, CheckExpiry, At
  <2>4. stage = "valid" => lookup[r].fresh BY <1>1, <1>2, <2>1 DEF Knows
  <2>5. stage = "expired" => lookup[r].on \in everLapsed
    BY <2>1 DEF SessionInv, SessionTypeOK
  <2> QED BY <1>1, <1>4, <2>1, <2>2, <2>3, <2>4, <2>5, MoveInv DEF CheckExpiry
<1>5. CASE DeleteExpired(r)
  <2>1. Move(r, "found nothing") /\ "found nothing" \in Stages
    BY <1>5 DEF DeleteExpired, Stages
  <2>2. lookup[r].on \in everLapsed BY <1>5, <1>1, <1>2 DEF DeleteExpired, At, Knows
  <2> QED BY <1>1, <1>5, <2>1, <2>2, MoveInv DEF DeleteExpired
<1>6. CASE TouchLastSeen(r)
  <2>1. PICK stage \in {"extend", "returned"} : Move(r, stage)
    BY <1>6 DEF TouchLastSeen
  <2>2. stage \in Stages BY DEF Stages
  <2>3. ~lookup[r].late /\ lookup[r].fresh
    BY <1>6, <1>1, <1>2 DEF TouchLastSeen, At, Knows
  <2> QED BY <1>1, <1>6, <2>1, <2>2, <2>3, MoveInv DEF TouchLastSeen
<1>7. CASE RefreshSession(r) BY <1>1, <1>7, RefreshInv
<1> QED BY <1>3, <1>4, <1>5, <1>6, <1>7 DEF LookupStep

\* Steps that leave the lookups alone: sessions end, or expire.
LEMMA OtherInv ==
  ASSUME SessionInv, UNCHANGED <<owner, lookup>>, sessions' \subseteq sessions,
         ended \subseteq ended', ended' \subseteq Created, ended' \cap sessions' = {},
         lapsed \subseteq lapsed', lapsed' \subseteq everLapsed',
         everLapsed \subseteq everLapsed', everLapsed' \subseteq Created,
         sessions \ sessions' \subseteq ended' \cup everLapsed
  PROVE  SessionInv'
<1>1. Created' = Created BY DEF Created
<1>2. SessionTypeOK' BY <1>1 DEF SessionInv, SessionTypeOK
<1>3. LookupKnows' BY <1>1, KnowsKept DEF SessionInv, LookupKnows
<1>4. EndedStaysEnded' /\ OnlyExpiredLost'
  BY <1>1 DEF SessionInv, EndedStaysEnded, OnlyExpiredLost
<1> QED BY <1>2, <1>3, <1>4 DEF SessionInv

LEMMA EndInv ==
  ASSUME SessionInv, NEW gone \in SUBSET Created, End(gone)
  PROVE  SessionInv'
BY OtherInv DEF End, SessionInv, SessionTypeOK, EndedStaysEnded

LEMMA ReturnInv ==
  ASSUME SessionInv, NEW r \in Requests, Return(r)
  PROVE  SessionInv'
<1>1. Created' = Created BY DEF Return, Created
<1>2. \A q \in Requests : lookup'[q] = IF q = r THEN NoLookup ELSE lookup[q]
  BY DEF Return, SessionInv, SessionTypeOK
<1>3. SessionTypeOK' BY <1>1 DEF Return, SessionInv, SessionTypeOK
<1>4. ASSUME NEW q \in Requests PROVE Knows(q)'
  <2>1. CASE q = r
    <3>1. (lookup[q] = NoLookup)' BY <1>2, <2>1 DEF NoLookup
    <3> QED BY <3>1 DEF Knows
  <2>2. CASE q # r
    BY <1>1, <1>2, <2>2, KnowsKept DEF Return, SessionInv, LookupKnows
  <2> QED BY <2>1, <2>2
<1>5. EndedStaysEnded' /\ OnlyExpiredLost'
  BY <1>1 DEF Return, SessionInv, EndedStaysEnded, OnlyExpiredLost
<1> QED BY <1>3, <1>4, <1>5 DEF SessionInv, LookupKnows

\* Every step of the session manager keeps its invariant.
LEMMA SessionStepInv == SessionInv /\ [SessionNext]_sessionVars => SessionInv'
<1> SUFFICES ASSUME SessionInv, [SessionNext]_sessionVars PROVE SessionInv'
  OBVIOUS
<1>1. ASSUME NEW s \in SessionIDs, NEW u \in Users, CreateSession(s, u) PROVE SessionInv'
  BY <1>1, CreateInv
<1>2. ASSUME NEW r \in Requests, NEW o \in {"get", "refresh"}, NEW s \in SessionIDs,
             Begin(r, o, s)
      PROVE SessionInv'
  BY <1>2, BeginInv
<1>3. ASSUME NEW r \in Requests, LookupStep(r) PROVE SessionInv'
  BY <1>3, LookupInv
<1>4. ASSUME NEW r \in Requests, Return(r) PROVE SessionInv'
  BY <1>4, ReturnInv
<1>5. ASSUME NEW s \in SessionIDs, DeleteSession(s) PROVE SessionInv'
  BY <1>5, EndInv DEF DeleteSession
<1>6. ASSUME NEW s \in SessionIDs, Lapse(s) PROVE SessionInv'
  BY <1>6, OtherInv DEF Lapse, SessionInv, SessionTypeOK, EndedStaysEnded
<1>7. ASSUME NEW u \in Users, DeleteUserSessions(u) PROVE SessionInv'
  <2>1. OwnedBy(u) \in SUBSET Created BY DEF OwnedBy, SessionInv, SessionTypeOK
  <2> QED BY <1>7, <2>1, EndInv DEF DeleteUserSessions
<1>8. CASE Close
  BY <1>8, EndInv DEF Close, SessionInv, SessionTypeOK
<1>9. CASE CleanupExpiredSessions
  BY <1>9, OtherInv DEF CleanupExpiredSessions, Unexpired, SessionInv, SessionTypeOK,
     EndedStaysEnded
<1>10. CASE UNCHANGED sessionVars
  BY <1>10, OtherInv DEF sessionVars, SessionInv, SessionTypeOK, EndedStaysEnded
<1> QED
  BY <1>1, <1>2, <1>3, <1>4, <1>5, <1>6, <1>7, <1>8, <1>9, <1>10 DEF SessionNext

-----------------------------------------------------------------------------
\* Every step of Authentication is a step of the session manager and one of the
\* store, each of which may be a stutter.
LEMMA StepOfParts ==
  ASSUME SessionTypeOK, MemoryTypeOK, [AuthNext]_authVars
  PROVE  [SessionNext]_sessionVars /\ [MemoryNext]_memoryVars
<1> USE RequestsAreClients DEF sessionVars, memoryVars, tokenPart, oauthVars
<1>1. ASSUME NEW r \in Requests, Arrival(r)
      PROVE  UNCHANGED <<sessionVars, memoryVars>>
  BY <1>1 DEF Arrival, Arrive
<1>2. ASSUME NEW r \in Requests, RequestStep(r)
      PROVE  [SessionNext]_sessionVars /\ [MemoryNext]_memoryVars
  <2>1. CASE PassOpen(r) \/ NoToken(r) \/ HandlePage(r) \/ LoginDisabled(r)
              \/ CleanupExpiredStates(r) \/ ValidateState(r) \/ RemoveState(r)
              \/ AskProvider(r)
    BY <2>1 DEF PassOpen, NoToken, HandlePage, LoginDisabled, CleanupExpiredStates,
                ValidateState, RemoveState, AskProvider
  <2>2. CASE UseToken(r)
    <3>1. request[r].tok \in Tokens
      BY <2>2 DEF UseToken, Calling, Promise!Begin, MemoryTypeOK
    <3> QED BY <2>2, <3>1 DEF UseToken, MemoryNext, Promise!Ops
  <2>3. CASE TokenAnswered(r) \/ TokenDeleted(r)
    BY <2>3 DEF TokenAnswered, TokenDeleted, MemoryNext
  <2>4. CASE UseSession(r)
    <3>1. CASE request[r].sid # None
      <4>1. Begin(r, "get", request[r].sid) /\ request[r].sid \in SessionIDs
        BY <2>4, <3>1 DEF UseSession, Begin, SessionTypeOK
      <4> QED BY <2>4, <4>1 DEF UseSession, SessionNext
    <3>2. CASE request[r].sid = None BY <2>4, <3>2 DEF UseSession
    <3> QED BY <3>1, <3>2
  <2>5. CASE SessionAnswered(r) BY <2>5 DEF SessionAnswered, SessionNext
  <2>6. CASE HandleLogout(r)
    <3>1. CASE DeleteSession(request[r].sid) /\ request[r].sid \in Created
      BY <2>6, <3>1 DEF HandleLogout, SessionNext, SessionTypeOK
    <3>2. CASE DeleteSession(request[r].sid) /\ request[r].sid \notin Created
      BY <2>6, <3>2 DEF HandleLogout, DeleteSession, End
    <3> QED BY <2>6, <3>1, <3>2 DEF HandleLogout
  <2>7. ASSUME NEW t \in Tokens,
               HandleCreateScreenToken(r, t) \/ HandleDeleteScreenToken(r, t)
        PROVE  [SessionNext]_sessionVars /\ [MemoryNext]_memoryVars
    BY <2>7 DEF HandleCreateScreenToken, HandleDeleteScreenToken, MemoryNext, Promise!Ops
  <2>8. ASSUME NEW st \in States, HandleLogin(r, st)
        PROVE  UNCHANGED <<sessionVars, memoryVars>>
    BY <2>8 DEF HandleLogin
  <2>9. ASSUME NEW s \in SessionIDs, NEW u \in Users, OpenSession(r, s, u)
        PROVE  [SessionNext]_sessionVars /\ [MemoryNext]_memoryVars
    BY <2>9 DEF OpenSession, SessionNext
  <2> QED BY <1>2, <2>1, <2>2, <2>3, <2>4, <2>5, <2>6, <2>7, <2>8, <2>9 DEF RequestStep
<1>3. ASSUME NEW r \in Requests, Redemption(r)
      PROVE  [SessionNext]_sessionVars /\ [MemoryNext]_memoryVars
  BY <1>3 DEF Redemption, MemoryNext, Promise!Ops
<1>4. ASSUME NEW r \in Requests, NEW s \in SessionIDs, CallRefresh(r, s)
      PROVE  [SessionNext]_sessionVars /\ [MemoryNext]_memoryVars
  BY <1>4 DEF CallRefresh, SessionNext
<1>5. ASSUME NEW st \in States, Stale(st) PROVE UNCHANGED <<sessionVars, memoryVars>>
  BY <1>5 DEF Stale
<1>6. CASE SessionsAlone BY <1>6 DEF SessionsAlone, SessionNext
<1>7. CASE StoreAlone BY <1>7 DEF StoreAlone, MemoryNext
<1>8. CASE UNCHANGED authVars BY <1>8 DEF authVars
<1> QED BY <1>1, <1>2, <1>3, <1>4, <1>5, <1>6, <1>7, <1>8 DEF AuthNext

-----------------------------------------------------------------------------
(* The requests.                                                           *)

OAuthTypeOK ==
  /\ config \in [Enabled : BOOLEAN, ScreenTokens : BOOLEAN]
  /\ states \subseteq issuedStates /\ issuedStates \subseteq States
  /\ staleStates \subseteq issuedStates /\ spent \subseteq issuedStates

RequestTypeOK == request \in [Requests -> Request \cup {Idle}]

\* A late request presents what was withdrawn before it; a call made for a
\* request is about what it presents.
Honest(r) ==
  request[r] # Idle =>
    /\ request[r].late => /\ request[r].sid \in ended \cup {None}
                          /\ request[r].tok \in deleted \cup expired \cup {None}
                          /\ request[r].state \in spent \cup {None}
    /\ request[r].at = "token" =>
         /\ call[r].op = "validate" /\ call[r].on = request[r].tok
         /\ request[r].late => call[r].ans # "ok"
    /\ request[r].at = "looking" /\ request[r].kind # "refresh" =>
         /\ lookup[r] # NoLookup /\ lookup[r].on = request[r].sid
         /\ request[r].late => lookup[r].late
    /\ request[r].at \in {"removing", "exchanging", "opening"} =>
         request[r].state \in issuedStates /\ ~request[r].late
    /\ request[r].at = "admitted" =>
         Open(r) \/ Is(r, {"optional"}) \/ ~request[r].late

AuthInv ==
  /\ SessionInv /\ MemoryInv /\ OAuthTypeOK /\ RequestTypeOK
  /\ states \cap spent = {}
  /\ \A r \in Requests : Honest(r)

LEMMA AuthInitInv == AuthInit => AuthInv
<1> SUFFICES ASSUME AuthInit PROVE AuthInv OBVIOUS
<1>1. SessionInv /\ MemoryInv BY SessionInitInv, MemoryInitInv DEF AuthInit
<1>2. OAuthTypeOK /\ RequestTypeOK /\ states \cap spent = {}
  BY DEF AuthInit, OAuthTypeOK, RequestTypeOK
<1>3. \A r \in Requests : Honest(r) BY DEF AuthInit, Honest
<1> QED BY <1>1, <1>2, <1>3 DEF AuthInv

\* The request of r goes on; nobody else's changes.
LEMMA RequestMoves ==
  ASSUME RequestTypeOK, NEW r \in Requests, request[r] # Idle
  PROVE  /\ \A place \in Places : Go(r, place) =>
              /\ RequestTypeOK' /\ (request[r] # Idle)'
              /\ request'[r].at = place /\ request'[r].kind = request[r].kind
              /\ request'[r].sid = request[r].sid /\ request'[r].tok = request[r].tok
              /\ request'[r].state = request[r].state
              /\ request'[r].late = request[r].late
         /\ Admit(r) =>
              /\ RequestTypeOK' /\ (request[r] # Idle)'
              /\ request'[r].at = "admitted" /\ request'[r].kind = request[r].kind
              /\ request'[r].sid = None /\ request'[r].tok = None
              /\ request'[r].state = request[r].state
              /\ request'[r].late = request[r].late
         /\ Finish(r) => RequestTypeOK' /\ (request[r] = Idle)'
         /\ (\E place \in Places : Go(r, place)) \/ Admit(r) \/ Finish(r) =>
              \A q \in Requests \ {r} : request'[q] = request[q]
<1>1. request[r] \in Request BY DEF RequestTypeOK
<1>2. ASSUME NEW place \in Places, Go(r, place)
      PROVE  /\ RequestTypeOK' /\ (request[r] # Idle)'
             /\ request'[r].at = place /\ request'[r].kind = request[r].kind
             /\ request'[r].sid = request[r].sid /\ request'[r].tok = request[r].tok
             /\ request'[r].state = request[r].state
             /\ request'[r].late = request[r].late
             /\ \A q \in Requests \ {r} : request'[q] = request[q]
  <2> DEFINE new == [request[r] EXCEPT !.at = place]
  <2>1. /\ new \in Request /\ new.at = place /\ new.kind = request[r].kind
        /\ new.sid = request[r].sid /\ new.tok = request[r].tok
        /\ new.state = request[r].state /\ new.late = request[r].late
    BY <1>1 DEF Request
  <2>2. new.at # "idle" BY <2>1 DEF Places
  <2>3. request' = [request EXCEPT ![r] = new] BY <1>2 DEF Go
  <2> HIDE DEF new
  <2>4. new # Idle BY <2>2 DEF Idle
  <2>5. request'[r] = new BY <2>3 DEF RequestTypeOK
  <2>6. (request[r] # Idle)' BY <2>4, <2>5 DEF Idle
  <2>7. \A q \in Requests \ {r} : request'[q] = request[q]
    BY <2>3 DEF RequestTypeOK
  <2>8. RequestTypeOK' BY <2>1, <2>3 DEF RequestTypeOK, Request, Idle
  <2> QED BY <2>1, <2>5, <2>6, <2>7, <2>8
<1>3. ASSUME Admit(r)
      PROVE  /\ RequestTypeOK' /\ (request[r] # Idle)'
             /\ request'[r].at = "admitted" /\ request'[r].kind = request[r].kind
             /\ request'[r].sid = None /\ request'[r].tok = None
             /\ request'[r].state = request[r].state
             /\ request'[r].late = request[r].late
             /\ \A q \in Requests \ {r} : request'[q] = request[q]
  <2> DEFINE new == [request[r] EXCEPT !.at = "admitted", !.sid = None, !.tok = None]
  <2>1. /\ new \in Request /\ new.at = "admitted" /\ new.kind = request[r].kind
        /\ new.sid = None /\ new.tok = None
        /\ new.state = request[r].state /\ new.late = request[r].late
    BY <1>1 DEF Request, Places
  <2>3. request' = [request EXCEPT ![r] = new] BY <1>3 DEF Admit
  <2> HIDE DEF new
  <2>4. new # Idle BY <2>1 DEF Idle
  <2>5. request'[r] = new BY <2>3 DEF RequestTypeOK
  <2>6. (request[r] # Idle)' BY <2>4, <2>5 DEF Idle
  <2>7. \A q \in Requests \ {r} : request'[q] = request[q]
    BY <2>3 DEF RequestTypeOK
  <2>8. RequestTypeOK' BY <2>1, <2>3 DEF RequestTypeOK, Request, Idle
  <2> QED BY <2>1, <2>5, <2>6, <2>7, <2>8
<1>4. ASSUME Finish(r)
      PROVE  /\ RequestTypeOK' /\ (request[r] = Idle)'
             /\ \A q \in Requests \ {r} : request'[q] = request[q]
  BY <1>4 DEF Finish, RequestTypeOK, Request, Idle
<1> QED BY <1>2, <1>3, <1>4

\* What a request knows survives the steps of the others.
LEMMA HonestKept ==
  ASSUME NEW q \in Requests, Honest(q), request'[q] = request[q], config' = config,
         ended \subseteq ended', deleted \subseteq deleted', expired \subseteq expired',
         spent \subseteq spent', issuedStates \subseteq issuedStates',
         call[q].op = "validate" =>
           /\ call'[q].op = call[q].op /\ call'[q].on = call[q].on
           /\ request[q].late => call'[q].ans # "ok",
         lookup[q] # NoLookup =>
           /\ (lookup[q] # NoLookup)' /\ lookup'[q].on = lookup[q].on
           /\ lookup'[q].late = lookup[q].late
  PROVE  Honest(q)'
<1>1. CASE request[q] = Idle BY <1>1 DEF Honest, Idle
<1>2. CASE request[q] # Idle
  <2>1. request'[q].late => /\ request'[q].sid \in ended' \cup {None}
                            /\ request'[q].tok \in deleted' \cup expired' \cup {None}
                            /\ request'[q].state \in spent' \cup {None}
    BY <1>2 DEF Honest
  <2>2. request'[q].at = "token" =>
         /\ call'[q].op = "validate" /\ call'[q].on = request'[q].tok
         /\ request'[q].late => call'[q].ans # "ok"
    BY <1>2 DEF Honest
  <2>3. request'[q].at = "looking" /\ request'[q].kind # "refresh" =>
         /\ (lookup[q] # NoLookup)' /\ lookup'[q].on = request'[q].sid
         /\ request'[q].late => lookup'[q].late
    BY <1>2 DEF Honest
  <2>4. request'[q].at \in {"removing", "exchanging", "opening"} =>
         request'[q].state \in issuedStates' /\ ~request'[q].late
    BY <1>2 DEF Honest
  <2>5. request'[q].at = "admitted" =>
         Open(q)' \/ Is(q, {"optional"})' \/ ~request'[q].late
    BY <1>2 DEF Honest, Open, Is
  <2> QED BY <2>1, <2>2, <2>3, <2>4, <2>5 DEF Honest
<1> QED BY <1>1, <1>2

\* The histories of the two parts only grow.
LEMMA HistoryGrows ==
  ASSUME [SessionNext]_sessionVars, [MemoryNext]_memoryVars, MemoryTypeOK
  PROVE  ended \subseteq ended' /\ deleted \subseteq deleted' /\ expired \subseteq expired'
<1>1. ended \subseteq ended'
  BY DEF SessionNext, sessionVars, CreateSession, Begin, LookupStep, Find, CheckExpiry,
         DeleteExpired, TouchLastSeen, RefreshSession, Return, DeleteSession, Lapse,
         DeleteUserSessions, Close, End, CleanupExpiredSessions
<1>2. deleted \subseteq deleted' /\ expired \subseteq expired'
  BY DEF MemoryNext, memoryVars, CreateToken, Promise!Create, Passes, Promise!Expire,
         Calling, Promise!Begin, RedeemScreenToken, ValidateScreenToken,
         DeleteScreenToken, Promise!Delete, Returning, Promise!Return
<1> QED BY <1>1, <1>2

\* A lookup goes on with its session.
LEMMA LookupKept ==
  ASSUME SessionInv, NEW r \in Requests, LookupStep(r), NEW q \in Requests,
         lookup[q] # NoLookup
  PROVE  /\ (lookup[q] # NoLookup)' /\ lookup'[q].on = lookup[q].on
         /\ lookup'[q].late = lookup[q].late
<1>1. lookup[q] \in Lookups BY DEF SessionInv, SessionTypeOK
<1>2. CASE q # r /\ ~RefreshSession(r)
  <2>1. lookup'[q] = lookup[q]
    BY <1>2 DEF LookupStep, Find, CheckExpiry, DeleteExpired, TouchLastSeen, Move,
                SessionInv, SessionTypeOK
  <2> QED BY <2>1 DEF NoLookup
<1>3. CASE q = r /\ ~RefreshSession(r)
  <2>1. PICK stage \in Stages : Move(r, stage)
    BY <1>3 DEF LookupStep, Find, CheckExpiry, DeleteExpired, TouchLastSeen, Stages
  <2>2. lookup'[r].on = lookup[r].on /\ lookup'[r].late = lookup[r].late
        /\ lookup'[r].at = stage
    BY <1>3, <2>1, MoveKeeps
  <2>3. stage # "none" BY DEF Stages
  <2>4. (lookup[r] # NoLookup)' BY <2>2, <2>3 DEF NoLookup
  <2> QED BY <1>3, <2>2, <2>4
<1>4. CASE RefreshSession(r)
  <2> DEFINE new == [lookup[q] EXCEPT !.fresh = TRUE, !.at = IF q = r THEN "returned" ELSE @]
  <2>1. lookup'[q] = new \/ lookup'[q] = lookup[q]
    BY <1>4 DEF RefreshSession, Freshen
  <2>2. new.on = lookup[q].on /\ new.late = lookup[q].late /\ new.at # "none"
    BY <1>1 DEF Lookups, Stages
  <2> HIDE DEF new
  <2>3. new # NoLookup BY <2>2 DEF NoLookup
  <2>4. CASE lookup'[q] = new
    <3>1. (lookup[q] # NoLookup)' BY <2>4, <2>3 DEF NoLookup
    <3> QED BY <2>4, <2>2, <3>1
  <2>5. CASE lookup'[q] = lookup[q] BY <2>5 DEF NoLookup
  <2> QED BY <2>1, <2>4, <2>5
<1> QED BY <1>2, <1>3, <1>4

\* A call keeps what it is about until it returns; a token that is deleted or
\* has expired is not found valid.
LEMMA CallKept ==
  ASSUME MemoryInv, RequestTypeOK, NEW q \in Requests, Honest(q), request[q].at = "token",
         request[q] # Idle, NEW r \in Requests,
         ValidateScreenToken(r) \/ DeleteScreenToken(r) \/ RedeemScreenToken(r)
  PROVE  /\ call'[q].op = call[q].op /\ call'[q].on = call[q].on
         /\ request[q].late => call'[q].ans # "ok"
<1> USE RequestsAreClients, NoneIsNothing DEF Promise!Answers, Promise!Calls, Promise!NoCall
<1>1. call[r].op # "none"
  BY DEF ValidateScreenToken, DeleteScreenToken, RedeemScreenToken, Promise!Delete,
         Promise!Pending
<1>2. PICK a \in Promise!Answers : Promise!Answer(r, a)
  BY DEF ValidateScreenToken, DeleteScreenToken, RedeemScreenToken, Promise!Delete
<1>3. call'[q].op = call[q].op /\ call'[q].on = call[q].on
  <2>1. call[q].op # "none" BY DEF Honest
  <2> QED BY <1>1, <1>2, <2>1, AnswerKeeps
<1>4. ASSUME request[q].late PROVE call'[q].ans # "ok"
  <2>1. call[q].op = "validate" /\ call[q].on = request[q].tok /\ call[q].ans # "ok"
    BY <1>4 DEF Honest
  <2>2. CASE q # r
    <3>1. call'[q] = call[q] BY <1>2, <2>2 DEF Promise!Answer, MemoryInv, MemoryTypeOK
    <3> QED BY <2>1, <3>1
  <2>3. CASE q = r
    <3>1. ValidateScreenToken(q)
      BY <2>1, <2>3 DEF DeleteScreenToken, RedeemScreenToken, Promise!Delete, Promise!Pending
    <3>2. call[q].on \in issued /\ call[q].on # None
      BY <2>1 DEF MemoryInv, CallsKnown, MemoryTypeOK
    <3>3. call[q].on \in deleted \cup expired BY <1>4, <2>1, <3>2 DEF Honest
    <3>4. call[q].on \notin tokens \ expired
      BY <3>3 DEF MemoryInv, MapMatchesHistory
    <3>5. Promise!Answer(q, "refused") BY <3>1, <3>4 DEF ValidateScreenToken
    <3>6. call[q] \in Promise!Calls BY <2>1 DEF MemoryInv, MemoryTypeOK
    <3> QED BY <3>5, <3>6 DEF Promise!Answer, MemoryInv, MemoryTypeOK
  <2> QED BY <2>2, <2>3
<1> QED BY <1>3, <1>4

\* A step of r leaves the others as honest as they were.
LEMMA OthersHonest ==
  ASSUME AuthInv, [AuthNext]_authVars, NEW r \in Requests, config' = config,
         spent \subseteq spent', issuedStates \subseteq issuedStates',
         \A q \in Requests \ {r} : /\ request'[q] = request[q]
                                  /\ call'[q] = call[q] /\ lookup'[q] = lookup[q]
  PROVE  \A q \in Requests \ {r} : Honest(q)'
<1>1. [SessionNext]_sessionVars /\ [MemoryNext]_memoryVars
  BY StepOfParts DEF AuthInv, SessionInv, MemoryInv
<1>2. ended \subseteq ended' /\ deleted \subseteq deleted' /\ expired \subseteq expired'
  BY <1>1, HistoryGrows DEF AuthInv, MemoryInv
<1>3. ASSUME NEW q \in Requests \ {r} PROVE Honest(q)'
  <2>1. lookup[q] # NoLookup => (lookup[q] # NoLookup)' /\ lookup'[q].on = lookup[q].on
                                /\ lookup'[q].late = lookup[q].late
    BY DEF NoLookup
  <2>2. call[q].op = "validate" =>
           /\ call'[q].op = call[q].op /\ call'[q].on = call[q].on
           /\ request[q].late /\ request[q].at = "token" /\ request[q] # Idle
                => call'[q].ans # "ok"
    BY DEF AuthInv, Honest
  <2>3. Honest(q) BY DEF AuthInv
  <2>4. CASE request[q] # Idle /\ request[q].at = "token"
    BY <1>2, <2>1, <2>2, <2>3, <2>4, HonestKept
  <2>5. CASE request[q] # Idle /\ request[q].at # "token"
    BY <1>2, <2>1, <2>3, <2>5 DEF Honest, Open, Is, Idle
  <2>6. CASE request[q] = Idle BY <2>6 DEF Honest, Idle
  <2> QED BY <2>4, <2>5, <2>6
<1> QED BY <1>3

\* The rest of the invariant.
RestInv ==
  OAuthTypeOK /\ RequestTypeOK /\ states \cap spent = {} /\ \A r \in Requests : Honest(r)

LEMMA ArrivalInv ==
  ASSUME AuthInv, NEW r \in Requests, Arrival(r)
  PROVE  RestInv'
<1>1. PICK k \in Kinds \ {"refresh"}, s \in SessionIDs \cup {None}, t \in Tokens \cup {None},
            st \in States \cup {None} : Arrive(r, k, s, t, st)
  BY DEF Arrival, Arrive
<1> DEFINE late == /\ s \in ended \cup {None}
                   /\ t \in deleted \cup expired \cup {None}
                   /\ st \in spent \cup {None}
<1> DEFINE new == [kind |-> k, at |-> "arrived", sid |-> s, tok |-> t, state |-> st,
                   late |-> late]
<1>2. request' = [request EXCEPT ![r] = new] BY <1>1 DEF Arrive
<1>3. UNCHANGED <<sessionVars, tokenPart, config, oauthVars>> BY <1>1 DEF Arrive
<1>4. late \in BOOLEAN OBVIOUS
<1>5. new.late = late /\ new.sid = s /\ new.tok = t /\ new.state = st /\ new.at = "arrived"
  OBVIOUS
<1> HIDE DEF late
<1>6. new \in Request BY <1>4 DEF Request, Places, Kinds
<1> HIDE DEF new
<1>7. RequestTypeOK' BY <1>2, <1>6 DEF RequestTypeOK, AuthInv
<1>8. request'[r] = new /\ \A q \in Requests \ {r} : request'[q] = request[q]
  BY <1>2 DEF RequestTypeOK, AuthInv
<1>9. Honest(r)'
  <2>1. UNCHANGED <<ended, deleted, expired, spent>>
    BY <1>3 DEF sessionVars, tokenPart, oauthVars
  <2> QED BY <1>5, <1>8, <2>1 DEF Honest, late
<1>10. \A q \in Requests \ {r} : Honest(q)'
  BY <1>3, <1>8, OthersHonest DEF AuthNext, sessionVars, tokenPart, oauthVars
<1>11. OAuthTypeOK' /\ (states \cap spent = {})'
  BY <1>3 DEF OAuthTypeOK, AuthInv, oauthVars
<1> QED BY <1>7, <1>9, <1>10, <1>11 DEF RestInv

LEMMA RefreshCallInv ==
  ASSUME AuthInv, NEW r \in Requests, NEW s \in SessionIDs, CallRefresh(r, s)
  PROVE  RestInv'
<1> DEFINE late == s \in ended
<1> DEFINE new == [kind |-> "refresh", at |-> "looking", sid |-> s, tok |-> None,
                   state |-> None, late |-> late]
<1>2. request' = [request EXCEPT ![r] = new] BY DEF CallRefresh
<1>3. /\ UNCHANGED <<tokenPart, config, oauthVars, ended>>
      /\ \A q \in Requests \ {r} : lookup'[q] = lookup[q]
  BY DEF CallRefresh, Begin, AuthInv, SessionInv, SessionTypeOK
<1>4. late \in BOOLEAN OBVIOUS
<1>5. /\ new.late = late /\ new.sid = s /\ new.tok = None /\ new.state = None
      /\ new.at = "looking" /\ new.kind = "refresh"
  OBVIOUS
<1> HIDE DEF late
<1>6. new \in Request BY <1>4 DEF Request, Places, Kinds
<1> HIDE DEF new
<1>7. RequestTypeOK' BY <1>2, <1>6 DEF RequestTypeOK, AuthInv
<1>8. request'[r] = new /\ \A q \in Requests \ {r} : request'[q] = request[q]
  BY <1>2 DEF RequestTypeOK, AuthInv
<1>9. Honest(r)'
  BY <1>3, <1>5, <1>8 DEF Honest, late
<1>10. \A q \in Requests \ {r} : Honest(q)'
  BY <1>3, <1>8, OthersHonest DEF AuthNext, tokenPart, oauthVars
<1>11. OAuthTypeOK' /\ (states \cap spent = {})'
  BY <1>3 DEF OAuthTypeOK, AuthInv, oauthVars
<1> QED BY <1>7, <1>9, <1>10, <1>11 DEF RestInv

\* Steps outside the requests.
LEMMA AloneInv ==
  ASSUME AuthInv, \/ SessionsAlone \/ StoreAlone
                  \/ \E r \in Requests : Redemption(r)
                  \/ \E st \in States : Stale(st)
                  \/ UNCHANGED authVars
  PROVE  RestInv'
<1>1. [AuthNext]_authVars BY DEF AuthNext
<1>2. [SessionNext]_sessionVars /\ [MemoryNext]_memoryVars
  BY <1>1, StepOfParts DEF AuthInv, SessionInv, MemoryInv
<1>3. ended \subseteq ended' /\ deleted \subseteq deleted' /\ expired \subseteq expired'
  BY <1>2, HistoryGrows DEF AuthInv, MemoryInv
<1>4. UNCHANGED <<config, request, states, issuedStates, spent>>
  BY DEF SessionsAlone, StoreAlone, Redemption, Stale, authVars, oauthVars
<1>5. RequestTypeOK' BY <1>4 DEF RequestTypeOK, AuthInv
<1>6. OAuthTypeOK' /\ (states \cap spent = {})'
  <2>1. staleStates' \subseteq issuedStates'
    BY <1>4 DEF SessionsAlone, StoreAlone, Redemption, Stale, authVars, oauthVars, AuthInv,
                OAuthTypeOK
  <2> QED BY <1>4, <2>1 DEF OAuthTypeOK, AuthInv
<1>7. ASSUME NEW q \in Requests, request[q] # Idle, lookup[q] # NoLookup
      PROVE  /\ (lookup[q] # NoLookup)' /\ lookup'[q].on = lookup[q].on
             /\ lookup'[q].late = lookup[q].late
  <2>1. CASE \E r \in Requests : LookupStep(r)
    BY <1>7, <2>1, LookupKept DEF AuthInv
  <2>2. CASE lookup' = lookup BY <1>7, <2>2 DEF NoLookup
  <2>3. (\E r \in Requests : LookupStep(r)) \/ lookup' = lookup
    BY DEF SessionsAlone, StoreAlone, Redemption, Stale, authVars, sessionVars, Lapse,
           DeleteUserSessions, Close, End, CleanupExpiredSessions
  <2> QED BY <2>1, <2>2, <2>3
<1>8. ASSUME NEW q \in Requests, request[q] # Idle, request[q].at = "token"
      PROVE  /\ call'[q].op = call[q].op /\ call'[q].on = call[q].on
             /\ request[q].late => call'[q].ans # "ok"
  <2>1. Honest(q) BY DEF AuthInv
  <2>2. CASE call'[q] = call[q] BY <1>8, <2>1, <2>2 DEF Honest
  <2>3. ASSUME NEW r \in Requests,
               ValidateScreenToken(r) \/ DeleteScreenToken(r) \/ RedeemScreenToken(r)
        PROVE  /\ call'[q].op = call[q].op /\ call'[q].on = call[q].on
               /\ request[q].late => call'[q].ans # "ok"
    BY <1>8, <2>1, <2>3, CallKept DEF AuthInv
  <2>4. \/ call'[q] = call[q]
        \/ \E r \in Requests :
             ValidateScreenToken(r) \/ DeleteScreenToken(r) \/ RedeemScreenToken(r)
    <3>1. CASE SessionsAlone BY <3>1 DEF SessionsAlone, tokenPart
    <3>2. CASE StoreAlone BY <3>2 DEF StoreAlone, Passes, Promise!Expire
    <3>3. ASSUME NEW r \in Requests, Redemption(r) PROVE <2>4
      <4>1. r # q BY <1>8, <3>3 DEF Redemption
      <4>2. CASE \E t \in Tokens : Calling(r, "redeem", t)
        BY <4>1, <4>2 DEF Calling, Promise!Begin, AuthInv, MemoryInv, MemoryTypeOK
      <4>3. CASE Returning(r)
        BY <4>1, <4>3 DEF Returning, Promise!Return, AuthInv, MemoryInv, MemoryTypeOK
      <4> QED BY <3>3, <4>2, <4>3 DEF Redemption
    <3>4. ASSUME NEW st \in States, Stale(st) PROVE call'[q] = call[q]
      BY <3>4 DEF Stale, tokenPart
    <3>5. CASE UNCHANGED authVars BY <3>5 DEF authVars, memoryVars
    <3> QED BY <3>1, <3>2, <3>3, <3>4, <3>5
  <2> QED BY <2>2, <2>3, <2>4
<1>9. ASSUME NEW q \in Requests PROVE Honest(q)'
  <2>1. Honest(q) BY DEF AuthInv
  <2>2. CASE request[q] = Idle BY <1>4, <2>2 DEF Honest, Idle
  <2>3. CASE request[q] # Idle
    BY <1>3, <1>4, <1>7, <1>8, <2>1, <2>3 DEF Honest, Open, Is, Idle
  <2> QED BY <2>2, <2>3
<1> QED BY <1>5, <1>6, <1>9 DEF RestInv

\* A request that takes a step with its data kept is honest after it, if what
\* its new place asks for holds.
LEMMA StepHonest ==
  ASSUME AuthInv, NEW r \in Requests, [AuthNext]_authVars,
         request[r] # Idle, (request[r] # Idle)',
         request'[r].late = request[r].late, request'[r].state = request[r].state,
         request'[r].kind = request[r].kind, spent \subseteq spent',
         request'[r].sid \in {request[r].sid, None},
         request'[r].tok \in {request[r].tok, None},
         request'[r].at \in {"session", "deleting", "cleaning"}
  PROVE  Honest(r)'
<1>1. [SessionNext]_sessionVars /\ [MemoryNext]_memoryVars
  BY StepOfParts DEF AuthInv, SessionInv, MemoryInv
<1>2. ended \subseteq ended' /\ deleted \subseteq deleted' /\ expired \subseteq expired'
  BY <1>1, HistoryGrows DEF AuthInv, MemoryInv
<1>3. Honest(r) BY DEF AuthInv
<1> QED BY <1>2, <1>3 DEF Honest

LEMMA MiddlewareInv ==
  ASSUME AuthInv, NEW r \in Requests,
         \/ PassOpen(r) \/ UseToken(r) \/ TokenAnswered(r) \/ NoToken(r)
         \/ UseSession(r) \/ SessionAnswered(r)
  PROVE  RestInv'
<1> USE RequestsAreClients, NoneIsNothing
<1>1. [AuthNext]_authVars BY DEF AuthNext, RequestStep
<1>2. [SessionNext]_sessionVars /\ [MemoryNext]_memoryVars
  BY <1>1, StepOfParts DEF AuthInv, SessionInv, MemoryInv
<1>3. ended \subseteq ended' /\ deleted \subseteq deleted' /\ expired \subseteq expired'
  BY <1>2, HistoryGrows DEF AuthInv, MemoryInv
<1>4. /\ request[r] # Idle
      /\ (\E place \in {"token", "session", "looking"} : Go(r, place))
           \/ Admit(r) \/ Finish(r)
      /\ UNCHANGED <<config, oauthVars>>
  <2>1. request[r].at \in {"arrived", "token", "session", "looking"}
    BY DEF PassOpen, UseToken, TokenAnswered, NoToken, UseSession, SessionAnswered,
           Protected, InAt
  <2>2. request[r] # Idle BY <2>1 DEF Idle
  <2>3. (\E place \in {"token", "session", "looking"} : Go(r, place)) \/ Admit(r) \/ Finish(r)
    <3>1. CASE PassOpen(r) BY <3>1 DEF PassOpen
    <3>2. CASE UseToken(r) BY <3>2 DEF UseToken
    <3>3. CASE TokenAnswered(r) BY <3>3 DEF TokenAnswered
    <3>4. CASE NoToken(r) BY <3>4 DEF NoToken
    <3>5. CASE UseSession(r) BY <3>5 DEF UseSession, Unauthenticated
    <3>6. CASE SessionAnswered(r) BY <3>6 DEF SessionAnswered, Unauthenticated
    <3> QED BY <3>1, <3>2, <3>3, <3>4, <3>5, <3>6
  <2>4. UNCHANGED <<config, oauthVars>>
    BY DEF PassOpen, UseToken, TokenAnswered, NoToken, UseSession, SessionAnswered
  <2> QED BY <2>2, <2>3, <2>4
<1>5. {"token", "session", "looking"} \subseteq Places BY DEF Places
<1>6. RequestTypeOK' /\ \A q \in Requests \ {r} : request'[q] = request[q]
  BY <1>4, <1>5, RequestMoves DEF AuthInv
<1>7. \A q \in Requests \ {r} : call'[q] = call[q] /\ lookup'[q] = lookup[q]
  BY DEF PassOpen, UseToken, TokenAnswered, NoToken, UseSession, SessionAnswered,
         Calling, Returning, Promise!Begin, Promise!Return, Begin, Return, sessionVars,
         tokenPart, AuthInv, MemoryInv, MemoryTypeOK, SessionInv, SessionTypeOK
<1>8. \A q \in Requests \ {r} : Honest(q)'
  BY <1>1, <1>4, <1>6, <1>7, OthersHonest DEF oauthVars
<1>9. OAuthTypeOK' /\ (states \cap spent = {})'
  BY <1>4 DEF oauthVars, AuthInv, OAuthTypeOK
<1>10. Honest(r) BY DEF AuthInv
<1>11. CASE Finish(r)
  <2>1. (request[r] = Idle)' BY <1>4, <1>11, RequestMoves DEF AuthInv
  <2>2. Honest(r)' BY <2>1 DEF Honest
  <2> QED BY <1>6, <1>8, <1>9, <2>2 DEF RestInv
<1>12. CASE Go(r, "session")
  <2>1. Honest(r)'
    BY <1>1, <1>4, <1>5, <1>12, RequestMoves, StepHonest DEF AuthInv, oauthVars
  <2> QED BY <1>6, <1>8, <1>9, <2>1 DEF RestInv
<1>13. CASE Go(r, "token")
  <2>1. UseToken(r)
    <3>1. request'[r].at = "token" BY <1>4, <1>5, <1>13, RequestMoves DEF AuthInv
    <3>2. ~Finish(r) /\ ~Admit(r) /\ ~Go(r, "session") /\ ~Go(r, "looking")
      BY <1>4, <1>5, <3>1, RequestMoves DEF AuthInv, Idle
    <3> QED BY <3>2 DEF PassOpen, TokenAnswered, NoToken, UseSession, SessionAnswered,
                        Unauthenticated
  <2>2. /\ call'[r].op = "validate" /\ call'[r].on = request[r].tok /\ call'[r].ans = "none"
    BY <2>1 DEF UseToken, Calling, Promise!Begin, AuthInv, MemoryInv, MemoryTypeOK
  <2>3. Honest(r)'
    <3>1. /\ (request[r] # Idle)' /\ request'[r].at = "token"
          /\ request'[r].sid = request[r].sid /\ request'[r].tok = request[r].tok
          /\ request'[r].state = request[r].state /\ request'[r].late = request[r].late
      BY <1>4, <1>5, <1>13, RequestMoves DEF AuthInv
    <3> QED BY <1>3, <1>4, <1>10, <2>2, <3>1 DEF Honest, oauthVars
  <2> QED BY <1>6, <1>8, <1>9, <2>3 DEF RestInv
<1>14. CASE Go(r, "looking")
  <2>1. UseSession(r) /\ request[r].sid # None
    <3>1. request'[r].at = "looking" BY <1>4, <1>5, <1>14, RequestMoves DEF AuthInv
    <3>2. ~Finish(r) /\ ~Admit(r) /\ ~Go(r, "session") /\ ~Go(r, "token")
      BY <1>4, <1>5, <3>1, RequestMoves DEF AuthInv, Idle
    <3> QED BY <3>2 DEF PassOpen, TokenAnswered, NoToken, UseSession, SessionAnswered,
                        Unauthenticated, UseToken
  <2> DEFINE made == [op |-> "get", on |-> request[r].sid, at |-> "lookup",
                      late |-> request[r].sid \in ended, fresh |-> request[r].sid \notin lapsed]
  <2>2. lookup'[r] = made
    BY <2>1 DEF UseSession, Begin, AuthInv, SessionInv, SessionTypeOK
  <2>3. /\ made.on = request[r].sid /\ made.at = "lookup"
        /\ request[r].sid \in ended => made.late
    OBVIOUS
  <2> HIDE DEF made
  <2>4. /\ (lookup[r] # NoLookup)' /\ lookup'[r].on = request[r].sid
        /\ (request[r].sid \in ended => lookup'[r].late)
    <3>1. made # NoLookup BY <2>3 DEF NoLookup
    <3>2. (lookup[r] # NoLookup)' BY <2>2, <3>1 DEF NoLookup
    <3> QED BY <2>2, <2>3, <3>2
  <2>5. Honest(r)'
    <3>1. /\ (request[r] # Idle)' /\ request'[r].at = "looking"
          /\ request'[r].sid = request[r].sid /\ request'[r].tok = request[r].tok
          /\ request'[r].state = request[r].state /\ request'[r].late = request[r].late
      <4>1. "looking" \in Places /\ RequestTypeOK /\ request[r] # Idle
        BY <1>4 DEF Places, AuthInv
      <4> QED BY <4>1, <1>14, RequestMoves
    <3>2. request[r] # Idle /\ (request[r].late => lookup'[r].late)
      BY <1>4, <1>10, <2>1, <2>4 DEF Honest
    <3>3. request'[r].late => /\ request'[r].sid \in ended' \cup {None}
                              /\ request'[r].tok \in deleted' \cup expired' \cup {None}
                              /\ request'[r].state \in spent' \cup {None}
      BY <1>3, <1>4, <1>10, <3>1 DEF Honest, oauthVars
    <3> QED BY <2>4, <3>1, <3>2, <3>3 DEF Honest
  <2> QED BY <1>6, <1>8, <1>9, <2>5 DEF RestInv
<1>15. CASE Admit(r)
  <2>0. /\ (request[r] # Idle)' /\ request'[r].at = "admitted"
        /\ request'[r].sid = None /\ request'[r].tok = None
        /\ request'[r].kind = request[r].kind
        /\ request'[r].state = request[r].state /\ request'[r].late = request[r].late
    BY <1>4, <1>15, RequestMoves DEF AuthInv
  <2>1. Open(r) \/ Is(r, {"optional"}) \/ ~request[r].late
    <3>1. ~Finish(r) /\ \A place \in {"token", "session", "looking"} : ~Go(r, place)
      BY <1>4, <1>5, <2>0, RequestMoves DEF AuthInv
    <3>2. CASE PassOpen(r) BY <3>2 DEF PassOpen
    <3>3. CASE TokenAnswered(r)
      BY <1>4, <1>10, <3>1, <3>3 DEF TokenAnswered, InAt, Honest
    <3>4. CASE UseSession(r) BY <3>1, <3>4 DEF UseSession, Unauthenticated
    <3>5. CASE SessionAnswered(r)
      <4>1. CASE ~Is(r, {"optional"})
        <5>1. At(r, "returned") /\ request[r].at = "looking" /\ request[r].kind # "refresh"
          BY <3>1, <3>5, <4>1 DEF SessionAnswered, Unauthenticated, InAt, Is
        <5>2. lookup[r] # NoLookup /\ (request[r].late => lookup[r].late)
          BY <1>4, <1>10, <5>1 DEF Honest
        <5>3. ~lookup[r].late
          BY <5>1, <5>2 DEF AuthInv, SessionInv, LookupKnows, Knows, At
        <5> QED BY <5>2, <5>3
      <4> QED BY <4>1
    <3> QED BY <3>1, <3>2, <3>3, <3>4, <3>5 DEF UseToken, NoToken
  <2>2. Honest(r)'
    BY <1>3, <1>4, <1>10, <2>0, <2>1 DEF Honest, Open, Is, oauthVars
  <2> QED BY <1>6, <1>8, <1>9, <2>2 DEF RestInv
<1> QED BY <1>4, <1>11, <1>12, <1>13, <1>14, <1>15

\* A handler that is done, or waits for nothing the invariant speaks of.
LEMMA DoneInv ==
  ASSUME AuthInv, [AuthNext]_authVars, NEW r \in Requests, request[r] # Idle,
         Finish(r) \/ Go(r, "deleting") \/ Go(r, "cleaning"),
         config' = config, OAuthTypeOK', (states \cap spent = {})',
         spent \subseteq spent', issuedStates \subseteq issuedStates',
         \A q \in Requests \ {r} : call'[q] = call[q] /\ lookup'[q] = lookup[q]
  PROVE  RestInv'
<1>1. "deleting" \in Places /\ "cleaning" \in Places BY DEF Places
<1>2. RequestTypeOK' /\ \A q \in Requests \ {r} : request'[q] = request[q]
  BY <1>1, RequestMoves DEF AuthInv
<1>3. \A q \in Requests \ {r} : Honest(q)' BY <1>2, OthersHonest
<1>4. CASE Finish(r)
  <2>1. (request[r] = Idle)' BY <1>4, RequestMoves DEF AuthInv
  <2> QED BY <1>2, <1>3, <2>1 DEF RestInv, Honest
<1>5. ASSUME NEW place \in {"deleting", "cleaning"}, Go(r, place) PROVE Honest(r)'
  <2>1. /\ (request[r] # Idle)' /\ request'[r].at = place /\ request'[r].kind = request[r].kind
        /\ request'[r].sid = request[r].sid /\ request'[r].tok = request[r].tok
        /\ request'[r].state = request[r].state /\ request'[r].late = request[r].late
    BY <1>1, <1>5, RequestMoves DEF AuthInv
  <2>2. request'[r].at \in {"session", "deleting", "cleaning"} BY <2>1
  <2> QED BY <2>1, <2>2, StepHonest
<1> QED BY <1>2, <1>3, <1>4, <1>5 DEF RestInv

LEMMA HandlersInv ==
  ASSUME AuthInv, NEW r \in Requests,
         \/ HandlePage(r) \/ TokenDeleted(r) \/ HandleLogout(r)
         \/ \E t \in Tokens : HandleCreateScreenToken(r, t) \/ HandleDeleteScreenToken(r, t)
         \/ LoginDisabled(r) \/ CleanupExpiredStates(r)
         \/ \E st \in States : HandleLogin(r, st)
         \/ \E s \in SessionIDs, u \in Users : OpenSession(r, s, u)
  PROVE  RestInv'
<1> USE RequestsAreClients
<1>1. [AuthNext]_authVars BY DEF AuthNext, RequestStep
<1>2. request[r] # Idle
  <2>1. request[r].at \in {"admitted", "deleting", "arrived", "cleaning", "opening"}
    BY DEF HandlePage, TokenDeleted, HandleLogout, HandleCreateScreenToken,
           HandleDeleteScreenToken, LoginDisabled, CleanupExpiredStates, HandleLogin,
           OpenSession, InAt
  <2> QED BY <2>1 DEF Idle
<1>3. /\ Finish(r) \/ Go(r, "deleting") \/ Go(r, "cleaning")
      /\ config' = config
  BY DEF HandlePage, TokenDeleted, HandleLogout, HandleCreateScreenToken,
         HandleDeleteScreenToken, LoginDisabled, CleanupExpiredStates, HandleLogin,
         OpenSession
<1>4. \A q \in Requests \ {r} : call'[q] = call[q]
  BY DEF HandlePage, TokenDeleted, HandleLogout, HandleCreateScreenToken, CreateToken,
         Promise!Create, HandleDeleteScreenToken, LoginDisabled, CleanupExpiredStates,
         HandleLogin, OpenSession, tokenPart, Calling, Promise!Begin, Returning,
         Promise!Return, AuthInv, MemoryInv, MemoryTypeOK
<1>5. lookup' = lookup
  BY DEF HandlePage, TokenDeleted, HandleLogout, HandleCreateScreenToken,
         HandleDeleteScreenToken, LoginDisabled, CleanupExpiredStates,
         HandleLogin, OpenSession, sessionVars, DeleteSession, End, CreateSession
<1>6. /\ OAuthTypeOK' /\ (states \cap spent = {})'
      /\ spent \subseteq spent' /\ issuedStates \subseteq issuedStates'
  <2>1. CASE UNCHANGED oauthVars
    <3>1. UNCHANGED <<states, staleStates, issuedStates, spent>> BY <2>1 DEF oauthVars
    <3> QED BY <1>3, <3>1 DEF OAuthTypeOK, AuthInv
  <2>2. CASE CleanupExpiredStates(r)
    BY <2>2 DEF CleanupExpiredStates, OAuthTypeOK, AuthInv
  <2>3. ASSUME NEW st \in States, HandleLogin(r, st) PROVE <1>6
    BY <2>3 DEF HandleLogin, OAuthTypeOK, AuthInv
  <2> QED BY <2>1, <2>2, <2>3 DEF HandlePage, TokenDeleted, HandleLogout,
             HandleCreateScreenToken, HandleDeleteScreenToken, LoginDisabled, OpenSession
<1> QED BY <1>1, <1>2, <1>3, <1>4, <1>5, <1>6, DoneInv

\* A callback that passes ValidateState arrived before its state was removed:
\* the state is still in the map.
LEMMA CallbackInv ==
  ASSUME AuthInv, NEW r \in Requests, ValidateState(r) \/ RemoveState(r) \/ AskProvider(r)
  PROVE  RestInv'
<1> USE NoneIsNothing
<1>1. [AuthNext]_authVars BY DEF AuthNext, RequestStep
<1>2. request[r].at \in {"arrived", "removing", "exchanging"}
  BY DEF ValidateState, RemoveState, AskProvider, InAt
<1>3. request[r] # Idle BY <1>2 DEF Idle
<1>4. UNCHANGED <<sessionVars, tokenPart, config, issuedStates, staleStates>>
  BY DEF ValidateState, RemoveState, AskProvider, oauthVars
<1>5. Honest(r) BY DEF AuthInv
<1>6. /\ OAuthTypeOK' /\ (states \cap spent = {})' /\ spent \subseteq spent'
  <2>1. CASE UNCHANGED oauthVars
    <3>1. UNCHANGED <<states, staleStates, issuedStates, spent>> BY <2>1 DEF oauthVars
    <3> QED BY <1>4, <3>1 DEF OAuthTypeOK, AuthInv
  <2>2. CASE RemoveState(r)
    <3>1. request[r].state \in issuedStates
      BY <1>3, <1>5, <2>2 DEF Honest, RemoveState, InAt
    <3> QED BY <2>2, <3>1 DEF RemoveState, OAuthTypeOK, AuthInv
  <2> QED BY <2>1, <2>2 DEF ValidateState, AskProvider
<1>7. UNCHANGED <<call, lookup>> BY <1>4 DEF sessionVars, tokenPart
<1>8. CASE Finish(r)
  BY <1>1, <1>3, <1>4, <1>6, <1>7, <1>8, DoneInv
<1>9. ASSUME NEW place \in {"removing", "exchanging", "opening"}, Go(r, place),
             request[r].state \in issuedStates, ~request[r].late
      PROVE  RestInv'
  <2>1. place \in Places BY DEF Places
  <2>2. /\ (request[r] # Idle)' /\ request'[r].at = place
        /\ request'[r].state = request[r].state /\ request'[r].late = request[r].late
        /\ RequestTypeOK' /\ \A q \in Requests \ {r} : request'[q] = request[q]
    BY <1>3, <1>9, <2>1, RequestMoves DEF AuthInv
  <2>3. Honest(r)' BY <1>4, <1>9, <2>2 DEF Honest
  <2>4. \A q \in Requests \ {r} : Honest(q)'
    BY <1>1, <1>4, <1>6, <1>7, <2>2, OthersHonest
  <2> QED BY <1>6, <2>2, <2>3, <2>4 DEF RestInv
<1>10. CASE ValidateState(r)
  <2>1. CASE request[r].state \in states \ staleStates
    <3>1. request[r].state \in issuedStates /\ request[r].state \notin spent \cup {None}
      BY <2>1 DEF AuthInv, OAuthTypeOK
    <3>2. ~request[r].late BY <1>3, <1>5, <3>1 DEF Honest
    <3> QED BY <1>9, <1>10, <2>1, <3>1, <3>2 DEF ValidateState
  <2> QED BY <1>8, <1>10, <2>1 DEF ValidateState
<1>11. CASE RemoveState(r) \/ AskProvider(r)
  <2>1. request[r].state \in issuedStates /\ ~request[r].late
    BY <1>3, <1>5, <1>11 DEF Honest, RemoveState, AskProvider, InAt
  <2> QED BY <1>8, <1>9, <1>11, <2>1 DEF RemoveState, AskProvider
<1> QED BY <1>10, <1>11

-----------------------------------------------------------------------------
(* The invariant, and what it says of AuthSpec.                            *)

LEMMA AuthStepInv == AuthInv /\ [AuthNext]_authVars => AuthInv'
<1> SUFFICES ASSUME AuthInv, [AuthNext]_authVars PROVE AuthInv' OBVIOUS
<1>1. SessionInv' /\ MemoryInv'
  BY StepOfParts, SessionStepInv, MemoryStepInv DEF AuthInv, SessionInv, MemoryInv
<1>2. RestInv'
  <2>1. CASE \E r \in Requests : Arrival(r) BY <2>1, ArrivalInv
  <2>2. CASE \E r \in Requests : RequestStep(r)
    BY <2>2, MiddlewareInv, HandlersInv, CallbackInv DEF RequestStep
  <2>3. CASE \E r \in Requests, s \in SessionIDs : CallRefresh(r, s) BY <2>3, RefreshCallInv
  <2> QED BY <2>1, <2>2, <2>3, AloneInv DEF AuthNext
<1> QED BY <1>1, <1>2 DEF AuthInv, RestInv

LEMMA AuthInvariant == AuthSpec => []AuthInv
BY AuthInitInv, AuthStepInv, PTL DEF AuthSpec

\* What a request presents, the sessions and the states keep their types, with
\* every id that is looked up or checked one that was handed out.
THEOREM AuthTypeCorrect == AuthSpec => []AuthTypeOK
<1>1. AuthInv => AuthTypeOK
  BY DEF AuthInv, SessionInv, SessionTypeOK, OAuthTypeOK, RequestTypeOK, AuthTypeOK
<1> QED BY <1>1, AuthInvariant, PTL

\* Logouts, deletions and Close of the SessionManager are final.
THEOREM EndIsFinal == AuthSpec => []EndedStaysEnded
<1>1. AuthInv => EndedStaysEnded BY DEF AuthInv, SessionInv
<1> QED BY <1>1, AuthInvariant, PTL

\* Only sessions that ended or were expired at some moment are gone.
THEOREM LossIsExpiry == AuthSpec => []OnlyExpiredLost
<1>1. AuthInv => OnlyExpiredLost BY DEF AuthInv, SessionInv
<1> QED BY <1>1, AuthInvariant, PTL

\* What GetSession and RefreshSession return was live during the call.
THEOREM LookupsAnswerLive == AuthSpec => []ReturnedWasLive
<1>1. AuthInv => ReturnedWasLive
  <2> SUFFICES ASSUME AuthInv, NEW r \in Requests, lookup[r].at = "returned"
               PROVE  ~lookup[r].late /\ lookup[r].fresh
    BY DEF ReturnedWasLive
  <2>1. lookup[r] # NoLookup BY DEF NoLookup
  <2>2. Knows(r) BY DEF AuthInv, SessionInv, LookupKnows
  <2> QED BY <2>1, <2>2 DEF Knows
<1> QED BY <1>1, AuthInvariant, PTL

\* Withdrawn credentials admit nobody through the middleware.
THEOREM AdmissionNeedsCredential == AuthSpec => []AdmittedWithCredential
<1>1. AuthInv => AdmittedWithCredential
  BY DEF AuthInv, Honest, AdmittedWithCredential, InAt, Idle
<1> QED BY <1>1, AuthInvariant, PTL

\* A used OAuth state lets no later callback through.
THEOREM StatesAreSpent == AuthSpec => []SpentStateRefused
<1>1. AuthInv => SpentStateRefused
  BY DEF AuthInv, Honest, SpentStateRefused, Idle
<1> QED BY <1>1, AuthInvariant, PTL

\* The screen tokens keep the promise of their store with all of this going on.
THEOREM RequestsKeepPromise == AuthSpec => KeepsPromise
<1>1. AuthInit => Promise!Init BY DEF AuthInit, MemoryInit
<1>2. AuthInv /\ [AuthNext]_authVars => [Promise!Next]_(Promise!tokenVars)
  BY StepOfParts, MemoryStepRefines DEF AuthInv, SessionInv, MemoryInv
<1> QED BY <1>1, <1>2, AuthInvariant, PTL DEF AuthSpec, KeepsPromise, Promise!Spec
=============================================================================
