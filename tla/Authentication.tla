--------------------------- MODULE Authentication ---------------------------
(***************************************************************************)
(* internal/auth: the requests of Manager.SetupRoutes and of the           *)
(* middleware, with the sessions, the OAuth states and the screen tokens   *)
(* they share.  A request takes its steps interleaved with those of the    *)
(* others.  The OAuth states are a map without a lock: the check of a      *)
(* state and its removal are two steps.  (Two accesses of the map at once  *)
(* may also end the process, which adds no behaviour.)                     *)
(*                                                                         *)
(* RefreshSession, DeleteUserSessions and Close are called by code within  *)
(* the process at any moment.                                              *)
(***************************************************************************)
EXTENDS Sessions, MemoryTokens

CONSTANTS States, None

ASSUME RequestsAreClients == Clients = Requests
ASSUME NoneIsNothing == None \notin SessionIDs \cup Tokens \cup States

VARIABLES
  config,        \* Enabled and ScreenTokens of AuthConfig
  states,        \* keys of OAuthManager.stateStore
  staleStates,   \* states whose ten minutes have passed
  request,       \* request[r]: what r presents, and where it is
  issuedStates, spent  \* history: states handed out; removed by a callback

oauthVars == <<states, staleStates, issuedStates, spent>>
tokenPart == <<tokens, marked, issued, expired, used, deleted, call>>
authVars == <<sessionVars, memoryVars, config, oauthVars, request>>

\* Three for the three kinds of middleware, then the handlers without one.
Kinds   == {"required", "optional", "screen", "login", "callback", "logout", "refresh"}
Places  == {"arrived", "token", "session", "looking", "admitted", "deleting",
            "cleaning", "removing", "exchanging", "opening"}

\* late: all that the request presents had been withdrawn before it arrived.
Idle == [kind |-> "none", at |-> "idle"]
Request == [kind : Kinds, at : Places,
            sid : SessionIDs \cup {None}, tok : Tokens \cup {None},
            state : States \cup {None}, late : BOOLEAN]

AuthInit ==
  /\ SessionInit /\ MemoryInit
  /\ config \in [Enabled : BOOLEAN, ScreenTokens : BOOLEAN]
  /\ states = {} /\ staleStates = {} /\ issuedStates = {} /\ spent = {}
  /\ request = [r \in Requests |-> Idle]

InAt(r, place) == request[r].at = place
Go(r, place)   == request' = [request EXCEPT ![r].at = place]
Finish(r)      == request' = [request EXCEPT ![r] = Idle]
Admit(r)       == request' = [request EXCEPT
                    ![r].at = "admitted", ![r].sid = None, ![r].tok = None]
Is(r, kinds)   == request[r].kind \in kinds

\* The request carries a session id (the cookie, else the bearer header) and a
\* screen token (header, query or form), or the parameters of a callback.  An
\* id that was never handed out is as good as none.
Carries(k, s, t, st) ==
  /\ s \in Created \cup {None} /\ t \in issued \cup {None}
  /\ st \in issuedStates \cup {None}
  /\ k \in {"login", "callback"} => s = None
  /\ k \in {"login", "callback", "logout", "optional"} => t = None
  /\ k # "callback" => st = None

Arrive(r, k, s, t, st) ==
  /\ request[r] = Idle /\ lookup[r] = NoLookup /\ call[r] = Promise!NoCall
  /\ k \in Kinds \ {"refresh"} /\ Carries(k, s, t, st)
  /\ request' = [request EXCEPT ![r] =
       [kind |-> k, at |-> "arrived", sid |-> s, tok |-> t, state |-> st,
        late |-> /\ s \in ended \cup {None}
                 /\ t \in deleted \cup expired \cup {None}
                 /\ st \in spent \cup {None}]]
  /\ UNCHANGED <<sessionVars, tokenPart, config, oauthVars>>

-----------------------------------------------------------------------------
(* The middleware.                                                         *)

Protected(r) == Is(r, {"required", "optional", "screen"}) /\ InAt(r, "arrived")

\* Authentication is off, or ScreenTokenAuth has no screen tokens to ask for.
Open(r) ==
  \/ ~config.Enabled
  \/ Is(r, {"screen"}) /\ ~config.ScreenTokens

PassOpen(r) ==
  /\ Protected(r) /\ Open(r)
  /\ Admit(r)
  /\ UNCHANGED <<sessionVars, tokenPart, config, oauthVars>>

AsksToken(r) ==
  config.ScreenTokens /\ ~Is(r, {"optional"}) /\ request[r].tok # None

UseToken(r) ==
  /\ Protected(r) /\ ~Open(r) /\ AsksToken(r)
  /\ Calling(r, "validate", request[r].tok)
  /\ Go(r, "token")
  /\ UNCHANGED <<sessionVars, config, oauthVars>>

\* Fault: a token that is refused is let in all the same.
TokenAnsweredAdmits(r) ==
  /\ InAt(r, "token") /\ Returning(r)
  /\ Admit(r)
  /\ UNCHANGED <<sessionVars, config, oauthVars>>
\* RequireAuth falls back on the session, ScreenTokenAuth refuses.
TokenAnswered(r) ==
  /\ InAt(r, "token") /\ Returning(r)
  /\ \/ call[r].ans = "ok" /\ Admit(r)
     \/ call[r].ans # "ok" /\ IF Is(r, {"screen"}) THEN Finish(r) ELSE Go(r, "session")
  /\ UNCHANGED <<sessionVars, config, oauthVars>>

NoToken(r) ==
  /\ Protected(r) /\ ~Open(r) /\ ~AsksToken(r)
  /\ IF Is(r, {"screen"}) THEN Finish(r) ELSE Go(r, "session")
  /\ UNCHANGED <<sessionVars, tokenPart, config, oauthVars>>

\* OptionalAuth goes on without a user where RequireAuth answers 401 or
\* redirects to the login.
Unauthenticated(r) ==
  IF Is(r, {"optional"}) THEN Admit(r) ELSE Finish(r)

UseSession(r) ==
  /\ InAt(r, "session")
  /\ \/ /\ request[r].sid # None
        /\ Begin(r, "get", request[r].sid)
        /\ Go(r, "looking")
     \/ /\ request[r].sid = None
        /\ Unauthenticated(r)
        /\ UNCHANGED sessionVars
  /\ UNCHANGED <<tokenPart, config, oauthVars>>

SessionAnswered(r) ==
  /\ InAt(r, "looking") /\ Return(r)
  /\ \/ Is(r, {"refresh"}) /\ Finish(r)
     \/ ~Is(r, {"refresh"}) /\ At(r, "returned") /\ Admit(r)
     \/ ~Is(r, {"refresh"}) /\ At(r, "found nothing") /\ Unauthenticated(r)
  /\ UNCHANGED <<tokenPart, config, oauthVars>>

-----------------------------------------------------------------------------
(* The handlers.  Which one a request behind RequireAuth is for is chosen   *)
(* here: those of the screen tokens are routed only where they are on.     *)

HandlePage(r) ==
  /\ InAt(r, "admitted")
  /\ Finish(r)
  /\ UNCHANGED <<sessionVars, tokenPart, config, oauthVars>>

HandleCreateScreenToken(r, t) ==
  /\ InAt(r, "admitted") /\ Is(r, {"required"}) /\ config.ScreenTokens
  /\ CreateToken(t)
  /\ Finish(r)
  /\ UNCHANGED <<sessionVars, config, oauthVars>>

HandleDeleteScreenToken(r, t) ==
  /\ InAt(r, "admitted") /\ Is(r, {"required"}) /\ config.ScreenTokens
  /\ Calling(r, "delete", t)
  /\ Go(r, "deleting")
  /\ UNCHANGED <<sessionVars, config, oauthVars>>

TokenDeleted(r) ==
  /\ InAt(r, "deleting") /\ Returning(r)
  /\ Finish(r)
  /\ UNCHANGED <<sessionVars, config, oauthVars>>

HandleLogout(r) ==
  /\ InAt(r, "arrived") /\ Is(r, {"logout"})
  /\ \/ /\ config.Enabled /\ request[r].sid # None
        /\ DeleteSession(request[r].sid)
     \/ /\ ~config.Enabled \/ request[r].sid = None
        /\ UNCHANGED sessionVars
  /\ Finish(r)
  /\ UNCHANGED <<tokenPart, config, oauthVars>>

-----------------------------------------------------------------------------
(* Login with the OAuth provider.                                          *)

LoginDisabled(r) ==
  /\ InAt(r, "arrived") /\ Is(r, {"login", "callback"}) /\ ~config.Enabled
  /\ Finish(r)
  /\ UNCHANGED <<sessionVars, tokenPart, config, oauthVars>>

HandleLogin(r, st) ==
  /\ InAt(r, "arrived") /\ Is(r, {"login"}) /\ config.Enabled
  /\ st \notin issuedStates
  /\ states' = states \cup {st}
  /\ issuedStates' = issuedStates \cup {st}
  /\ Go(r, "cleaning")
  /\ UNCHANGED <<sessionVars, tokenPart, config, staleStates, spent>>

CleanupExpiredStates(r) ==
  /\ InAt(r, "cleaning")
  /\ states' = states \ staleStates
  /\ Finish(r)
  /\ UNCHANGED <<sessionVars, tokenPart, config, staleStates, issuedStates, spent>>

Stale(st) ==
  /\ st \in issuedStates \ staleStates
  /\ staleStates' = staleStates \cup {st}
  /\ UNCHANGED <<sessionVars, tokenPart, config, states, issuedStates, spent, request>>

\* Fault: only a stale state is refused.
ValidateStateByAge(r) ==
  /\ InAt(r, "arrived") /\ Is(r, {"callback"}) /\ config.Enabled
  /\ IF request[r].state \in staleStates THEN Finish(r) ELSE Go(r, "removing")
  /\ UNCHANGED <<sessionVars, tokenPart, config, oauthVars>>
\* A state that is not in the map, or missing, is refused.
ValidateState(r) ==
  /\ InAt(r, "arrived") /\ Is(r, {"callback"}) /\ config.Enabled
  /\ IF request[r].state \in states \ staleStates THEN Go(r, "removing") ELSE Finish(r)
  /\ UNCHANGED <<sessionVars, tokenPart, config, oauthVars>>

\* Fault: the used state is left in the map.
RemoveStateNot(r) ==
  /\ InAt(r, "removing")
  /\ spent' = spent \cup {request[r].state}
  /\ Go(r, "exchanging")
  /\ UNCHANGED <<sessionVars, tokenPart, config, states, staleStates, issuedStates>>
RemoveState(r) ==
  /\ InAt(r, "removing")
  /\ states' = states \ {request[r].state}
  /\ spent' = spent \cup {request[r].state}
  /\ Go(r, "exchanging")
  /\ UNCHANGED <<sessionVars, tokenPart, config, staleStates, issuedStates>>

\* The provider is asked for a token and for the user; both answers, or an ID
\* token that does not parse, may end the callback.
AskProvider(r) ==
  /\ InAt(r, "exchanging")
  /\ Go(r, "opening") \/ Finish(r)
  /\ UNCHANGED <<sessionVars, tokenPart, config, oauthVars>>

OpenSession(r, s, u) ==
  /\ InAt(r, "opening")
  /\ CreateSession(s, u)
  /\ Finish(r)
  /\ UNCHANGED <<tokenPart, config, oauthVars>>

-----------------------------------------------------------------------------
(* Calls within the process, and the clock.                                *)

CallRefresh(r, s) ==
  /\ request[r] = Idle
  /\ Begin(r, "refresh", s)
  /\ request' = [request EXCEPT ![r] =
       [kind |-> "refresh", at |-> "looking", sid |-> s, tok |-> None,
        state |-> None, late |-> s \in ended]]
  /\ UNCHANGED <<tokenPart, config, oauthVars>>

SessionsAlone ==
  /\ \/ \E r \in Requests : LookupStep(r)
     \/ \E s \in SessionIDs : Lapse(s)
     \/ \E u \in Users : DeleteUserSessions(u)
     \/ Close
     \/ CleanupExpiredSessions
  /\ UNCHANGED <<tokenPart, config, oauthVars, request>>

StoreAlone ==
  /\ \/ \E r \in Requests : ValidateScreenToken(r) \/ DeleteScreenToken(r)
     \/ \E t \in Tokens : Passes(t)
  /\ UNCHANGED <<sessionVars, config, oauthVars, request>>

\* Nothing in the program redeems a token; its store can.
Redemption(r) ==
  /\ request[r] = Idle /\ lookup[r] = NoLookup
  /\ \/ \E t \in Tokens : Calling(r, "redeem", t)
     \/ RedeemScreenToken(r)
     \/ Returning(r)
  /\ UNCHANGED <<sessionVars, config, oauthVars, request>>

RequestStep(r) ==
  \/ PassOpen(r) \/ UseToken(r) \/ TokenAnswered(r) \/ NoToken(r)
  \/ UseSession(r) \/ SessionAnswered(r)
  \/ HandlePage(r) \/ TokenDeleted(r) \/ HandleLogout(r)
  \/ \E t \in Tokens : HandleCreateScreenToken(r, t) \/ HandleDeleteScreenToken(r, t)
  \/ LoginDisabled(r) \/ CleanupExpiredStates(r)
  \/ \E st \in States : HandleLogin(r, st)
  \/ ValidateState(r) \/ RemoveState(r) \/ AskProvider(r)
  \/ \E s \in SessionIDs, u \in Users : OpenSession(r, s, u)

Arrival(r) ==
  \E k \in Kinds, s \in SessionIDs \cup {None}, t \in Tokens \cup {None},
     st \in States \cup {None} : Arrive(r, k, s, t, st)

AuthNext ==
  \/ \E r \in Requests : Arrival(r) \/ RequestStep(r) \/ Redemption(r)
  \/ \E r \in Requests, s \in SessionIDs : CallRefresh(r, s)
  \/ \E st \in States : Stale(st)
  \/ SessionsAlone
  \/ StoreAlone

AuthSpec == AuthInit /\ [][AuthNext]_authVars

-----------------------------------------------------------------------------
(* Properties.                                                             *)

AuthTypeOK ==
  /\ sessions \subseteq Created /\ Created \subseteq SessionIDs
  /\ owner \in [Created -> Users]
  /\ lapsed \subseteq everLapsed /\ everLapsed \subseteq Created
  /\ ended \subseteq Created
  /\ lookup \in [Requests -> Lookups \cup {NoLookup}]
  /\ config \in [Enabled : BOOLEAN, ScreenTokens : BOOLEAN]
  /\ states \subseteq issuedStates /\ issuedStates \subseteq States
  /\ staleStates \subseteq issuedStates /\ spent \subseteq issuedStates
  /\ request \in [Requests -> Request \cup {Idle}]

\* A token that was deleted or had expired before the request arrived, or a
\* session that had ended by then, lets nobody past the middleware, whatever
\* is in progress beside it: only where authentication is off or optional does
\* such a request get through.
AdmittedWithCredential ==
  \A r \in Requests : InAt(r, "admitted") =>
    Open(r) \/ Is(r, {"optional"}) \/ ~request[r].late

\* "Remove used state" (oauth.go:70): a callback that arrives after its state
\* was removed opens no session.  Two that arrive together may both pass.
SpentStateRefused ==
  \A r \in Requests :
    request[r].at \in {"removing", "exchanging", "opening"} =>
      request[r].state \in issuedStates /\ ~request[r].late
=============================================================================
