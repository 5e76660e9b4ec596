------------------------------ MODULE Sessions ------------------------------
(***************************************************************************)
(* SessionManager (internal/auth/session.go).  SessionManager.mu is held   *)
(* for single accesses of the map only: a call of GetSession looks the     *)
(* session up, compares its ExpiresAt without the lock, and then deletes   *)
(* it or writes its LastSeen under the lock again.  Sessions are pointers, *)
(* so that a call goes on with a session that has left the map meanwhile.  *)
(*                                                                         *)
(* The clock is the set of sessions whose ExpiresAt has passed.            *)
(***************************************************************************)
CONSTANTS
  SessionIDs,  \* generated at random, each one at most once
  Users,
  Requests     \* the goroutines that call the manager

VARIABLES
  sessions,   \* keys of SessionManager.sessions
  lapsed,     \* sessions whose ExpiresAt has passed
  owner,      \* Session.UserID of the sessions created so far
  lookup,     \* lookup[r]: the call of GetSession or RefreshSession r is in
  ended,      \* history: sessions deleted by a logout, for a user or by Close
  everLapsed  \* history: sessions that were expired at some moment

sessionVars == <<sessions, lapsed, owner, lookup, ended, everLapsed>>

\* A lookup, with what is known of its session for the properties: had it
\* ended when the call began, and was it unexpired at a moment since.
Stages   == {"lookup", "found", "expired", "valid", "extend", "found nothing", "returned"}
Lookups  == [op : {"get", "refresh"}, on : SessionIDs, at : Stages,
             late : BOOLEAN, fresh : BOOLEAN]
NoLookup == [op |-> "none", at |-> "none"]

Created == DOMAIN owner

SessionInit ==
  /\ sessions = {}
  /\ lapsed = {}
  /\ owner = << >>
  /\ lookup = [r \in Requests |-> NoLookup]
  /\ ended = {}
  /\ everLapsed = {}

At(r, stage) == lookup[r].at = stage
Move(r, stage) == lookup' = [lookup EXCEPT ![r].at = stage]

CreateSession(s, u) ==
  /\ s \notin Created
  /\ sessions' = sessions \cup {s}
  /\ owner' = [x \in Created \cup {s} |-> IF x = s THEN u ELSE owner[x]]
  /\ UNCHANGED <<lapsed, lookup, ended, everLapsed>>

Begin(r, o, s) ==
  /\ lookup[r] = NoLookup
  /\ s \in Created
  /\ lookup' = [lookup EXCEPT ![r] =
       [op |-> o, on |-> s, at |-> "lookup",
        late |-> s \in ended, fresh |-> s \notin lapsed]]
  /\ UNCHANGED <<sessions, lapsed, owner, ended, everLapsed>>

Find(r) ==
  /\ At(r, "lookup")
  /\ Move(r, IF lookup[r].on \in sessions THEN "found" ELSE "found nothing")
  /\ UNCHANGED <<sessions, lapsed, owner, ended, everLapsed>>

\* Fault: the expiry is not compared.
CheckNoExpiry(r) ==
  /\ At(r, "found")
  /\ Move(r, "valid")
  /\ UNCHANGED <<sessions, lapsed, owner, ended, everLapsed>>
CheckExpiry(r) ==
  /\ At(r, "found")
  /\ Move(r, IF lookup[r].on \in lapsed THEN "expired" ELSE "valid")
  /\ UNCHANGED <<sessions, lapsed, owner, ended, everLapsed>>

DeleteExpired(r) ==
  /\ At(r, "expired")
  /\ sessions' = sessions \ {lookup[r].on}
  /\ Move(r, "found nothing")
  /\ UNCHANGED <<lapsed, owner, ended, everLapsed>>

\* LastSeen is set; nothing reads it.
TouchLastSeen(r) ==
  /\ At(r, "valid")
  /\ Move(r, IF lookup[r].op = "refresh" THEN "extend" ELSE "returned")
  /\ UNCHANGED <<sessions, lapsed, owner, ended, everLapsed>>

\* Whoever is looking at this session sees its new ExpiresAt.
Freshen(r) ==
  lookup' = [q \in Requests |->
    IF lookup[q] # NoLookup /\ lookup[q].on = lookup[r].on
    THEN [lookup[q] EXCEPT !.fresh = TRUE, !.at = IF q = r THEN "returned" ELSE @]
    ELSE lookup[q]]

\* Fault: the refreshed session is written back to the map.
RefreshStores(r) ==
  /\ At(r, "extend")
  /\ sessions' = sessions \cup {lookup[r].on}
  /\ lapsed' = lapsed \ {lookup[r].on}
  /\ Freshen(r)
  /\ UNCHANGED <<owner, ended, everLapsed>>
\* The new ExpiresAt goes to the session, in the map or not.
RefreshSession(r) ==
  /\ At(r, "extend")
  /\ lapsed' = lapsed \ {lookup[r].on}
  /\ Freshen(r)
  /\ UNCHANGED <<sessions, owner, ended, everLapsed>>

Return(r) ==
  /\ lookup[r].at \in {"found nothing", "returned"}
  /\ lookup' = [lookup EXCEPT ![r] = NoLookup]
  /\ UNCHANGED <<sessions, lapsed, owner, ended, everLapsed>>

End(gone) ==
  /\ sessions' = sessions \ gone
  /\ ended' = ended \cup gone
  /\ UNCHANGED <<lapsed, owner, lookup, everLapsed>>

DeleteSession(s) == End({s} \cap Created)

OwnedBy(u) == {s \in sessions : owner[s] = u}
DeleteUserSessions(u) == OwnedBy(u) # {} /\ End(OwnedBy(u))

Close == sessions # {} /\ End(sessions)

\* Fault: Before for After.
KeepExpired == sessions \cap lapsed
Unexpired == sessions \ lapsed

\* The hourly pass of cleanupExpiredSessions.
CleanupExpiredSessions ==
  /\ sessions # Unexpired
  /\ sessions' = Unexpired
  /\ UNCHANGED <<lapsed, owner, lookup, ended, everLapsed>>

Lapse(s) ==
  /\ s \in Created \ lapsed
  /\ lapsed' = lapsed \cup {s}
  /\ everLapsed' = everLapsed \cup {s}
  /\ UNCHANGED <<sessions, owner, lookup, ended>>

LookupStep(r) ==
  \/ Find(r)
  \/ CheckExpiry(r)
  \/ DeleteExpired(r)
  \/ TouchLastSeen(r)
  \/ RefreshSession(r)

SessionNext ==
  \/ \E s \in SessionIDs, u \in Users : CreateSession(s, u)
  \/ \E r \in Requests, o \in {"get", "refresh"}, s \in SessionIDs : Begin(r, o, s)
  \/ \E r \in Requests : LookupStep(r) \/ Return(r)
  \/ \E s \in SessionIDs : DeleteSession(s) \/ Lapse(s)
  \/ \E u \in Users : DeleteUserSessions(u)
  \/ Close
  \/ CleanupExpiredSessions

SessionSpec == SessionInit /\ [][SessionNext]_sessionVars

-----------------------------------------------------------------------------
(* Properties.                                                             *)

\* Deleting a session is final, whichever lookups and refreshes of it were
\* under way: they hold the session itself and never write it to the map.
EndedStaysEnded == ended \cap sessions = {}

\* A session is gone only because it ended or because it was expired at some
\* moment: no deletion inside GetSession or by the hourly cleanup takes one
\* that never was.  (It may have been refreshed in between: GetSession deletes
\* what it saw expired.)
OnlyExpiredLost == Created \ sessions \subseteq ended \cup everLapsed

\* GetSession and RefreshSession return a session only if it had not ended
\* when the call began and was unexpired at some moment of the call.
ReturnedWasLive ==
  \A r \in Requests : lookup[r].at = "returned" =>
    ~lookup[r].late /\ lookup[r].fresh
=============================================================================
