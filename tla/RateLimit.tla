----------------------------- MODULE RateLimit ------------------------------
(***************************************************************************)
(* RateLimitMiddleware of internal/errors/middleware.go, for the requests  *)
(* of one client address: the times of its requests within the window, in  *)
(* a map that concurrent requests read and write without a lock.  A        *)
(* request reads the list, writes it back without the old entries, checks  *)
(* its length and writes it again with an entry of its own.  Two requests  *)
(* at the map at once may overwrite each other's list, or end the process: *)
(* Go throws on concurrent accesses of a map when it notices them.         *)
(*                                                                         *)
(* Time goes by in ticks, none of them while a request is here.            *)
(***************************************************************************)
EXTENDS Integers, Sequences, FiniteSets

CONSTANTS
  Requests,     \* the requests that are served at once
  MaxRequests,  \* that a client may make within the window
  Window        \* ticks

ASSUME WindowAssumption == Window \in Nat \ {0} /\ MaxRequests \in Nat \ {0}

VARIABLES
  times,     \* clients[ip]: how many ticks ago each request was, oldest first
  mine,      \* mine[r]: the list that r will write
  admitted   \* history: the last MaxRequests that passed, as times

limitVars == <<times, mine, admitted>>

LimitInit ==
  /\ times = << >>
  /\ mine = [r \in Requests |-> << >>]
  /\ admitted = << >>

\* The entries of a list that are younger than age, in their order.
Younger(list, age) ==
  LET kept[i \in 0..Len(list)] ==
        IF i = 0 THEN << >>
        ELSE IF list[i] < age THEN Append(kept[i - 1], list[i]) ELSE kept[i - 1]
  IN kept[Len(list)]

\* Fault: an entry of exactly the window is kept.
RecentOrAt(list) == Younger(list, Window + 1)
Recent(list) == Younger(list, Window)

Holds(r, list) == mine' = [mine EXCEPT ![r] = list]

LimitClean(r) ==
  /\ Holds(r, Recent(times))
  /\ UNCHANGED <<times, admitted>>

LimitWrite(r) ==
  /\ times' = mine[r]
  /\ Holds(r, << >>)
  /\ UNCHANGED admitted

Full == Len(times) >= MaxRequests

LimitReject == Full /\ UNCHANGED limitVars

LastOf(list) == SubSeq(list, Len(list) - MaxRequests + 1, Len(list))
LimitPass(r) ==
  /\ ~Full
  /\ Holds(r, Append(times, 0))
  /\ admitted' = IF Len(admitted) < MaxRequests THEN Append(admitted, 0)
                 ELSE LastOf(Append(admitted, 0))
  /\ UNCHANGED times

\* An entry that left the window stays until the next request, and is older
\* than the window by then.
Older(age) == IF age < Window + 1 THEN age + 1 ELSE age
LimitTick ==
  /\ times' = [i \in DOMAIN times |-> Older(times[i])]
  /\ admitted' = Younger([i \in DOMAIN admitted |-> admitted[i] + 1], Window)
  /\ UNCHANGED mine

LimitForget ==
  /\ times' = << >> /\ admitted' = << >>
  /\ mine' = [r \in Requests |-> << >>]
=============================================================================
