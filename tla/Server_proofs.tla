---------------------------- MODULE Server_proofs ----------------------------
(***************************************************************************)
(* Proofs about Server, for any clusters of settings, requests and ticks.  *)
(* There is an invariant of the process and its requests (IInv), one of    *)
(* the lists of the rate limit (LimitInv) and one of what the server was   *)
(* configured from (Asked); the last two hold of every step that the first *)
(* is true of.                                                             *)
(***************************************************************************)
EXTENDS Server, RateLimit_proofs, TLAPS

Ending     == {"stopping manager", "closing SSE", "closing store", "exited", "hung"}
Closing    == {"closing SSE", "closing store", "exited", "hung"}
Before     == {"starting", "configured", "building", "managing", "failed"}
Working(r) == req[r].at \notin {"idle", "stream"}
Record     == [kind : Kinds \cup Codes, at : Places, age : Nat, gone : BOOLEAN]

\* What the steps need to know of the variables.
Shape ==
  /\ phase \in Phases
  /\ running \subseteq Parts
  /\ drain \in 0..DrainTicks
  /\ cluster \in [managed : BOOLEAN, data : BOOLEAN, status : BOOLEAN,
                  poll : {"none", "waiting", "querying", "stored"}, first : BOOLEAN]
  /\ req \in [Requests -> Record]

\* Before the server serves there is no cluster, no request and no manager, and
\* but for the drain nothing is counted.
Fresh ==
  /\ phase \in Before => cluster = NoCluster /\ \A r \in Requests : req[r].at = "idle"
  /\ phase \in Before \ {"failed"} => "manager" \notin running
  /\ phase \notin {"draining", "died"} => drain = 0

\* Handlers are no older than they may be, and a stream has had no ping yet that
\* could not be written; a request that is no stream and is under way while
\* Shutdown waits is as old as the wait.
Aged ==
  \A r \in Requests :
    /\ Working(r) => req[r].age <= WorkTicks
    /\ req[r].at = "stream" => \A age \in 1..(req[r].age - 1) : ~Unwritable(age)
    /\ phase = "draining" /\ Working(r) => drain <= req[r].age

\* The order of Shutdown, as what each of its steps has left.
Wound ==
  /\ phase \in Ending => "http" \notin running /\ \A r \in Requests : ~Working(r)
  /\ phase \in Closing => "manager" \notin running /\ cluster.poll \in {"none", "waiting"}
  /\ phase \in {"closing store", "exited"} => \A r \in Requests : req[r].at = "idle"
  /\ phase = "exited" => running \subseteq {"sweeper"}

\* A status is there with the data, and wherever there is a poll goroutine, but
\* in the first round of the cluster.
Known ==
  ~Redis =>
    /\ cluster.data \/ cluster.poll # "none" => cluster.first \/ cluster.status
    /\ \A r \in Requests :
         req[r].at = "status" => cluster.first \/ cluster.status \/ req[r].gone

\* A request that is under way has its kind, and no code yet; one that is
\* answered has a code, and is no request any more.
Named ==
  \A r \in Requests :
    /\ req[r].at # "idle" => req[r].kind \in Kinds
    /\ req[r].at = "idle" => req[r].kind \in Codes /\ req[r].age = 0

IInv == Shape /\ Fresh /\ Aged /\ Wound /\ Known /\ Named

-----------------------------------------------------------------------------
(* Requests.                                                               *)

\* What one step of a request may do: end it, open a stream, or move it on,
\* to the status only with the data.
MayBecome(old, new) ==
  \/ new.at = "idle" /\ new.kind \in Codes /\ new.age = 0
  \/ new.at = "stream" /\ old.at # "idle" /\ new.age = 0
  \/ /\ new.at \notin {"idle", "stream"} /\ old.at \notin {"idle", "stream"}
     /\ new.age = old.age /\ new.gone = old.gone
     /\ new.at = "status" => cluster.data
  \/ /\ phase = "serving"
     /\ new.at \notin {"idle", "stream", "status"} /\ new.age = 0

\* A step of one request that leaves everything else alone keeps the invariant.
LEMMA RequestKeeps ==
  ASSUME IInv, NEW r \in Requests, NEW new \in Record, MayBecome(req[r], new),
         new.at = "idle" \/ new.kind \in Kinds,
         req' = [req EXCEPT ![r] = new],
         UNCHANGED <<phase, running, drain, cluster, config>>
  PROVE  IInv'
<1> USE TicksAssumption, DrainAssumption
<1>1. Shape'
  BY DEF IInv, Shape
<1>2. Fresh'
  <2>1. new.at = "idle" \/ phase \notin Before
    BY DEF MayBecome, IInv, Fresh, Before
  <2> QED BY <2>1 DEF IInv, Shape, Fresh, Before
<1>3. Aged'
  BY DEF IInv, Shape, Aged, Working, MayBecome, Fresh, Record
<1>4. Wound'
  BY DEF IInv, Shape, Wound, Working, MayBecome, Ending, Closing, Record
<1>5. Known'
  BY DEF IInv, Shape, Known, MayBecome, Redis, Record
<1>6. Named'
  BY DEF IInv, Shape, Named, Record, MayBecome
<1> QED BY <1>1, <1>2, <1>3, <1>4, <1>5, <1>6 DEF IInv

Rest == <<phase, running, drain, cluster, config>>

\* An answer ends the request.
LEMMA AnsweredKeeps ==
  ASSUME IInv, NEW r \in Requests, NEW code \in Codes, Answered(r, code),
         UNCHANGED Rest
  PROVE  IInv'
<1> DEFINE new == [NoRequest EXCEPT !.kind = code]
<1>1. new \in Record /\ new.at = "idle" /\ new.kind = code /\ new.age = 0
  BY DEF NoRequest, Record, Places
<1> QED BY <1>1, RequestKeeps DEF Answered, MayBecome, Rest

\* A request goes on to another place within its handler or before it.
LEMMA GoesKeeps ==
  ASSUME IInv, NEW r \in Requests, NEW place \in Places \ {"idle", "stream"},
         Working(r), place = "status" => cluster.data, Goes(r, place),
         UNCHANGED Rest
  PROVE  IInv'
<1> DEFINE new == [req[r] EXCEPT !.at = place]
<1>1. req[r] \in Record
  BY DEF IInv, Shape
<1>2. new \in Record /\ new.at = place /\ new.age = req[r].age /\ new.gone = req[r].gone
  BY <1>1 DEF Record
<1>4. new.kind \in Kinds
  BY <1>1 DEF Record, IInv, Named, Working
<1>3. req' = [req EXCEPT ![r] = new]
  BY DEF Goes
<1> QED BY <1>2, <1>3, <1>4, RequestKeeps DEF MayBecome, Rest, Working

LEMMA ArriveKeeps ==
  ASSUME IInv, NEW r \in Requests, NEW kind \in Kinds, Arrive(r, kind)
  PROVE  IInv'
<1>2. UNCHANGED Rest /\ phase = "serving"
  BY DEF Arrive, ReqOnly, Rest
<1>3. CASE kind = "preflight"
  BY <1>2, <1>3, AnsweredKeeps DEF Arrive, Codes
<1>4. CASE kind # "preflight"
  <2> DEFINE place == IF ~On(config, "debug") THEN "clean"
                      ELSE IF Routed(kind) THEN Behind(kind) ELSE "no route"
             new == [NoRequest EXCEPT !.kind = kind, !.at = place]
  <2>1. place \in Places \ {"idle", "stream", "status"}
    BY DEF Behind, Places
  <2>2. new \in Record /\ new.at = place /\ new.age = 0 /\ new.kind = kind
    BY <2>1 DEF NoRequest, Record
  <2>3. req' = [req EXCEPT ![r] = new]
    BY <1>4 DEF Arrive
  <2> QED BY <1>2, <2>1, <2>2, <2>3, RequestKeeps DEF MayBecome, Rest
<1> QED BY <1>3, <1>4

LEMMA RateLimitKeeps ==
  ASSUME IInv, NEW r \in Requests, RateLimit(r)
  PROVE  IInv'
<1>1. UNCHANGED Rest
  BY DEF RateLimit, LimitOnly, Rest
<1>2. CASE req[r].at = "check" /\ Answered(r, "429")
  BY <1>1, <1>2, AnsweredKeeps DEF Codes
<1>3. ASSUME NEW place \in {"write", "check", "add", "auth", "handler", "no route"},
             req[r].at \in {"clean", "write", "check", "add"}, Goes(r, place)
      PROVE  IInv'
  BY <1>1, <1>3, GoesKeeps DEF Working, Places
<1> QED BY <1>2, <1>3 DEF RateLimit, Behind

LEMMA ServeKeeps ==
  ASSUME IInv, NEW r \in Requests, Serve(r)
  PROVE  IInv'
<1>1. CASE RateLimit(r)
  BY <1>1, RateLimitKeeps
<1>2. CASE NoRoute(r)
  BY <1>2, AnsweredKeeps DEF Codes, NoRoute, ReqOnly, Rest
<1>3. CASE Authenticate(r)
  <2>1. UNCHANGED Rest /\ req[r].at = "auth"
    BY <1>3 DEF Authenticate, ReqOnly, Rest
  <2>2. CASE Goes(r, "handler")
    BY <2>1, <2>2, GoesKeeps DEF Working, Places
  <2>3. CASE Answered(r, "401") \/ Answered(r, "302")
    BY <2>1, <2>3, AnsweredKeeps DEF Codes
  <2> QED BY <1>3, <2>2, <2>3 DEF Authenticate
<1>4. CASE HandlePage(r)
  <2>1. UNCHANGED Rest /\ \E code \in Codes : Answered(r, code)
    BY <1>4 DEF HandlePage, ReqOnly, Rest, Codes
  <2> QED BY <2>1, AnsweredKeeps
<1>5. CASE HandleHealth(r)
  BY <1>5, AnsweredKeeps DEF Codes, HandleHealth, ReqOnly, Rest
<1>6. CASE HandleDetailedHealth(r)
  <2>1. UNCHANGED Rest /\ \E code \in Codes : Answered(r, code)
    BY <1>6 DEF HandleDetailedHealth, ReqOnly, Rest, Codes
  <2> QED BY <2>1, AnsweredKeeps
<1>7. CASE ReadData(r)
  <2>1. UNCHANGED Rest /\ Working(r)
    BY <1>7 DEF ReadData, ReqOnly, Rest, InHandler, Working
  <2>2. CASE cluster.data /\ Goes(r, "status")
    BY <2>1, <2>2, GoesKeeps DEF Places
  <2>3. CASE Answered(r, "404")
    BY <2>1, <2>3, AnsweredKeeps DEF Codes
  <2> QED BY <1>7, <2>2, <2>3 DEF ReadData
<1>8. CASE ReadStatus(r)
  BY <1>8, AnsweredKeeps DEF Codes, ReadStatus, ReqOnly, Rest
<1>9. CASE OpenStream(r)
  <2>1. UNCHANGED Rest /\ req[r].at = "handler"
    BY <1>9 DEF OpenStream, ReqOnly, Rest, InHandler
  <2>2. CASE req' = [req EXCEPT ![r].at = "stream", ![r].age = 0]
    <3> DEFINE new == [req[r] EXCEPT !.at = "stream", !.age = 0]
    <3>1. req[r] \in Record
      BY DEF IInv, Shape
    <3>2. new \in Record /\ new.at = "stream" /\ new.age = 0 /\ new.kind \in Kinds
      BY <2>1, <3>1 DEF Record, Places, IInv, Named
    <3>3. req' = [req EXCEPT ![r] = new]
      BY <2>2
    <3> QED BY <2>1, <3>2, <3>3, RequestKeeps DEF MayBecome, Rest
  <2>3. CASE Answered(r, "429")
    BY <2>1, <2>3, AnsweredKeeps DEF Codes
  <2> QED BY <1>9, <2>2, <2>3 DEF OpenStream
<1> QED BY <1>1, <1>2, <1>3, <1>4, <1>5, <1>6, <1>7, <1>8, <1>9 DEF Serve, Handler

LEMMA EndStreamKeeps ==
  ASSUME IInv, NEW r \in Requests, EndStream(r)
  PROVE  IInv'
BY AnsweredKeeps DEF EndStream, ReqOnly, Rest, Codes

-----------------------------------------------------------------------------
(* The process.                                                            *)

LEMMA StartupKeeps ==
  ASSUME IInv, Startup
  PROVE  IInv'
<1>1. phase \in {"starting", "configured", "building", "managing"}
  BY DEF Startup, LoadConfig, CheckConfig, NewServer, NewServerFails, Start, StartFails
<1>2. cluster = NoCluster /\ drain = 0 /\ \A r \in Requests : req[r].at = "idle"
  BY <1>1 DEF IInv, Fresh, Before
<1>3. UNCHANGED <<drain, req>>
  BY DEF Startup, LoadConfig, CheckConfig, NewServer, NewServerFails, Start, StartFails, Processing
<1>6. Named'
  BY <1>3 DEF IInv, Named
<1>4. CASE Start
  <2>1. phase' = "serving" /\ running' \subseteq Parts
    BY <1>4 DEF Start, IInv, Shape, Parts
  <2>2. \/ cluster' = [managed |-> TRUE, data |-> TRUE, status |-> TRUE,
                        poll |-> "none", first |-> FALSE]
        \/ cluster' = [managed |-> TRUE, data |-> FALSE, status |-> FALSE,
                        poll |-> "waiting", first |-> TRUE]
    <3>1. CASE On(config, "mock")
      BY <1>4, <3>1 DEF Start
    <3>2. CASE ~On(config, "mock")
      BY <1>4, <3>2 DEF Start, On
    <3> QED BY <3>1, <3>2
  <2>3. \A r \in Requests : req'[r].at = "idle"
    BY <1>2, <1>3
  <2>4. Known'
    BY <2>2, <2>3 DEF Known
  <2>5. Shape'
    <3>1. cluster' \in [managed : BOOLEAN, data : BOOLEAN, status : BOOLEAN,
                       poll : {"none", "waiting", "querying", "stored"}, first : BOOLEAN]
      <4>1. CASE On(config, "mock")
        BY <1>4, <4>1 DEF Start
      <4>2. CASE ~On(config, "mock")
        BY <1>4, <4>2 DEF Start, On
      <4> QED BY <4>1, <4>2
    <3> QED BY <1>3, <2>1, <3>1 DEF IInv, Shape, Phases
  <2>6. Fresh' /\ Aged' /\ Wound'
    BY <1>2, <1>3, <2>1, <2>3 DEF Working, Fresh, Before, Aged, Wound, Ending, Closing
  <2> QED BY <1>6, <2>4, <2>5, <2>6 DEF IInv
<1>5. CASE LoadConfig \/ CheckConfig \/ NewServer \/ NewServerFails \/ StartFails
  <2>1. cluster' = cluster
    BY <1>5 DEF LoadConfig, CheckConfig, NewServer, NewServerFails, StartFails, Processing
  <2>2. running' \subseteq Parts
    BY <1>5 DEF LoadConfig, CheckConfig, NewServer, NewServerFails, StartFails, StoreParts,
          IInv, Shape, Parts
  <2>3. /\ phase' \in {"configured", "building", "managing", "failed"}
        /\ phase' # "failed" => "manager" \notin running'
    BY <1>1, <1>5 DEF LoadConfig, CheckConfig, NewServer, NewServerFails, StartFails,
          StoreParts, IInv, Fresh, Before
  <2>4. Known'
    BY <1>2, <1>3, <2>1 DEF NoCluster, Known
  <2>5. Shape'
    BY <1>3, <2>1, <2>2, <2>3 DEF IInv, Shape, Phases
  <2>6. Fresh' /\ Aged' /\ Wound'
    BY <1>2, <1>3, <2>1, <2>3 DEF Working, Fresh, Before, Aged, Wound, Ending, Closing
  <2> QED BY <1>6, <2>4, <2>5, <2>6 DEF IInv
<1> QED BY <1>4, <1>5 DEF Startup

LEMMA SignalKeeps ==
  ASSUME IInv, Signal
  PROVE  IInv'
BY TicksAssumption
   DEF Signal, Processing, IInv, Shape, Fresh, Aged, Wound, Known, Named, Before, Ending,
       Closing, Phases, Working, Redis, Record

\* When the drain has taken its time, only streams are left.
LEMMA DrainedLeavesStreams ==
  ASSUME IInv, Drained
  PROVE  \A r \in Requests : ~Working(r)
<1> SUFFICES ASSUME NEW r \in Requests, Working(r)
             PROVE  FALSE
  OBVIOUS
<1>1. r \in InFlight
  BY DEF InFlight, Working
<1>2. drain = DrainTicks
  BY <1>1 DEF Drained
<1>3. drain <= req[r].age /\ req[r].age <= WorkTicks /\ req[r].age \in Nat
  BY DEF Drained, IInv, Aged, Shape, Record
<1> QED BY <1>2, <1>3, TicksAssumption, DrainAssumption

\* No stream outlasts the time of the drain, for it would have had a ping that
\* could not be written.
LEMMA StreamEnds ==
  ASSUME IInv, NEW r \in Requests, req[r].at = "stream"
  PROVE  req[r].age <= DrainTicks
<1>1. PICK age \in 1..DrainTicks : Unwritable(age)
  BY DrainAssumption
<1>2. age \notin 1..(req[r].age - 1)
  BY <1>1 DEF IInv, Aged
<1>3. req[r].age \in Nat /\ DrainTicks \in Nat
  BY TicksAssumption DEF IInv, Shape, Record
<1> QED BY <1>1, <1>2, <1>3

LEMMA ShutdownKeeps ==
  ASSUME IInv, Shutdown
  PROVE  IInv'
<1>1. /\ phase \in {"draining", "stopping manager", "closing SSE", "closing store"}
      /\ phase' \in Ending /\ running' \subseteq running /\ drain' = 0
      /\ UNCHANGED <<config, cluster, req>>
  BY DEF Shutdown, Drained, StopManager, CloseSSE, CloseStore, Processing, IInv, Fresh, Ending
<1>2. \A r \in Requests : ~Working(r)
  <2>1. CASE Drained
    BY <2>1, DrainedLeavesStreams
  <2>2. CASE phase \in Ending
    BY <2>2 DEF IInv, Wound
  <2> QED BY <2>1, <2>2 DEF Shutdown, StopManager, CloseSSE, CloseStore, Ending
<1>3. Shape'
  <2>1. phase' \in Phases
    BY <1>1 DEF Ending, Phases
  <2>2. drain' \in 0..DrainTicks
    <3>1. DrainTicks \in Nat
      BY TicksAssumption
    <3>2. drain' = 0
      BY <1>1
    <3> QED BY <3>1, <3>2
  <2> QED BY <1>1, <2>1, <2>2 DEF IInv, Shape
<1>4. Fresh' /\ Known' /\ Named'
  BY <1>1 DEF IInv, Fresh, Known, Named, Before, Ending, Redis
<1>5. Aged'
  BY <1>1, <1>2 DEF IInv, Aged, Working, Ending
<1>6. Wound'
  <2>1. (phase' \in Ending => "http" \notin running' /\ \A r \in Requests : ~Working(r)')
    BY <1>1, <1>2 DEF Working, Shutdown, Drained, StopManager, CloseSSE, CloseStore,
                      IInv, Wound, Ending
  <2>2. phase' \in Closing => "manager" \notin running' /\ cluster'.poll \in {"none", "waiting"}
    BY <1>1 DEF Shutdown, Drained, StopManager, CloseSSE, CloseStore, IInv, Wound, Closing
  <2>3. phase' \in {"closing store", "exited"} => \A r \in Requests : req'[r].at = "idle"
    BY <1>1, <1>2 DEF Working, Shutdown, Drained, StopManager, CloseSSE, CloseStore,
                      IInv, Wound
  <2>4. phase' = "exited" => running' \subseteq {"sweeper"}
    BY DEF Shutdown, Drained, StopManager, CloseSSE, CloseStore, IInv, Wound, Shape,
           Parts, Ending, Closing
  <2> QED BY <2>1, <2>2, <2>3, <2>4 DEF Wound
<1> QED BY <1>3, <1>4, <1>5, <1>6 DEF IInv

LEMMA MapFaultKeeps ==
  ASSUME IInv, MapFault
  PROVE  IInv'
<1>1. req' = [r \in Requests |-> NoRequest] /\ cluster' = NoCluster /\ phase' = "died"
  BY DEF MapFault
<1>2. /\ NoRequest \in Record /\ NoRequest.at = "idle"
      /\ NoRequest.kind \in Codes /\ NoRequest.age = 0
  BY DEF NoRequest, Record, Places, Codes
<1>3. running' = {} /\ UNCHANGED <<config, drain>>
  BY DEF MapFault
<1>4. Shape' /\ Fresh' /\ Aged' /\ Wound' /\ Named'
  BY <1>1, <1>2, <1>3
     DEF IInv, Shape, Fresh, Aged, Wound, Named, Before, Ending, Closing, Phases, Parts,
         Working, NoCluster, Record
<1>5. Known'
  BY <1>1, <1>2, <1>3 DEF Known, Redis, NoCluster
<1> QED BY <1>4, <1>5 DEF IInv

-----------------------------------------------------------------------------
(* The manager and time.                                                   *)

ClusterRecord == [managed : BOOLEAN, data : BOOLEAN, status : BOOLEAN,
                  poll : {"none", "waiting", "querying", "stored"}, first : BOOLEAN]

\* What the manager does to the store disturbs nothing but what is known.
LEMMA ClusterKeeps ==
  ASSUME IInv, Managing, cluster' \in ClusterRecord, Known',
         UNCHANGED <<phase, running, drain, config, req>>
  PROVE  IInv'
<1>1. phase \notin Before /\ phase \notin Closing
  BY DEF Managing, IInv, Fresh, Wound, Before
<1>2. Shape'
  BY DEF IInv, Shape, ClusterRecord
<1>3. Fresh'
  BY <1>1 DEF IInv, Fresh
<1>4. Aged' /\ Wound' /\ Named'
  BY <1>1 DEF IInv, Aged, Wound, Working, Named
<1> QED BY <1>2, <1>3, <1>4 DEF IInv

LEMMA ManagerKeeps ==
  ASSUME IInv, Manager
  PROVE  IInv'
<1>1. cluster \in ClusterRecord /\ Managing /\ config' = config
  BY DEF IInv, Shape, ClusterRecord, Manager, Poll, StoreData, StoreStatus, HealthCheck,
         RemoveCluster, AddCluster, Polls, ClusterOnly
<1>2. ~Redis => \A field, value : Written(field, value) = {value}
  BY DEF Written
<1>3. \A field \in {"data", "status"}, value \in BOOLEAN : Written(field, value) \subseteq BOOLEAN
  BY <1>1 DEF Written, ClusterRecord
<1>4. CASE Poll \/ StoreData \/ StoreStatus \/ HealthCheck \/ AddCluster
  <2>1. UNCHANGED <<phase, running, drain, config, req>>
    BY <1>4 DEF Poll, StoreData, StoreStatus, HealthCheck, AddCluster, ClusterOnly
  <2>2. cluster' \in ClusterRecord
    BY <1>1, <1>3, <1>4
       DEF Poll, StoreData, StoreStatus, HealthCheck, AddCluster, ClusterRecord
  <2>3. Known'
    <3> SUFFICES ASSUME ~Redis
                 PROVE  Known'
      BY <1>1 DEF Known, Redis
    <3>1. CASE Poll
      BY <1>1, <2>1, <3>1 DEF IInv, Known, Poll, ClusterRecord
    <3>2. CASE StoreData
      BY <1>1, <1>2, <2>1, <3>2 DEF IInv, Known, StoreData, ClusterRecord
    <3>3. CASE StoreStatus \/ HealthCheck
      <4>1. cluster'.status
        BY <1>1, <3>3 DEF StoreStatus, HealthCheck, Written, ClusterRecord
      <4> QED BY <4>1 DEF Known
    <3>4. CASE AddCluster
      BY <1>1, <2>1, <3>4 DEF IInv, Known, AddCluster, ClusterRecord
    <3> QED BY <1>4, <3>1, <3>2, <3>3, <3>4
  <2> QED BY <1>1, <2>1, <2>2, <2>3, ClusterKeeps
<1>5. CASE RemoveCluster
  <2>1. phase \notin Before /\ phase \notin Closing
    BY <1>1 DEF Managing, IInv, Fresh, Wound, Before
  <2>2. UNCHANGED <<phase, running, drain, config>>
    BY <1>5 DEF RemoveCluster
  <2>3. PICK data \in Written("data", FALSE), status \in Written("status", FALSE) :
          cluster' = [NoCluster EXCEPT !.data = data, !.status = status]
    BY <1>5 DEF RemoveCluster
  <2>4. data \in BOOLEAN /\ status \in BOOLEAN
    BY <1>3
  <2>5. cluster' = [managed |-> FALSE, data |-> data, status |-> status,
                    poll |-> "none", first |-> FALSE]
    BY <2>3 DEF NoCluster
  <2>6. req' = [r \in Requests |-> [req[r] EXCEPT !.gone = (req[r].at = "status")]]
    BY <1>5 DEF RemoveCluster
  <2>7. req' \in [Requests -> Record]
    BY <2>6 DEF IInv, Shape, Record
  <2>8. \A r \in Requests : /\ req'[r].at = req[r].at /\ req'[r].age = req[r].age
                             /\ req'[r].kind = req[r].kind
                             /\ req'[r].gone = (req[r].at = "status")
    BY <2>6 DEF IInv, Shape, Record
  <2>9. Shape'
    BY <2>2, <2>4, <2>5, <2>7 DEF IInv, Shape
  <2>10. Known'
    <3>1. cluster'.poll = "none" /\ (~Redis => ~cluster'.data)
      <4>1. cluster'.poll = "none" /\ cluster'.data = data
        BY <2>5
      <4>2. ~Redis => data = FALSE
        BY <2>3 DEF Written
      <4> QED BY <4>1, <4>2
    <3>2. \A r \in Requests : req'[r].at = "status" => req'[r].gone
      BY <2>8
    <3> QED BY <2>2, <3>1, <3>2 DEF Known, Redis
  <2>11. Fresh' /\ Aged' /\ Wound' /\ Named'
    BY <2>1, <2>2, <2>5, <2>8 DEF IInv, Fresh, Aged, Wound, Working, Named
  <2> QED BY <2>9, <2>10, <2>11 DEF IInv
<1> QED BY <1>4, <1>5 DEF Manager

LEMMA TickKeeps ==
  ASSUME IInv, Tick
  PROVE  IInv'
<1> USE TicksAssumption, DrainAssumption
<1>1. UNCHANGED <<phase, config, running, cluster>> /\ phase \in {"serving", "draining"}
  BY DEF Tick
<1>2. /\ drain' \in 0..DrainTicks
      /\ drain' = IF phase = "draining" THEN drain + 1 ELSE drain
  BY DEF Tick, IInv, Shape
<1>3. \A r \in Requests :
        /\ req[r].at = "idle" => req'[r] = req[r]
        /\ req[r].at # "idle" => req'[r] = [req[r] EXCEPT !.age = req[r].age + 1]
  BY DEF Tick
<1>4. ASSUME NEW r \in Requests
      PROVE  /\ req'[r].at = req[r].at /\ req'[r].kind = req[r].kind
             /\ req[r].at # "idle" => req'[r].age = req[r].age + 1
             /\ req[r].at = "idle" => req'[r].age = req[r].age
             /\ req[r].gone => req'[r].gone
  <2>1. req[r] \in Record
    BY DEF IInv, Shape
  <2>2. CASE req[r].at = "idle"
    BY <1>3, <2>2
  <2>3. CASE req[r].at # "idle"
    <3>1. req'[r] = [req[r] EXCEPT !.age = req[r].age + 1]
      BY <1>3, <2>3
    <3> QED BY <2>1, <2>3, <3>1 DEF Record
  <2> QED BY <2>2, <2>3
<1>5. req' \in [Requests -> Record]
  BY DEF Tick, IInv, Shape, Record
<1>6. Shape'
  BY <1>1, <1>2, <1>5 DEF IInv, Shape
<1>7. Fresh' /\ Wound' /\ Known' /\ Named'
  <2>1. Fresh' /\ Wound' /\ Named'
    BY <1>1, <1>2, <1>4 DEF IInv, Fresh, Wound, Named, Before, Ending, Closing, Working
  <2>2. Known'
    BY <1>1, <1>4 DEF IInv, Known, Redis
  <2> QED BY <2>1, <2>2
<1>8. Aged'
  <2> SUFFICES ASSUME NEW r \in Requests
               PROVE  /\ Working(r)' => req'[r].age <= WorkTicks
                      /\ req'[r].at = "stream" =>
                           \A age \in 1..(req'[r].age - 1) : ~Unwritable(age)
                      /\ phase' = "draining" /\ Working(r)' => drain' <= req'[r].age
    BY DEF Aged
  <2>1. MayAge(r) /\ req[r].age \in Nat /\ drain \in Nat
    BY DEF Tick, IInv, Shape, Record
  <2>2. CASE Working(r)
    <3>1. req[r].age < WorkTicks
      BY <2>1, <2>2 DEF MayAge, Working
    <3> QED BY <1>1, <1>2, <1>4, <2>1, <2>2, <3>1 DEF IInv, Aged, Working
  <2>3. CASE req[r].at = "stream"
    <3>1. ~Unwritable(req[r].age)
      BY <2>1, <2>3 DEF MayAge, PingFails
    <3>2. \A age \in 1..(req[r].age - 1) : ~Unwritable(age)
      BY <2>3 DEF IInv, Aged
    <3>3. req'[r].age = req[r].age + 1 /\ ~Working(r)'
      BY <1>4, <2>3 DEF Working
    <3>4. ASSUME NEW age \in 1..(req'[r].age - 1)
          PROVE  ~Unwritable(age)
      <4>1. age = req[r].age \/ age \in 1..(req[r].age - 1)
        BY <2>1, <3>3
      <4> QED BY <3>1, <3>2, <4>1
    <3> QED BY <3>3, <3>4
  <2>4. CASE req[r].at = "idle"
    BY <1>4, <2>4 DEF Working
  <2> QED BY <2>2, <2>3, <2>4 DEF Working
<1> QED BY <1>6, <1>7, <1>8 DEF IInv

-----------------------------------------------------------------------------
(* The theorems.                                                           *)

LEMMA StepKeeps ==
  ASSUME IInv, [Next]_vars
  PROVE  IInv'
<1>1. CASE UNCHANGED vars
  <2>1. UNCHANGED <<phase, running, drain, cluster, req, config>>
    BY <1>1 DEF vars
  <2>2. Shape' /\ Fresh' /\ Named'
    BY <2>1 DEF IInv, Shape, Fresh, Named
  <2>3. Aged' /\ Wound'
    BY <2>1 DEF IInv, Aged, Wound, Working
  <2>4. Known'
    BY <2>1 DEF IInv, Known, Redis
  <2> QED BY <2>2, <2>3, <2>4 DEF IInv
<1>2. CASE Next
  <2>1. ASSUME NEW r \in Requests, NEW kind \in Kinds, Arrive(r, kind)
        PROVE  IInv'
    BY <2>1, ArriveKeeps
  <2> QED
    BY <1>2, <2>1, StartupKeeps, SignalKeeps, ShutdownKeeps, ManagerKeeps, ServeKeeps,
       EndStreamKeeps, MapFaultKeeps, TickKeeps DEF Next
<1> QED BY <1>1, <1>2

\* The invariant holds of every state of the server.
THEOREM Invariant == Spec => []IInv
<1>1. ASSUME Init
      PROVE  IInv
  <2>1. req = [r \in Requests |-> NoRequest] /\ cluster = NoCluster
    BY <1>1 DEF Init
  <2>2. /\ NoRequest \in Record /\ NoRequest.at = "idle"
        /\ NoRequest.kind \in Codes /\ NoRequest.age = 0
    BY DEF NoRequest, Record, Places, Codes
  <2>3. phase = "starting" /\ running = {} /\ drain = 0
    BY <1>1 DEF Init
  <2>4. DrainTicks \in Nat
    BY TicksAssumption
  <2>5. Shape
    BY <2>1, <2>2, <2>3, <2>4 DEF Shape, NoCluster, Phases, Parts
  <2>6. Fresh /\ Aged /\ Wound /\ Named
    BY <2>1, <2>2, <2>3
       DEF Fresh, Aged, Wound, Named, Working, Before, Ending, Closing
  <2>7. Known
    BY <2>1, <2>2 DEF Known, NoCluster
  <2> QED BY <2>5, <2>6, <2>7 DEF IInv
<1>2. IInv /\ [Next]_vars => IInv'
  BY StepKeeps
<1> QED BY <1>1, <1>2, PTL DEF Spec

\* When the process exits, nothing that uses the store has outlived it: the
\* order of the steps of Shutdown, whatever requests and rounds it meets.
THEOREM StopOrder == Spec => []StoreOutlivesUsers
<1>1. IInv => StoreOutlivesUsers
  BY DEF IInv, Wound, StoreOutlivesUsers, InFlight, Ending, Closing
<1> QED BY <1>1, Invariant, PTL

\* A request that is under way is answered by a step of its own.
LEMMA AnsweredByItself ==
  ASSUME IInv, Next, NEW r \in Requests, req[r].at # "idle",
         req'[r].kind \in Codes \ {"none"}
  PROVE  Serve(r) \/ EndStream(r)
<1>1. req[r] \in Record /\ req[r].kind \notin Codes
  BY DEF IInv, Shape, Named, Kinds, Public, Protected, TokenPages, Codes
<1>2. req'[r] # req[r] /\ req'[r].kind # req[r].kind
  BY <1>1
<1>3. CASE \E q \in Requests : Serve(q) \/ EndStream(q) \/ \E kind \in Kinds : Arrive(q, kind)
  <2>1. PICK q \in Requests : Serve(q) \/ EndStream(q) \/ \E kind \in Kinds : Arrive(q, kind)
    BY <1>3
  <2>2. \E new : req' = [req EXCEPT ![q] = new]
    BY <2>1
       DEF Serve, Handler, RateLimit, NoRoute, Authenticate, HandlePage, HandleHealth,
           HandleDetailedHealth, ReadData, ReadStatus, OpenStream, EndStream, Arrive,
           Answered, Goes
  <2>3. q = r
    BY <1>2, <2>2 DEF IInv, Shape
  <2> QED BY <2>1, <2>3 DEF Arrive
<1>4. CASE Tick
  BY <1>1, <1>2, <1>4 DEF Tick, Record
<1>5. CASE RemoveCluster
  <2>1. req'[r] = [req[r] EXCEPT !.gone = (req[r].at = "status")]
    BY <1>5 DEF RemoveCluster
  <2> QED BY <1>1, <1>2, <2>1 DEF Record
<1>6. CASE MapFault
  BY <1>6 DEF MapFault, NoRequest
<1>7. CASE Startup \/ Signal \/ Shutdown \/ (Manager /\ ~RemoveCluster)
  <2>1. req' = req
    BY <1>7
       DEF Startup, LoadConfig, CheckConfig, NewServer, NewServerFails, Start, StartFails,
           Signal, Shutdown, Drained, StopManager, CloseSSE, CloseStore, Processing,
           Manager, Poll, StoreData, StoreStatus, HealthCheck, AddCluster, ClusterOnly
  <2> QED BY <1>2, <2>1
<1> QED BY <1>3, <1>4, <1>5, <1>6, <1>7 DEF Next

\* handleCluster finds a status with the data it has read, but in the first
\* round of a cluster and when the cluster is removed in between.
THEOREM StatusComesWithData == Spec => StatusKnown
<1>1. ASSUME IInv, Next, NEW r \in Requests, req[r].at = "status",
             req'[r].kind = "no status", ~Redis
      PROVE  cluster.first \/ req[r].gone
  <2>2. ReadStatus(r)
    <3>1. Serve(r) \/ EndStream(r)
      BY <1>1, AnsweredByItself DEF Codes
    <3> QED
      BY <1>1, <3>1
         DEF Serve, Handler, RateLimit, NoRoute, Authenticate, HandlePage, HandleHealth,
             HandleDetailedHealth, ReadData, OpenStream, EndStream, InHandler
  <2>3. ~cluster.status
    <3>1. CASE Answered(r, "200")
      BY <1>1, <3>1 DEF Answered, NoRequest, IInv, Shape
    <3> QED BY <1>1, <2>2, <3>1 DEF ReadStatus
  <2> QED BY <1>1, <2>3 DEF IInv, Known
<1>2. IInv /\ [Next]_vars =>
        [\A r \in Requests : req[r].at = "status" /\ req'[r].kind = "no status" =>
           cluster.first \/ req[r].gone \/ Redis]_vars
  BY <1>1
<1> QED BY <1>2, Invariant, PTL DEF Spec, StatusKnown

\* When the drain ends, what is left open was opened since the signal: Shutdown
\* returns early only with nothing left, and by its timeout every older stream
\* has met a ping that could not be written.
THEOREM OnlyLateStreamsAreCut == Spec => CutsLateStreams
<1>1. ASSUME IInv, Next, phase = "draining", phase' = "stopping manager"
      PROVE  \A r \in InFlight : Stream(r) => req[r].age <= drain
  <2>1. Drained
    BY <1>1
       DEF Next, Startup, LoadConfig, CheckConfig, NewServer, NewServerFails, Start, StartFails,
           Signal, Shutdown, Drained, StopManager, CloseSSE, CloseStore,
           Manager, Poll, StoreData, StoreStatus, HealthCheck, RemoveCluster, AddCluster,
           ClusterOnly, Serve, Handler, RateLimit, NoRoute, Authenticate, HandlePage,
           HandleHealth, HandleDetailedHealth, ReadData, ReadStatus, OpenStream, EndStream,
           Arrive, ReqOnly, LimitOnly, MapFault, Tick
  <2>2. ASSUME NEW r \in InFlight, Stream(r)
        PROVE  req[r].age <= drain
    <3>1. r \in Requests /\ req[r].at = "stream"
      BY <2>2 DEF InFlight, Stream
    <3>2. drain = DrainTicks
      BY <2>1, <2>2 DEF Drained
    <3> QED BY <1>1, <3>1, <3>2, StreamEnds
  <2> QED BY <2>2
<1>2. IInv /\ [Next]_vars =>
        [phase = "draining" /\ phase' = "stopping manager" =>
           \A r \in InFlight : Stream(r) => req[r].age <= drain]_vars
  BY <1>1
<1> QED BY <1>2, Invariant, PTL DEF Spec, CutsLateStreams

-----------------------------------------------------------------------------
(* The rate limit.                                                         *)

\* No list holds an entry that those admitted do not answer for: the one in the
\* map, and those that requests are about to write.  Who checks the length of
\* the list has had it cleaned since time went by.
LimitInv ==
  /\ Honest(times, admitted)
  /\ Noted(admitted)
  /\ mine \in [Requests -> Seq(Nat)]
  /\ \A r \in Requests :
       req[r].at \in {"write", "add"} => Honest(mine[r], admitted) /\ AllRecent(mine[r])
  /\ (\E r \in Requests : req[r].at \in {"check", "add"}) => AllRecent(times)

\* Steps that bring no request to the lists.
LEMMA LimitStays ==
  ASSUME LimitInv, UNCHANGED limitVars,
         \A r \in Requests : req'[r].at \in {"write", "check", "add"} => req'[r].at = req[r].at
  PROVE  LimitInv'
BY DEF LimitInv, limitVars, Honest, Times, Covered, Sorted, Noted, AllRecent

\* A request takes a list, or none, to its next place.
LEMMA LimitMoves ==
  ASSUME IInv, LimitInv, NEW r \in Requests, NEW place, Goes(r, place),
         NEW list \in Seq(Nat), Holds(r, list),
         Honest(times', admitted'), Noted(admitted'),
         place \in {"write", "add"} => Honest(list, admitted') /\ AllRecent(list),
         \A q \in Requests \ {r} :
           req[q].at \in {"write", "add"} => Honest(mine[q], admitted'),
         AllRecent(times) \/ place = "check" => AllRecent(times'),
         place = "add" => req[r].at = "check"
  PROVE  LimitInv'
<1>1. /\ req'[r].at = place
      /\ \A q \in Requests \ {r} : req'[q] = req[q]
  BY DEF Goes, IInv, Shape, Record
<1>2. /\ mine' \in [Requests -> Seq(Nat)] /\ mine'[r] = list
      /\ \A q \in Requests \ {r} : mine'[q] = mine[q]
  BY DEF Holds, LimitInv
<1>3. ASSUME NEW q \in Requests, req'[q].at \in {"write", "add"}
      PROVE  Honest(mine'[q], admitted') /\ AllRecent(mine'[q])
  <2>1. CASE q = r
    BY <1>1, <1>2, <1>3, <2>1
  <2>2. CASE q # r
    BY <1>1, <1>2, <1>3, <2>2 DEF LimitInv
  <2> QED BY <2>1, <2>2
<1>4. ASSUME NEW q \in Requests, req'[q].at \in {"check", "add"}
      PROVE  AllRecent(times')
  <2>1. CASE q = r
    BY <1>1, <1>4, <2>1 DEF LimitInv
  <2>2. CASE q # r
    BY <1>1, <1>4, <2>2 DEF LimitInv
  <2> QED BY <2>1, <2>2
<1>5. \A q \in Requests : req'[q].at \in {"write", "add"} =>
                            Honest(mine'[q], admitted') /\ AllRecent(mine'[q])
  BY <1>3
<1>6. (\E q \in Requests : req'[q].at \in {"check", "add"}) => AllRecent(times')
  BY <1>4
<1> QED BY <1>2, <1>5, <1>6 DEF LimitInv, Honest, Times, Covered, Sorted, Noted, AllRecent

LEMMA LimitRateLimit ==
  ASSUME IInv, LimitInv, NEW r \in Requests, RateLimit(r)
  PROVE  LimitInv'
<1>1. Honest(times, admitted) /\ Noted(admitted) /\ mine[r] \in Seq(Nat)
  BY DEF LimitInv
<1>2. CASE req[r].at = "clean" /\ LimitClean(r) /\ Goes(r, "write")
  <2>1. Honest(Recent(times), admitted) /\ AllRecent(Recent(times))
    BY <1>1, RecentHonest
  <2>2. Recent(times) \in Seq(Nat)
    BY <2>1 DEF Honest, Times
  <2>3. Holds(r, Recent(times)) /\ times' = times /\ admitted' = admitted
    BY <1>2 DEF LimitClean
  <2>4. \A q \in Requests : req[q].at \in {"write", "add"} => Honest(mine[q], admitted')
    BY <2>3 DEF LimitInv
  <2>5. Honest(times', admitted') /\ Noted(admitted')
    BY <1>1, <2>3
  <2>6. Honest(Recent(times), admitted')
    BY <2>1, <2>3
  <2>7. AllRecent(times) \/ "write" = "check" => AllRecent(times')
    BY <2>3
  <2> QED BY <1>2, <2>1, <2>2, <2>3, <2>4, <2>5, <2>6, <2>7, LimitMoves
<1>3. ASSUME NEW place \in Places \ {"write", "add"}, req[r].at \in {"write", "add"},
             LimitWrite(r), Goes(r, place)
      PROVE  LimitInv'
  <2>1. Honest(mine[r], admitted) /\ AllRecent(mine[r])
    BY <1>3 DEF LimitInv
  <2>2. << >> \in Seq(Nat)
    OBVIOUS
  <2>3. Holds(r, << >>) /\ times' = mine[r] /\ admitted' = admitted
    BY <1>3 DEF LimitWrite
  <2>4. \A q \in Requests : req[q].at \in {"write", "add"} => Honest(mine[q], admitted')
    BY <2>3 DEF LimitInv
  <2>5. Honest(times', admitted') /\ Noted(admitted') /\ AllRecent(times')
    BY <1>1, <2>1, <2>3
  <2> QED BY <1>3, <2>2, <2>3, <2>4, <2>5, LimitMoves
<1>4. CASE req[r].at = "write" /\ LimitWrite(r) /\ Goes(r, "check")
  BY <1>3, <1>4 DEF Places
<1>5. CASE req[r].at = "check" /\ LimitReject /\ Answered(r, "429")
  <2>1. \A q \in Requests : req'[q].at \in {"write", "check", "add"} => req'[q].at = req[q].at
    BY <1>5 DEF Answered, NoRequest, IInv, Shape
  <2> QED BY <1>5, <2>1, LimitStays DEF LimitReject
<1>6. CASE req[r].at = "check" /\ LimitPass(r) /\ Goes(r, "add")
  <2>1. AllRecent(times) /\ Len(times) \in Nat
    BY <1>1, <1>6 DEF LimitInv, Honest, Times
  <2>2. Len(times) < MaxRequests
    BY <1>6, <2>1, WindowAssumption DEF LimitPass, Full
  <2>3. admitted' = Joined(admitted) /\ times' = times /\ Holds(r, Append(times, 0))
    BY <1>6 DEF LimitPass, Joined
  <2>4. Honest(Append(times, 0), admitted') /\ AllRecent(Append(times, 0))
    BY <1>1, <2>1, <2>2, <2>3, AppendHonest
  <2>5. Honest(times', admitted') /\ Noted(admitted')
    BY <1>1, <2>3, JoinedCovers, JoinedNoted
  <2>6. ASSUME NEW q \in Requests, req[q].at \in {"write", "add"}
        PROVE  Honest(mine[q], admitted')
    BY <1>1, <2>3, <2>6, JoinedCovers DEF LimitInv
  <2>7. Append(times, 0) \in Seq(Nat)
    BY <2>4 DEF Honest, Times
  <2>8. AllRecent(times')
    BY <2>1, <2>3
  <2> QED BY <1>6, <2>3, <2>4, <2>5, <2>6, <2>7, <2>8, LimitMoves
<1>7. CASE /\ req[r].at = "add" /\ LimitWrite(r)
           /\ Goes(r, IF Routed(req[r].kind) THEN Behind(req[r].kind) ELSE "no route")
  <2>1. (IF Routed(req[r].kind) THEN Behind(req[r].kind) ELSE "no route")
          \in Places \ {"write", "add"}
    BY DEF Behind, Places
  <2> QED BY <1>3, <1>7, <2>1
<1> QED BY <1>2, <1>4, <1>5, <1>6, <1>7 DEF RateLimit

\* Time goes by only while no request is at the lists.
LEMMA LimitTicks ==
  ASSUME IInv, LimitInv, Tick
  PROVE  LimitInv'
<1>1. Honest(times, admitted) /\ Noted(admitted)
  BY DEF LimitInv
<1>2. /\ times' = [i \in DOMAIN times |-> Older(times[i])]
      /\ admitted' = Still(admitted) /\ mine' = mine
  BY DEF Tick, LimitTick, Still
<1>3. Honest(times', admitted') /\ Noted(admitted')
  BY <1>1, <1>2, TickHonest, StillNoted
<1>4. ASSUME NEW r \in Requests
      PROVE  req'[r].at \notin {"write", "check", "add"}
  <2>1. MayAge(r) /\ req[r] \in Record
    BY DEF Tick, IInv, Shape
  <2>2. req[r].at \notin {"write", "check", "add"}
    BY <2>1 DEF MayAge, AtTheMap
  <2>3. req'[r].at = req[r].at
    BY <2>1 DEF Tick, Record
  <2> QED BY <2>2, <2>3
<1> QED BY <1>2, <1>3, <1>4 DEF LimitInv, Honest, Times, Covered, Sorted, Noted, AllRecent

LEMMA LimitStep ==
  ASSUME IInv, LimitInv, [Next]_vars
  PROVE  LimitInv'
<1>1. CASE UNCHANGED vars
  BY <1>1, LimitStays DEF vars
<1>2. ASSUME NEW r \in Requests, RateLimit(r)
      PROVE  LimitInv'
  BY <1>2, LimitRateLimit
<1>3. ASSUME NEW r \in Requests, NEW new, req' = [req EXCEPT ![r] = new],
             new.at \notin {"write", "check", "add"}, UNCHANGED limitVars
      PROVE  LimitInv'
  <2>1. \A q \in Requests : req'[q].at \in {"write", "check", "add"} => req'[q].at = req[q].at
    BY <1>3 DEF IInv, Shape
  <2> QED BY <1>3, <2>1, LimitStays
<1>4. ASSUME NEW r \in Requests, NEW code, Answered(r, code), UNCHANGED limitVars
      PROVE  LimitInv'
  <2>1. [NoRequest EXCEPT !.kind = code].at = "idle"
    BY DEF NoRequest
  <2> QED BY <1>3, <1>4, <2>1 DEF Answered
<1>5. ASSUME NEW r \in Requests, NEW place \in {"handler", "status"},
             Goes(r, place), UNCHANGED limitVars
      PROVE  LimitInv'
  <2>1. [req[r] EXCEPT !.at = place].at = place
    BY DEF IInv, Shape, Record
  <2> QED BY <1>3, <1>5, <2>1 DEF Goes
<1>6. ASSUME NEW r \in Requests, Serve(r) \/ EndStream(r)
      PROVE  LimitInv'
  <2>1. CASE ~RateLimit(r)
    <3>1. UNCHANGED limitVars
      BY <1>6, <2>1
         DEF Serve, Handler, NoRoute, Authenticate, HandlePage, HandleHealth,
             HandleDetailedHealth, ReadData, ReadStatus, OpenStream, EndStream, ReqOnly
    <3>2. \/ \E code : Answered(r, code)
          \/ \E place \in {"handler", "status"} : Goes(r, place)
          \/ req' = [req EXCEPT ![r].at = "stream", ![r].age = 0]
      BY <1>6, <2>1
         DEF Serve, Handler, NoRoute, Authenticate, HandlePage, HandleHealth,
             HandleDetailedHealth, ReadData, ReadStatus, OpenStream, EndStream
    <3>3. CASE req' = [req EXCEPT ![r].at = "stream", ![r].age = 0]
      <4>1. [req[r] EXCEPT !.at = "stream", !.age = 0].at = "stream"
        BY DEF IInv, Shape, Record
      <4> QED BY <1>3, <3>1, <3>3, <4>1
    <3> QED BY <1>4, <1>5, <3>1, <3>2, <3>3
  <2> QED BY <1>2, <2>1
<1>7. ASSUME NEW r \in Requests, NEW kind \in Kinds, Arrive(r, kind)
      PROVE  LimitInv'
  <2> DEFINE place == IF ~On(config, "debug") THEN "clean"
                      ELSE IF Routed(kind) THEN Behind(kind) ELSE "no route"
             new == [NoRequest EXCEPT !.kind = kind, !.at = place]
  <2>1. place \notin {"write", "check", "add"}
    BY DEF Behind
  <2>2. new.at = place
    BY DEF NoRequest
  <2>3. UNCHANGED limitVars
    BY <1>7 DEF Arrive, ReqOnly
  <2>4. CASE kind = "preflight"
    BY <1>4, <1>7, <2>3, <2>4 DEF Arrive
  <2>5. CASE kind # "preflight"
    <3>1. req' = [req EXCEPT ![r] = new]
      BY <1>7, <2>5 DEF Arrive
    <3> QED BY <1>3, <2>1, <2>2, <2>3, <3>1
  <2> QED BY <2>4, <2>5
<1>8. CASE MapFault
  <2>1. times' = << >> /\ admitted' = << >> /\ mine' = [r \in Requests |-> << >>]
    BY <1>8 DEF MapFault, LimitForget
  <2>2. \A r \in Requests : req'[r].at = "idle"
    BY <1>8 DEF MapFault, NoRequest
  <2>3. Honest(times', admitted') /\ Noted(admitted')
    BY <2>1, EmptyHonest
  <2>4. mine' \in [Requests -> Seq(Nat)]
    BY <2>1
  <2> QED BY <2>2, <2>3, <2>4 DEF LimitInv, Honest, Times, Covered, Sorted, Noted, AllRecent
<1>9. CASE Startup \/ Signal \/ Shutdown \/ (Manager /\ ~RemoveCluster)
  <2>1. req' = req /\ UNCHANGED limitVars
    BY <1>9
       DEF Startup, LoadConfig, CheckConfig, NewServer, NewServerFails, Start, StartFails,
           Signal, Shutdown, Drained, StopManager, CloseSSE, CloseStore, Processing,
           Manager, Poll, StoreData, StoreStatus, HealthCheck, AddCluster, ClusterOnly
  <2> QED BY <2>1, LimitStays
<1>10. CASE RemoveCluster
  <2>1. UNCHANGED limitVars /\ \A r \in Requests : req'[r].at = req[r].at
    BY <1>10 DEF RemoveCluster, IInv, Shape, Record
  <2> QED BY <2>1, LimitStays
<1> QED BY <1>1, <1>6, <1>7, <1>8, <1>9, <1>10, LimitTicks DEF Next

\* However the requests overwrite each other's lists, what those say of the
\* client is true.
THEOREM LimitInvariant == Spec => [](IInv /\ LimitInv)
<1>1. ASSUME Init
      PROVE  LimitInv
  <2>1. times = << >> /\ admitted = << >> /\ mine = [r \in Requests |-> << >>]
    BY <1>1 DEF Init, LimitInit
  <2>2. \A r \in Requests : req[r].at = "idle"
    BY <1>1 DEF Init, NoRequest
  <2> QED BY <2>1, <2>2, EmptyHonest DEF LimitInv
<1>2. IInv /\ LimitInv /\ [Next]_vars => LimitInv'
  BY LimitStep
<1> QED BY <1>1, <1>2, Invariant, PTL DEF Spec

\* A client is refused only when as many of its requests as the limit allows
\* have passed within the window.
THEOREM LimitIsFair == Spec => RefusedWhenBusy
<1>1. ASSUME IInv, LimitInv, Next, NEW r \in Requests, req[r].at = "check",
             req'[r].kind = "429"
      PROVE  Len(admitted) = MaxRequests
  <2>1. Full
    <3>1. Serve(r) \/ EndStream(r)
      BY <1>1, AnsweredByItself DEF Codes
    <3>2. RateLimit(r)
      BY <1>1, <3>1
         DEF Serve, Handler, NoRoute, Authenticate, HandlePage, HandleHealth,
             HandleDetailedHealth, ReadData, ReadStatus, OpenStream, EndStream, InHandler
    <3>3. CASE LimitPass(r) /\ Goes(r, "add")
      BY <1>1, <3>3 DEF Goes, IInv, Shape, Record, Named, Kinds, Public, Protected, TokenPages
    <3> QED BY <1>1, <3>2, <3>3 DEF RateLimit, LimitReject
  <2>2. /\ AllRecent(times) /\ Len(times) \in Nat /\ Len(times) <= MaxRequests
        /\ times \in Seq(Nat) /\ Len(admitted) \in Nat /\ Len(admitted) <= MaxRequests
    BY <1>1 DEF LimitInv, Honest, Noted, Times
  <2>3. Len(times) = MaxRequests /\ MaxRequests \in Nat \ {0}
    BY <2>1, <2>2, WindowAssumption DEF Full
  <2>4. 1 \in 1..Len(times)
    BY <2>3
  <2>5. Len(times) - 1 < Len(admitted)
    BY <1>1, <2>2, <2>4 DEF LimitInv, Honest, Covered, AllRecent
  <2> QED BY <2>2, <2>3, <2>5
<1>2. IInv /\ LimitInv /\ [Next]_vars =>
        [\A r \in Requests :
           req[r].at = "check" /\ req'[r].kind = "429" => Len(admitted) = MaxRequests]_vars
  BY <1>1
<1> QED BY <1>2, LimitInvariant, PTL DEF Spec, RefusedWhenBusy

\* The variables keep to their types: no request grows older than the drain may
\* take, and none is both under way and answered.
THEOREM TypeCorrect == Spec => []ServerTypeOK
<1>1. IInv /\ LimitInv => ServerTypeOK
  <2> SUFFICES ASSUME IInv, LimitInv
               PROVE  ServerTypeOK
    OBVIOUS
  <2>1. DrainTicks \in Nat /\ WorkTicks \in Nat /\ WorkTicks <= DrainTicks
    BY TicksAssumption, DrainAssumption
  <2>2. ASSUME NEW r \in Requests
        PROVE  /\ req[r] \in [kind : Kinds \cup Codes, at : Places,
                              age : 0..DrainTicks, gone : BOOLEAN]
               /\ (req[r].at = "idle") = (req[r].kind \in Codes)
    <3>1. req[r] \in Record
      BY DEF IInv, Shape
    <3>2. req[r].age \in 0..DrainTicks
      <4>1. req[r].at = "idle" => req[r].age = 0
        BY DEF IInv, Named
      <4>2. req[r].at = "stream" => req[r].age <= DrainTicks
        BY StreamEnds
      <4>3. req[r].at \notin {"idle", "stream"} => req[r].age <= WorkTicks
        BY DEF IInv, Aged, Working
      <4>4. req[r].age \in Nat
        BY <3>1 DEF Record
      <4> QED BY <2>1, <4>1, <4>2, <4>3, <4>4
    <3>3. (req[r].at = "idle") = (req[r].kind \in Codes)
      <4>1. CASE req[r].at = "idle"
        BY <4>1 DEF IInv, Named
      <4>2. CASE req[r].at # "idle"
        <5>1. req[r].kind \in Kinds
          BY <4>2 DEF IInv, Named
        <5>2. req[r].kind \notin Codes
          BY <5>1 DEF Kinds, Public, Protected, TokenPages, Codes
        <5> QED BY <4>2, <5>2
      <4> QED BY <4>1, <4>2
    <3> QED BY <3>1, <3>2, <3>3 DEF Record
  <2>3. Len(admitted) <= MaxRequests
    BY DEF LimitInv, Noted, Times
  <2>4. \A i \in DOMAIN times : times[i] \in 0..(Window + 1)
    BY WindowAssumption DEF LimitInv, Honest, Times
  <2>5. req \in [Requests -> [kind : Kinds \cup Codes, at : Places,
                              age : 0..DrainTicks, gone : BOOLEAN]]
    BY <2>2 DEF IInv, Shape
  <2> QED BY <2>2, <2>3, <2>4, <2>5 DEF IInv, Shape, ServerTypeOK
<1> QED BY <1>1, LimitInvariant, PTL

-----------------------------------------------------------------------------
(* The configuration.                                                      *)

\* What there is to load from, and what was loaded.
Asked ==
  /\ phase \in {"starting", "configured", "building", "managing"} =>
       \/ sources.entry = "main" /\ sources.files = << >>
       \/ /\ sources.entry = "Load" /\ sources.flags = << >>
          /\ Listed(sources.files)
  /\ phase \in {"configured", "building", "managing"} => config = Loaded
  /\ phase \in {"building", "managing"} => Validate(config)

\* A setting after the environment was read.
LEMMA FromEnv ==
  ASSUME NEW before, NEW env, NEW s \in Settings
  PROVE  LoadFromEnv(before, env)[s] =
           IF Given(env, s)
           THEN IF s \in Switches /\ env[s] # "true" THEN "false" ELSE env[s]
           ELSE before[s]
BY DEF LoadFromEnv, Overlay, Read, Given

LEMMA NewSettings ==
  /\ New["auth_enabled"] = "false" /\ New["storage_type"] = "memory"
  /\ \A s \in Provider \cup Sources : New[s] = ""
<1>1. /\ DOMAIN Default = {"port", "host", "route_prefix", "secret_key", "query_interval",
                            "connect_timeout", "read_timeout", "mock", "scope", "storage_type",
                            "redis_db", "theme", "log_level", "log_format", "log_output",
                            "log_time_format"}
      /\ Default["storage_type"] = "memory"
  BY DEF Default
<1>2. {"auth_enabled", "storage_type"} \cup Provider \cup Sources \subseteq Settings
  BY DEF Settings, Switches, Provider, Sources, Plain
<1>3. New["auth_enabled"] = "false"
  BY <1>1, <1>2 DEF New, Shown, Switches
<1>4. New["storage_type"] = "memory"
  BY <1>1, <1>2 DEF New
<1>5. ASSUME NEW s \in Provider \cup Sources
      PROVE  New[s] = ""
  <2>1. s \notin DOMAIN Default /\ s \notin Shown /\ s \notin Switches
    BY <1>1 DEF Provider, Sources, Shown, Switches
  <2> QED BY <1>2, <2>1 DEF New
<1> QED BY <1>3, <1>4, <1>5

\* The settings that the flags decide, as the flags say.
LEMMA FromFlags ==
  ASSUME NEW flags
  PROVE  /\ WithFlags(New, flags)["mock"] =
              IF "mock" \in DOMAIN flags THEN flags["mock"] ELSE "false"
         /\ WithFlags(New, flags)["auth_enabled"] =
              IF Given(flags, "authorize_url") THEN "true" ELSE "false"
         /\ WithFlags(New, flags)["storage_type"] =
              IF Given(flags, "redis_url") THEN "redis" ELSE "memory"
         /\ \A s \in Provider \cup Sources :
              WithFlags(New, flags)[s] = IF Given(flags, s) THEN flags[s] ELSE ""
<1> DEFINE said  == [s \in FlagsRead |-> Flag(flags, s)]
           names == {s \in FlagsRead : s \in Always \/ said[s] # ""}
           taken == Overlay(New, said, names)
           redis == IF said["redis_url"] = "" THEN taken
                    ELSE [taken EXCEPT !["storage_type"] = "redis"]
           all   == IF said["authorize_url"] = "" THEN redis
                    ELSE [redis EXCEPT !["auth_enabled"] = "true"]
<1>1. WithFlags(New, flags) = all
  BY DEF WithFlags
<1>2. /\ DOMAIN FlagDefault = {"port", "route_prefix", "debug", "secret_key", "mock", "log_level",
                                "log_format", "log_output", "log_add_source", "log_time_format"}
      /\ FlagDefault["mock"] = "false"
  BY DEF FlagDefault
<1>3. /\ {"mock", "redis_url"} \cup Provider \cup Sources \subseteq FlagsRead
      /\ "auth_enabled" \notin FlagsRead /\ "storage_type" \notin FlagsRead
  BY <1>2 DEF FlagsRead, Provider, Sources
<1>4. {"mock", "auth_enabled", "storage_type", "redis_url"} \cup Provider \cup Sources
        \subseteq Settings
  BY DEF Settings, Switches, Provider, Sources, Plain
<1>5. ASSUME NEW s \in {"redis_url"} \cup Provider \cup Sources
      PROVE  said[s] = IF Given(flags, s) THEN flags[s] ELSE ""
  <2>1. s \notin DOMAIN FlagDefault /\ s \in FlagsRead
    BY <1>2, <1>3 DEF Provider, Sources
  <2> QED BY <2>1 DEF Flag, Given
<1>6. said["mock"] = IF "mock" \in DOMAIN flags THEN flags["mock"] ELSE "false"
  BY <1>2, <1>3 DEF Flag
<1> HIDE DEF said
<1>7. \A s \in Settings : taken[s] = IF s \in names THEN said[s] ELSE New[s]
  BY DEF Overlay
<1>8. /\ taken["mock"] = said["mock"]
      /\ taken["auth_enabled"] = "false" /\ taken["storage_type"] = "memory"
      /\ \A s \in Provider \cup Sources : taken[s] = IF Given(flags, s) THEN flags[s] ELSE ""
  <2>1. taken["mock"] = said["mock"]
    BY <1>3, <1>4, <1>7 DEF Always
  <2>2. taken["auth_enabled"] = "false" /\ taken["storage_type"] = "memory"
    BY <1>3, <1>4, <1>7, NewSettings
  <2>3. ASSUME NEW s \in Provider \cup Sources
        PROVE  taken[s] = IF Given(flags, s) THEN flags[s] ELSE ""
    <3>1. s \in FlagsRead /\ s \in Settings /\ s \notin Always
      BY <1>3, <1>4 DEF Provider, Sources, Always
    <3>2. said[s] = IF Given(flags, s) THEN flags[s] ELSE ""
      BY <1>5
    <3>3. New[s] = ""
      BY NewSettings
    <3> QED BY <1>7, <3>1, <3>2, <3>3 DEF Given
  <2> QED BY <2>1, <2>2, <2>3
<1>9. DOMAIN taken = Settings
  BY DEF Overlay
<1> HIDE DEF taken
<1>10. (said["redis_url"] # "") = Given(flags, "redis_url")
  BY <1>5 DEF Given
<1>11. (said["authorize_url"] # "") = Given(flags, "authorize_url")
  BY <1>5 DEF Given, Provider
<1>12. /\ redis["mock"] = said["mock"] /\ redis["auth_enabled"] = "false"
       /\ redis["storage_type"] = IF Given(flags, "redis_url") THEN "redis" ELSE "memory"
       /\ \A s \in Provider \cup Sources : redis[s] = IF Given(flags, s) THEN flags[s] ELSE ""
       /\ DOMAIN redis = Settings
  BY <1>4, <1>8, <1>9, <1>10 DEF Provider, Sources
<1> HIDE DEF redis
<1>13. /\ all["mock"] = said["mock"]
       /\ all["auth_enabled"] = IF Given(flags, "authorize_url") THEN "true" ELSE "false"
       /\ all["storage_type"] = IF Given(flags, "redis_url") THEN "redis" ELSE "memory"
       /\ \A s \in Provider \cup Sources : all[s] = IF Given(flags, s) THEN flags[s] ELSE ""
  BY <1>4, <1>11, <1>12 DEF Provider, Sources
<1> HIDE DEF all
<1> QED BY <1>1, <1>6, <1>13

\* The settings that a file decides, where one is found.
LEMMA FromFiles ==
  ASSUME NEW found, Listed(found), NEW s \in Settings
  PROVE  LET loaded == LoadFromDefaultLocations(New, found)
         IN \/ loaded[s] = New[s]
            \/ \E i \in DOMAIN found : s \in DOMAIN found[i] /\ loaded[s] = found[i][s]
<1>1. CASE found = << >>
  BY <1>1 DEF LoadFromDefaultLocations
<1>2. CASE found # << >>
  <2>1. 1 \in DOMAIN found /\ Head(found) = found[1]
    BY <1>2 DEF Listed
  <2> QED BY <1>2, <2>1 DEF LoadFromDefaultLocations, LoadFromFile, Overlay
<1> QED BY <1>1, <1>2

LEMMA AskedStep ==
  ASSUME IInv, Asked, [Next]_vars
  PROVE  Asked'
<1>1. CASE UNCHANGED <<phase, sources, config>>
  BY <1>1 DEF Asked, Loaded
<1>2. CASE LoadConfig
  <2>1. phase = "starting" /\ sources' = sources /\ Loaded' = Loaded
    BY <1>2 DEF LoadConfig, Loaded
  <2>2. phase' = "failed" \/ (phase' = "configured" /\ config' = Loaded)
    BY <1>2 DEF LoadConfig
  <2> QED BY <2>1, <2>2 DEF Asked
<1>3. CASE CheckConfig
  <2>1. phase = "configured" /\ sources' = sources /\ config' = config /\ Loaded' = Loaded
    BY <1>3 DEF CheckConfig, Loaded
  <2>2. phase' = "failed" \/ (phase' = "building" /\ Validate(config))
    BY <1>3 DEF CheckConfig
  <2>3. Validate(config') = Validate(config)
    BY <2>1
  <2> QED BY <2>1, <2>2, <2>3 DEF Asked
<1>4. CASE NewServer
  BY <1>4 DEF NewServer, Asked, Loaded
<1>5. CASE phase' \notin {"starting", "configured", "building", "managing"}
  BY <1>5 DEF Asked
<1>6. [Next]_vars => \/ UNCHANGED <<phase, sources, config>>
                     \/ LoadConfig \/ CheckConfig \/ NewServer
                     \/ phase' \notin {"starting", "configured", "building", "managing"}
  <2>1. ASSUME NEW r \in Requests, Serve(r) \/ EndStream(r) \/ \E kind \in Kinds : Arrive(r, kind)
        PROVE  UNCHANGED <<phase, sources, config>>
    BY <2>1
       DEF Serve, Handler, RateLimit, NoRoute, Authenticate, HandlePage, HandleHealth,
           HandleDetailedHealth, ReadData, ReadStatus, OpenStream, EndStream, Arrive, ReqOnly,
           LimitOnly
  <2>2. CASE Manager
    BY <2>2 DEF Manager, Poll, StoreData, StoreStatus, HealthCheck, RemoveCluster, AddCluster,
                ClusterOnly
  <2>3. CASE NewServerFails \/ Start \/ StartFails \/ Signal \/ Shutdown \/ MapFault
    BY <2>3 DEF NewServerFails, Start, StartFails, Signal, Shutdown, Drained, StopManager,
                CloseSSE, CloseStore, MapFault
  <2>4. CASE Tick \/ UNCHANGED vars
    BY <2>4 DEF Tick, vars
  <2> QED BY <2>1, <2>2, <2>3, <2>4 DEF Next, Startup
<1> QED BY <1>1, <1>2, <1>3, <1>4, <1>5, <1>6

THEOREM AskedInvariant == Spec => [](IInv /\ Asked)
<1>1. ASSUME Init
      PROVE  Asked
  <2>1. CASE \E flags \in CommandLines, env \in Environments :
               sources = [NoSources EXCEPT !.entry = "main", !.flags = flags, !.env = env]
    BY <1>1, <2>1 DEF Init, Asked, NoSources
  <2>2. CASE \E files \in Files, env \in Environments :
               sources = [NoSources EXCEPT !.entry = "Load", !.files = files, !.env = env]
    <3>1. PICK files \in Files, env \in Environments :
            sources = [NoSources EXCEPT !.entry = "Load", !.files = files, !.env = env]
      BY <2>2
    <3>2. sources.entry = "Load" /\ sources.flags = << >> /\ sources.files = files
      BY <3>1 DEF NoSources
    <3>3. Listed(sources.files)
      BY <3>2, FilesAssumption
    <3> QED BY <1>1, <3>2, <3>3 DEF Init, Asked
  <2> QED BY <1>1, <2>1, <2>2 DEF Init
<1>2. IInv /\ Asked /\ [Next]_vars => Asked'
  BY AskedStep
<1> QED BY <1>1, <1>2, Invariant, PTL DEF Spec

\* What is about to serve is what was asked for, whatever the sources give.
THEOREM ServesWhatWasAsked == Spec => []ServesAsAsked
<1>1. ASSUME Asked, phase \in {"building", "managing"}
      PROVE  ServesAsAsked
  <2> DEFINE Sayers == {sources.env, sources.flags} \cup
                       {sources.files[i] : i \in DOMAIN sources.files}
             before == IF sources.entry = "Load"
                       THEN LoadFromDefaultLocations(New, sources.files)
                       ELSE WithFlags(New, sources.flags)
  <2>1. Validate(config) /\ config = LoadFromEnv(before, sources.env)
    BY <1>1 DEF Asked, Loaded, Load, FromCommandLine
  <2>2. \A s \in Settings :
          config[s] = IF Given(sources.env, s)
                      THEN IF s \in Switches /\ sources.env[s] # "true" THEN "false"
                           ELSE sources.env[s]
                      ELSE before[s]
    BY <2>1, FromEnv
  <2>3. /\ {"mock", "auth_enabled", "storage_type"} \cup Provider \cup Sources \subseteq Settings
        /\ {"mock", "auth_enabled"} \subseteq Switches /\ "storage_type" \notin Switches
        /\ (Provider \cup Sources) \cap Switches = {}
        /\ "authorize_url" \in Provider
    BY DEF Settings, Switches, Provider, Sources, Plain
  <2>4. \/ sources.entry = "main" /\ sources.files = << >>
        \/ /\ sources.entry = "Load" /\ sources.flags = << >>
           /\ Listed(sources.files)
    BY <1>1 DEF Asked
  <2>5. sources.entry = "Load" => \A s : ~Given(sources.flags, s)
    <3>1. DOMAIN << >> = {}
      OBVIOUS
    <3>2. sources.entry = "Load" => DOMAIN sources.flags = {}
      BY <2>4, <3>1
    <3> QED BY <3>2 DEF Given
  <2>6. sources.entry = "main" => before = WithFlags(New, sources.flags)
    BY DEF before
  <2>7. ASSUME NEW s \in Provider \cup Sources, before[s] # ""
        PROVE  \E source \in Sayers : Given(source, s)
    <3>1. CASE sources.entry = "main"
      BY <2>6, <2>7, <3>1, FromFlags
    <3>2. CASE sources.entry = "Load"
      <4>1. before = LoadFromDefaultLocations(New, sources.files) /\ New[s] = "" /\ s \in Settings
        BY <2>3, <3>2, NewSettings
      <4>2. PICK i \in DOMAIN sources.files :
              s \in DOMAIN sources.files[i] /\ before[s] = sources.files[i][s]
        BY <2>4, <2>7, <3>2, <4>1, FromFiles
      <4> QED BY <2>7, <4>2 DEF Given
    <3> QED BY <2>4, <3>1, <3>2
  <2> HIDE DEF before
  <2>8. ASSUME NEW s \in Provider \cup Sources, config[s] # ""
        PROVE  \E source \in Sayers : Given(source, s)
    <3>1. CASE Given(sources.env, s)
      BY <3>1
    <3>2. CASE ~Given(sources.env, s)
      BY <2>2, <2>3, <2>7, <2>8, <3>2
    <3> QED BY <3>1, <3>2
  <2>9. On(config, "mock") /\ sources.entry = "main" =>
          Says(sources.env, "mock", "true") \/ Says(sources.flags, "mock", "true")
    <3>1. SUFFICES ASSUME config["mock"] = "true", sources.entry = "main"
                   PROVE  Says(sources.env, "mock", "true") \/ Says(sources.flags, "mock", "true")
      BY DEF On
    <3>2. CASE Given(sources.env, "mock")
      BY <2>2, <2>3, <3>1, <3>2 DEF Says, Given
    <3>3. CASE ~Given(sources.env, "mock")
      <4>1. WithFlags(New, sources.flags)["mock"] = "true"
        BY <2>2, <2>3, <2>6, <3>1, <3>3
      <4>2. "mock" \in DOMAIN sources.flags /\ sources.flags["mock"] = "true"
        BY <4>1, FromFlags
      <4> QED BY <4>2 DEF Says
    <3> QED BY <3>2, <3>3
  <2>10. Given(sources.flags, "authorize_url") /\ Silent("auth_enabled") =>
           On(config, "auth_enabled")
    <3>1. SUFFICES ASSUME Given(sources.flags, "authorize_url"), Silent("auth_enabled")
                   PROVE  config["auth_enabled"] = "true"
      BY DEF On
    <3>2. before = WithFlags(New, sources.flags)
      BY <2>4, <2>5, <2>6, <3>1
    <3>3. before["auth_enabled"] = "true"
      BY <3>1, <3>2, FromFlags
    <3> QED BY <2>2, <2>3, <3>1, <3>3 DEF Silent
  <2>11. Given(sources.flags, "redis_url") /\ Silent("storage_type") => Redis
    <3>1. SUFFICES ASSUME Given(sources.flags, "redis_url"), Silent("storage_type")
                   PROVE  config["storage_type"] = "redis"
      BY DEF Redis
    <3>2. before = WithFlags(New, sources.flags)
      BY <2>4, <2>5, <2>6, <3>1
    <3>3. before["storage_type"] = "redis"
      BY <3>1, <3>2, FromFlags
    <3> QED BY <2>2, <2>3, <3>1, <3>3 DEF Silent
  <2>12. On(config, "auth_enabled") =>
           \A s \in Provider : \E source \in Sayers : Given(source, s)
    BY <2>1, <2>8 DEF Validate
  <2>13. ~On(config, "mock") => \E s \in Sources : \E source \in Sayers : Given(source, s)
    BY <2>1, <2>8 DEF Validate, HasSource
  <2> QED BY <2>9, <2>10, <2>11, <2>12, <2>13 DEF ServesAsAsked
<1>2. Asked => ServesAsAsked
  BY <1>1 DEF ServesAsAsked
<1> QED BY <1>2, AskedInvariant, PTL
=============================================================================
