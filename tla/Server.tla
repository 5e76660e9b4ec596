------------------------------- MODULE Server -------------------------------
(***************************************************************************)
(* main.go and internal/server: a process that reads its configuration,    *)
(* builds its parts, serves requests while its cluster manager polls, and  *)
(* shuts down on a signal.  Requests are under way at once and read the    *)
(* store between the writes of the manager.                                *)
(*                                                                         *)
(* A tick is 15 seconds, the WriteTimeout of the server.  Of the clusters  *)
(* one is modelled, of the client addresses one.                           *)
(***************************************************************************)
EXTENDS Configuration, RateLimit

CONSTANTS
  CommandLines, Environments, Files,  \* the sources that are tried
  Offered,      \* the kinds of request that come, with debug and without
  PingTicks,    \* PingInterval of the SSE handler
  WriteTicks,   \* WriteTimeout of the HTTP server
  DrainTicks,   \* the timeout of Shutdown
  WorkTicks     \* how long a handler without a stream may take

Public     == {"health", "detailed", "metrics", "login", "callback", "logout"}
Protected  == {"index", "events", "clusters", "cluster", "status"}
TokenPages == {"tokens", "create token"}
Kinds      == Public \cup Protected \cup TokenPages \cup {"preflight"}

ASSUME TicksAssumption ==
  {PingTicks, WriteTicks, DrainTicks, WorkTicks} \subseteq Nat \ {0}
ASSUME OfferedAssumption == Offered \in [{"true", "false"} -> SUBSET Kinds]
\* The files that were found, as a list.
Listed(files) == files \in Seq({files[i] : i \in DOMAIN files})
ASSUME FilesAssumption == \A files \in Files : Listed(files)

VARIABLES
  phase,    \* of the process
  sources,  \* what it was configured from, until it serves
  config,   \* the settings; those that requests look at, once it serves
  running,  \* the parts that run
  drain,    \* ticks since Shutdown was called
  cluster,  \* the cluster in the store, and its poll goroutine
  req       \* the requests under way

vars == <<phase, sources, config, running, drain, cluster, req, limitVars>>

Phases == {"starting", "configured", "building", "managing", "serving",
           "draining", "stopping manager", "closing SSE", "closing store",
           "exited", "failed", "hung", "died"}
Parts  == {"store", "listener", "sweeper", "manager", "collector", "http"}

NoSources == [entry |-> "none", flags |-> << >>, env |-> << >>, files |-> << >>]

\* Of the cluster: its data and its status in the store, the poll goroutine
\* between its rounds, in one, or between the two writes of one, and whether
\* its first round is still to end.
NoCluster == [managed |-> FALSE, data |-> FALSE, status |-> FALSE,
              poll |-> "none", first |-> FALSE]

NoRequest == [kind |-> "none", at |-> "idle", age |-> 0, gone |-> FALSE]

\* main reads the command line and the environment.  Load of the config package
\* is tried in its place: its sources and its Validate are the same settings'.
Init ==
  /\ phase = "starting"
  /\ \/ \E flags \in CommandLines, env \in Environments :
          sources = [NoSources EXCEPT !.entry = "main", !.flags = flags, !.env = env]
     \/ \E files \in Files, env \in Environments :
          sources = [NoSources EXCEPT !.entry = "Load", !.files = files, !.env = env]
  /\ config = New
  /\ running = {}
  /\ drain = 0
  /\ cluster = NoCluster
  /\ req = [r \in Requests |-> NoRequest]
  /\ LimitInit

Processing == <<cluster, req, limitVars>>
Redis == config["storage_type"] = "redis"

-----------------------------------------------------------------------------
(* Starting.                                                               *)

Garbled ==
  \/ EnvGarbled(sources.env)
  \/ sources.entry = "Load" /\ FileGarbled(sources.files)

Loaded ==
  IF sources.entry = "Load" THEN Load(sources.files, sources.env)
  ELSE FromCommandLine(sources.flags, sources.env)

LoadConfig ==
  /\ phase = "starting"
  /\ IF Garbled THEN phase' = "failed" /\ UNCHANGED config
     ELSE phase' = "configured" /\ config' = Loaded
  /\ UNCHANGED <<sources, running, drain, Processing>>

CheckConfig ==
  /\ phase = "configured"
  /\ phase' = IF Validate(config) THEN "building" ELSE "failed"
  /\ UNCHANGED <<sources, config, running, drain, Processing>>

\* NewStore: Redis has to answer, and has a goroutine for its events.
StoreParts == IF Redis THEN {"store", "listener"} ELSE {"store"}

NewServer ==
  /\ phase = "building"
  /\ running' = StoreParts \cup {"sweeper"}
  /\ phase' = "managing"
  /\ UNCHANGED <<sources, config, drain, Processing>>

\* The logger or the store fails; or what is made after the store, which then
\* stays open while the process ends.
NewServerFails ==
  /\ phase = "building"
  /\ running' \in {{}, StoreParts, StoreParts \cup {"sweeper"}}
  /\ phase' = "failed"
  /\ UNCHANGED <<sources, config, drain, Processing>>

Used == {"debug", "mock", "auth_enabled", "screen_tokens", "storage_type"}

\* Start up to ListenAndServe.  Mock clusters are stored at once; others have
\* the first round of their poll goroutine before them.
Start ==
  /\ phase = "managing"
  /\ running' = running \cup {"collector", "manager", "http"}
  /\ phase' = "serving"
  /\ cluster' = LET mocked == On(config, "mock")
                IN [managed |-> TRUE, data |-> mocked, status |-> mocked,
                    poll |-> IF mocked THEN "none" ELSE "waiting",
                    first |-> ~mocked]
  /\ config' = [s \in Used |-> config[s]]
  /\ sources' = NoSources
  /\ UNCHANGED <<drain, req, limitVars>>

\* The manager or the listener fails: Start returns and Shutdown is not called.
StartFails ==
  /\ phase = "managing"
  /\ \E started \in {{"collector"}, {"collector", "manager"}} :
       running' = running \cup started
  /\ phase' = "failed"
  /\ UNCHANGED <<sources, config, drain, Processing>>

-----------------------------------------------------------------------------
(* The cluster manager, as it appears in the store.                        *)

Managing == "manager" \in running /\ phase # "failed"
Polls    == Managing /\ ~On(config, "mock")
ClusterOnly == UNCHANGED <<phase, sources, config, running, drain, req, limitVars>>

\* Redis may refuse a write, which is logged and passed over.
Written(field, value) == {value} \cup (IF Redis THEN {cluster[field]} ELSE {})

\* Stop cancels the context of the loops and engines first: no round and no
\* discovery begins after it.
CancelledNot == FALSE  \* Fault: the context is not cancelled.
Cancelled == phase = "stopping manager"

Poll ==
  /\ Polls /\ ~Cancelled /\ cluster.poll = "waiting"
  /\ cluster' = [cluster EXCEPT !.poll = "querying"]
  /\ ClusterOnly

\* Fault: the round ends with the data.
StoreDataOnly ==
  /\ Polls /\ cluster.poll = "querying"
  /\ \E stored \in Written("data", TRUE) :
       cluster' = [cluster EXCEPT !.data = stored, !.poll = "waiting", !.first = FALSE]
  /\ ClusterOnly
StoreData ==
  /\ Polls /\ cluster.poll = "querying"
  /\ \E stored \in Written("data", TRUE) :
       cluster' = [cluster EXCEPT !.data = stored, !.poll = "stored"]
  /\ ClusterOnly

\* After the data, or after the last try of a round that failed.
StoreStatus ==
  /\ Polls /\ cluster.poll \in {"querying", "stored"}
  /\ \E stored \in Written("status", TRUE) :
       cluster' = [cluster EXCEPT !.status = stored, !.poll = "waiting", !.first = FALSE]
  /\ ClusterOnly

\* A health check stores the status of its own, of a cluster that was removed
\* meanwhile too.
HealthCheck ==
  /\ Managing
  /\ \E stored \in Written("status", TRUE) : cluster' = [cluster EXCEPT !.status = stored]
  /\ ClusterOnly

\* Discovery does without the cluster: its engine is stopped and its entries
\* are deleted.  Requests that have read the data are between the two.
RemoveCluster ==
  /\ Polls /\ ~Cancelled /\ cluster.managed /\ cluster.poll = "waiting"
  /\ \E data \in Written("data", FALSE), status \in Written("status", FALSE) :
       cluster' = [NoCluster EXCEPT !.data = data, !.status = status]
  /\ req' = [r \in Requests |-> [req[r] EXCEPT !.gone = req[r].at = "status"]]
  /\ UNCHANGED <<phase, sources, config, running, drain, limitVars>>

AddCluster ==
  /\ Polls /\ ~Cancelled /\ ~cluster.managed
  /\ cluster' = [cluster EXCEPT !.managed = TRUE, !.poll = "waiting", !.first = TRUE]
  /\ ClusterOnly

-----------------------------------------------------------------------------
(* Requests.                                                               *)

\* Fault: the handler answers and does not return.
AnsweredGoesOn(r, code) == req' = [req EXCEPT ![r].kind = code]
\* What an answered request leaves is its status code.
Answered(r, code) == req' = [req EXCEPT ![r] = [NoRequest EXCEPT !.kind = code]]
Goes(r, place)    == req' = [req EXCEPT ![r].at = place]
ReqOnly == UNCHANGED <<phase, sources, config, running, drain, cluster, limitVars>>

Alive == phase \notin {"exited", "failed", "died"}
InHandler(r, kinds) == Alive /\ req[r].at = "handler" /\ req[r].kind \in kinds

\* After the rate limit the route decides.  The pages of the screen tokens are
\* routed only where they are switched on.
Routed(kind) ==
  kind \in TokenPages => On(config, "auth_enabled") /\ On(config, "screen_tokens")
NeedsAuth(kind) == On(config, "auth_enabled") /\ kind \in Protected \cup TokenPages
Behind(kind) == IF NeedsAuth(kind) THEN "auth" ELSE "handler"

Arrive(r, kind) ==
  /\ phase = "serving" /\ req[r].at = "idle"
  /\ kind \in Offered[config["debug"]]
  /\ IF kind = "preflight" THEN Answered(r, "200")
     ELSE req' = [req EXCEPT ![r] = [NoRequest EXCEPT !.kind = kind,
            !.at = IF ~On(config, "debug") THEN "clean"
                   ELSE IF Routed(kind) THEN Behind(kind) ELSE "no route"]]
  /\ ReqOnly

LimitOnly == UNCHANGED <<phase, sources, config, running, drain, cluster>>

RateLimit(r) ==
  /\ Alive
  /\ \/ req[r].at = "clean" /\ LimitClean(r) /\ Goes(r, "write")
     \/ req[r].at = "write" /\ LimitWrite(r) /\ Goes(r, "check")
     \/ req[r].at = "check" /\ LimitReject /\ Answered(r, "429")
     \/ req[r].at = "check" /\ LimitPass(r) /\ Goes(r, "add")
     \/ /\ req[r].at = "add" /\ LimitWrite(r)
        /\ Goes(r, IF Routed(req[r].kind) THEN Behind(req[r].kind) ELSE "no route")
  /\ LimitOnly

AtTheMap == {r \in Requests : req[r].at \in {"clean", "write", "check", "add"}}

\* "concurrent map writes" cannot be recovered from.
MapFault ==
  /\ Alive /\ Cardinality(AtTheMap) > 1
  /\ phase' = "died" /\ running' = {}
  /\ cluster' = NoCluster /\ req' = [r \in Requests |-> NoRequest] /\ LimitForget
  /\ UNCHANGED <<sources, config, drain>>

NoRoute(r) == req[r].at = "no route" /\ Alive /\ Answered(r, "404") /\ ReqOnly

Authenticate(r) ==
  /\ Alive /\ req[r].at = "auth"
  /\ Goes(r, "handler") \/ Answered(r, "401") \/ Answered(r, "302")
  /\ ReqOnly

\* handleIndex, handleStatus, metrics and the pages of the screen tokens; a
\* template or the creation of a token may fail.
HandlePage(r) ==
  /\ \/ InHandler(r, {"index", "tokens"}) /\ (Answered(r, "200") \/ Answered(r, "500"))
     \/ InHandler(r, {"create token"}) /\ (Answered(r, "302") \/ Answered(r, "500"))
     \/ InHandler(r, {"status", "clusters", "metrics"}) /\ Answered(r, "200")
     \/ InHandler(r, {"login", "callback"}) /\ Answered(r, "501")
     \/ /\ InHandler(r, {"logout"})
        /\ Answered(r, IF On(config, "auth_enabled") THEN "200" ELSE "501")
  /\ ReqOnly

\* The status of the manager: without a cluster, or with one that is not
\* available, the answer is 503.
HandleHealth(r) ==
  /\ InHandler(r, {"health"})
  /\ \/ Answered(r, "503") /\ ~On(config, "mock")
     \/ Answered(r, "200") /\ (cluster.managed \/ On(config, "mock"))
  /\ ReqOnly

\* The checks of the store, the memory and the goroutines.  That of the store
\* asks for the cluster ids and is content with any answer.
Checks == [store : {"healthy"}, memory : {"healthy", "degraded", "unhealthy"},
           goroutines : {"healthy", "degraded", "unhealthy"}]
OverallStatus(checks) ==
  LET found == {checks[c] : c \in DOMAIN checks}
  IN IF "unhealthy" \in found THEN "unhealthy"
     ELSE IF "degraded" \in found THEN "degraded" ELSE "healthy"
HandleDetailedHealth(r) ==
  /\ InHandler(r, {"detailed"})
  /\ \E checks \in Checks :
       Answered(r, IF OverallStatus(checks) = "unhealthy" THEN "503" ELSE "200")
  /\ ReqOnly

\* handleCluster reads the data and then the status.
ReadData(r) ==
  /\ InHandler(r, {"cluster"})
  /\ \/ cluster.data /\ Goes(r, "status")
     \/ (~cluster.data \/ Redis) /\ Answered(r, "404")
  /\ ReqOnly

ReadStatus(r) ==
  /\ Alive /\ req[r].at = "status"
  /\ \/ cluster.status /\ Answered(r, "200")
     \/ (~cluster.status \/ Redis) /\ Answered(r, "no status")
  /\ ReqOnly

\* HandleSSE refuses a client too many, or streams.  The age of the request
\* counts from here.
OpenStream(r) ==
  /\ InHandler(r, {"events"})
  /\ \/ req' = [req EXCEPT ![r].at = "stream", ![r].age = 0]
     \/ Answered(r, "429")
  /\ ReqOnly

\* The client leaves, a write fails, or the deadlines of the server end the
\* context.  The clean-up asks for the lock of the handler.
EndStream(r) ==
  /\ Alive /\ phase # "hung" /\ req[r].at = "stream"
  /\ Answered(r, "200")
  /\ ReqOnly

\* A ping comes every PingTicks of a stream.  After the WriteTimeout it cannot
\* be written: the HTTP server cancels the context of the request.
Unwritable(age) == age % PingTicks = 0 /\ age >= WriteTicks
\* Fault: the deadline does not apply to a stream.
PingWritten(r) == FALSE
PingFails(r) == req[r].at = "stream" /\ Unwritable(req[r].age)

\* Such a ping comes within the half minute of Shutdown, and other handlers
\* take less.
ASSUME DrainAssumption ==
  WorkTicks < DrainTicks /\ \E age \in 1..DrainTicks : Unwritable(age)

-----------------------------------------------------------------------------
(* Shutting down.                                                          *)

InFlight == {r \in Requests : req[r].at # "idle"}

Signal ==
  /\ phase = "serving"
  /\ phase' = "draining"
  /\ UNCHANGED <<sources, config, running, drain, Processing>>

\* http.Server.Shutdown returns when no request is left, or after 30 seconds.
\* The other connections are left alone.
Drained ==
  /\ phase = "draining"
  /\ InFlight = {} \/ drain = DrainTicks
  /\ phase' = "stopping manager"
  /\ running' = running \ {"http"}
  /\ drain' = 0
  /\ UNCHANGED <<sources, config, Processing>>

\* Fault: the engines are cancelled, not waited for.
StopManagerAtOnce ==
  /\ phase = "stopping manager"
  /\ phase' = "closing SSE"
  /\ running' = running \ {"manager"}
  /\ UNCHANGED <<sources, config, drain, Processing>>
\* Stop waits for the loops and the engines.
StopManager ==
  /\ phase = "stopping manager" /\ cluster.poll \in {"none", "waiting"}
  /\ phase' = "closing SSE"
  /\ running' = running \ {"manager"}
  /\ UNCHANGED <<sources, config, drain, Processing>>

\* Close locks itself out when a client is connected.
CloseSSE ==
  /\ phase = "closing SSE"
  /\ phase' = IF \E r \in Requests : req[r].at = "stream" THEN "hung" ELSE "closing store"
  /\ UNCHANGED <<sources, config, running, drain, Processing>>

\* The collector is stopped, the store closed, and main returns.
CloseStore ==
  /\ phase = "closing store"
  /\ phase' = "exited"
  /\ running' = running \ {"collector", "store", "listener"}
  /\ UNCHANGED <<sources, config, drain, Processing>>

-----------------------------------------------------------------------------
(* Time.                                                                   *)

\* A ping that fails ends its stream at once.
MayAge(r) ==
  CASE req[r].at = "idle" -> TRUE
    [] req[r].at = "stream" -> ~PingFails(r)
    [] OTHER -> r \notin AtTheMap /\ req[r].age < WorkTicks

\* The steps of Shutdown after the drain take no time; those of the poll
\* goroutine and of the start take their own, which nothing here measures.
Tick ==
  /\ phase \in {"serving", "draining"}
  /\ phase = "draining" => drain < DrainTicks
  /\ \A r \in Requests : MayAge(r)
  /\ drain' = IF phase = "draining" THEN drain + 1 ELSE drain
  /\ req' = [r \in Requests |->
               IF req[r].at = "idle" THEN req[r]
               ELSE [req[r] EXCEPT !.age = req[r].age + 1]]
  /\ LimitTick
  /\ UNCHANGED <<phase, sources, config, running, cluster>>

Startup  == LoadConfig \/ CheckConfig \/ NewServer \/ NewServerFails \/ Start \/ StartFails
Shutdown == Drained \/ StopManager \/ CloseSSE \/ CloseStore
Manager  == Poll \/ StoreData \/ StoreStatus \/ HealthCheck \/ RemoveCluster \/ AddCluster
Handler(r) == HandlePage(r) \/ HandleHealth(r) \/ HandleDetailedHealth(r)
                \/ ReadData(r) \/ ReadStatus(r) \/ OpenStream(r)
Serve(r) == RateLimit(r) \/ NoRoute(r) \/ Authenticate(r) \/ Handler(r)

Next ==
  \/ Startup
  \/ Signal
  \/ Shutdown
  \/ Manager
  \/ \E r \in Requests :
       Serve(r) \/ EndStream(r) \/ \E kind \in Kinds : Arrive(r, kind)
  \/ MapFault
  \/ Tick

Spec == Init /\ [][Next]_vars

\* Time passes, handlers return, Shutdown goes on, a round ends as its queries
\* do, and a stream ends when a ping fails; what its client does is left open.
Fairness ==
  /\ WF_vars(Tick) /\ WF_vars(Shutdown) /\ WF_vars(StoreStatus)
  /\ \A r \in Requests :
       WF_vars(Serve(r)) /\ WF_vars(EndStream(r) /\ PingFails(r))

FairSpec == Spec /\ Fairness
-----------------------------------------------------------------------------
(* Properties.                                                             *)

Places == {"idle", "clean", "write", "check", "add", "no route", "auth",
           "handler", "status", "stream"}
Codes  == {"none", "200", "302", "401", "404", "429", "500", "501", "503", "no status"}

ServerTypeOK ==
  /\ phase \in Phases
  /\ running \subseteq Parts
  /\ drain \in 0..DrainTicks
  /\ cluster \in [managed : BOOLEAN, data : BOOLEAN, status : BOOLEAN,
                  poll : {"none", "waiting", "querying", "stored"}, first : BOOLEAN]
  /\ req \in [Requests -> [kind : Kinds \cup Codes, at : Places,
                           age : 0..DrainTicks, gone : BOOLEAN]]
  /\ \A r \in Requests : (req[r].at = "idle") = (req[r].kind \in Codes)
  /\ Len(admitted) <= MaxRequests
  /\ \A i \in DOMAIN times : times[i] \in 0..(Window + 1)

\* What is about to serve is what was asked for, through the defaults, the file,
\* the flags, the environment and Validate: mock clusters only where the flag
\* or the variable says so (or nothing, to Load), authentication wherever
\* the flags name a provider and the environment is silent, with a provider
\* somebody named, and Redis wherever a flag names it.
Says(source, s, value) == s \in DOMAIN source /\ source[s] = value
Silent(s) == ~Given(sources.env, s)
ServesAsAsked ==
  phase \in {"building", "managing"} =>
    /\ On(config, "mock") /\ sources.entry = "main" =>
         Says(sources.env, "mock", "true") \/ Says(sources.flags, "mock", "true")
    /\ Given(sources.flags, "authorize_url") /\ Silent("auth_enabled") =>
         On(config, "auth_enabled")
    /\ On(config, "auth_enabled") =>
         \A s \in Provider : \E source \in {sources.env, sources.flags} \cup
                                {sources.files[i] : i \in DOMAIN sources.files} :
           Given(source, s)
    /\ Given(sources.flags, "redis_url") /\ Silent("storage_type") => Redis
    /\ ~On(config, "mock") =>
         \E s \in Sources : \E source \in {sources.env, sources.flags} \cup
                                {sources.files[i] : i \in DOMAIN sources.files} :
           Given(source, s)

\* The parts are stopped behind the last one that uses them: no request, no
\* poll goroutine and no health check has the store after it was closed, and
\* Shutdown leaves nothing but the sweeper of the SSE handler.
StoreOutlivesUsers ==
  phase = "exited" =>
    /\ running \subseteq {"sweeper"}
    /\ cluster.poll \in {"none", "waiting"}
    /\ InFlight = {}

\* A request that has the data of a cluster is refused its status only in the
\* first round of the cluster, or when the cluster was removed under it; Redis
\* may fail at any time.
StatusKnown ==
  [][\A r \in Requests :
       req[r].at = "status" /\ req'[r].kind = "no status" =>
         cluster.first \/ req[r].gone \/ Redis]_vars

\* However the requests race at the map, one is refused only when MaxRequests
\* of its client have passed within the window: lost entries let more pass,
\* none are counted twice or kept too long.
RefusedWhenBusy ==
  [][\A r \in Requests :
       req[r].at = "check" /\ req'[r].kind = "429" => Len(admitted) = MaxRequests]_vars

\* The drain ends with a stream still open only if that stream was opened in
\* the tick of the signal or after it: every other one meets, before the
\* timeout of Shutdown, a ping that cannot be written.
Stream(r) == req[r].at = "stream"
CutsLateStreams ==
  [][phase = "draining" /\ phase' = "stopping manager" =>
       \A r \in InFlight : Stream(r) => req[r].age <= drain]_vars

\* After a signal the process exits, unless such a stream meets Close or the
\* map of the rate limit ends it first.
Late == \E r \in Requests :
  \/ Stream(r) /\ req[r].age <= drain
  \/ req[r].kind = "events" /\ ~Stream(r)
ShutdownEnds ==
  (phase = "draining" /\ ~Late) ~> (phase \in {"exited", "died"})
=============================================================================
