--------------------------- MODULE Configuration ----------------------------
(***************************************************************************)
(* internal/config and the flags of main.go: how the settings of a server  *)
(* come out of its sources.  A source is a function from the settings it   *)
(* gives to values.  Of a value the model keeps what the code tells apart: *)
(*   ""         nothing given                                              *)
(*   "garbled"  does not parse (numbers and durations)                     *)
(*   "bad"      parses, and Validate refuses it                            *)
(*   "true", "redis" and other names stand for themselves                  *)
(***************************************************************************)
EXTENDS Integers, Sequences

Switches == {"debug", "mock", "auth_enabled", "screen_tokens", "show_capacity",
             "show_requests", "show_limits", "show_usage", "log_add_source"}
Parsed   == {"port", "query_interval", "connect_timeout", "read_timeout", "redis_db"}
Provider == {"authorize_url", "token_url", "client_id", "client_secret"}
Sources  == {"urls", "registry_url", "kubeconfig_path"}
Plain    == {"host", "route_prefix", "secret_key", "contexts", "scope",
             "credentials_dir", "storage_type", "redis_url", "url_template",
             "node_link_url", "pod_link_url", "theme", "log_level",
             "log_format", "log_output", "log_time_format"}
Settings == Switches \cup Parsed \cup Provider \cup Sources \cup Plain

Given(source, s) == s \in DOMAIN source /\ source[s] # ""
Overlay(config, source, names) ==
  [s \in Settings |-> IF s \in names THEN source[s] ELSE config[s]]

\* New.  Mock mode is on.
Default == [port |-> "8080", host |-> "0.0.0.0", route_prefix |-> "/",
            secret_key |-> "development", query_interval |-> "5s",
            connect_timeout |-> "10s", read_timeout |-> "10s", mock |-> "true",
            scope |-> "openid", storage_type |-> "memory", redis_db |-> "0",
            theme |-> "default", log_level |-> "info", log_format |-> "json",
            log_output |-> "stdout", log_time_format |-> "rfc3339"]
Shown == {"show_capacity", "show_requests", "show_limits", "show_usage"}
New == [s \in Settings |-> IF s \in DOMAIN Default THEN Default[s]
                           ELSE IF s \in Shown THEN "true"
                           ELSE IF s \in Switches THEN "false" ELSE ""]

-----------------------------------------------------------------------------
(* LoadFromEnv.                                                            *)

\* A number or a duration that does not parse ends the program.
EnvGarbled(env) == \E s \in Parsed : Given(env, s) /\ env[s] = "garbled"

\* Whatever is not "true" switches off.
Read(env) == [s \in DOMAIN env |->
                IF s \in Switches /\ env[s] # "true" THEN "false" ELSE env[s]]

LoadFromEnv(config, env) ==
  Overlay(config, Read(env), {s \in DOMAIN env : Given(env, s)})

-----------------------------------------------------------------------------
(* The command line, with the defaults that the flags declare.             *)

FlagDefault == [port |-> "8080", route_prefix |-> "/", debug |-> "false",
                secret_key |-> "development", mock |-> "false",
                log_level |-> "info", log_format |-> "json",
                log_output |-> "stdout", log_add_source |-> "false",
                log_time_format |-> "rfc3339"]

\* These flags are looked at.  The node and pod links and the Redis database
\* have one that is not.
FlagsRead == DOMAIN FlagDefault \cup Sources \cup Provider
               \cup {"contexts", "query_interval", "redis_url", "scope"}

Flag(flags, s) == IF s \in DOMAIN flags THEN flags[s]
                  ELSE IF s \in DOMAIN FlagDefault THEN FlagDefault[s] ELSE ""

\* Taken from the command line whatever it says; the others where they say
\* something.
Always == {"port", "route_prefix", "debug", "secret_key", "mock", "log_add_source"}

\* Fault: the mock mode of New stays on unless the flag is given.
WithFlagsMockGiven(config, flags) ==
  LET said  == [s \in FlagsRead |-> Flag(flags, s)]
      taken == Overlay(config, said,
                 {s \in FlagsRead : said[s] # "" /\ (s = "mock" => Given(flags, s))})
      redis == IF said["redis_url"] = "" THEN taken
               ELSE [taken EXCEPT !["storage_type"] = "redis"]
  IN IF said["authorize_url"] = "" THEN redis
     ELSE [redis EXCEPT !["auth_enabled"] = "true"]
\* A Redis URL chooses the store, an authorize URL switches authentication on.
WithFlags(config, flags) ==
  LET said  == [s \in FlagsRead |-> Flag(flags, s)]
      taken == Overlay(config, said, {s \in FlagsRead : s \in Always \/ said[s] # ""})
      redis == IF said["redis_url"] = "" THEN taken
               ELSE [taken EXCEPT !["storage_type"] = "redis"]
  IN IF said["authorize_url"] = "" THEN redis
     ELSE [redis EXCEPT !["auth_enabled"] = "true"]

\* loadConfigFromFlags: the environment comes last.
FromCommandLine(flags, env) == LoadFromEnv(WithFlags(New, flags), env)

-----------------------------------------------------------------------------
(* Load of the config package: a file, then the environment.  Found holds   *)
(* the files at the default locations, in the order they are looked for.    *)

LoadFromFile(config, file) == Overlay(config, file, DOMAIN file)
LoadFromDefaultLocations(config, found) ==
  IF found = << >> THEN config ELSE LoadFromFile(config, Head(found))
FileGarbled(found) == found # << >> /\ \E s \in DOMAIN Head(found) : Head(found)[s] = "garbled"

Load(found, env) == LoadFromEnv(LoadFromDefaultLocations(New, found), env)

-----------------------------------------------------------------------------

On(config, s) == config[s] = "true"

\* Validate.
HasSource(config) == On(config, "mock") \/ \E s \in Sources : config[s] # ""
Validate(config) ==
  /\ \A s \in Settings : config[s] # "bad"
  /\ config["secret_key"] # ""
  /\ HasSource(config)
  /\ On(config, "auth_enabled") => \A s \in Provider : config[s] # ""
  /\ config["storage_type"] \in {"memory", "redis"}
  /\ config["storage_type"] = "redis" => config["redis_url"] # ""
=============================================================================
