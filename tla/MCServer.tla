------------------------------ MODULE MCServer ------------------------------
(* Server with the command lines, environments and files below.            *)
EXTENDS Server, TLC

OAuth == [authorize_url |-> "url", token_url |-> "url", client_id |-> "id",
          client_secret |-> "secret"]
Mock  == [mock |-> "true"]

MCCommandLines ==
  {<< >>, Mock, [urls |-> "list"], Mock @@ [debug |-> "true"],
   Mock @@ [port |-> "bad"],
   OAuth @@ [urls |-> "list", debug |-> "true"],
   [authorize_url |-> "url", kubeconfig_path |-> "path", debug |-> "true"],
   [redis_url |-> "url", registry_url |-> "url", debug |-> "true", log_level |-> "warn"]}

MCEnvironments ==
  {<< >>, Mock, [mock |-> "yes"], [port |-> "garbled"], [query_interval |-> "bad"],
   [redis_url |-> "url"], [storage_type |-> "redis"], [auth_enabled |-> "false"],
   [token_url |-> "url", client_id |-> "id", client_secret |-> "secret"],
   [screen_tokens |-> "true"], [secret_key |-> ""]}

MCFiles ==
  {<< >>, <<[urls |-> "list", mock |-> "false"], Mock>>, <<[secret_key |-> ""]>>,
   <<[port |-> "garbled"]>>, <<OAuth @@ [auth_enabled |-> "true"]>>}

\* Under the rate limit, requests that differ in nothing else.
MCOffered == [debug \in {"true", "false"} |->
                IF debug = "true"
                THEN {"events", "cluster", "health", "detailed", "create token", "index", "login",
                      "logout", "preflight"}
                ELSE {"clusters"}]
=============================================================================
