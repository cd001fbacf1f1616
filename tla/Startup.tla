------------------------------ MODULE Startup ------------------------------
(***************************************************************************)
(* From main to ListenAndServe: the configuration is loaded and validated, *)
(* the limiter and the token storage are built, each with a connection of  *)
(* its own, the proxies are parsed once more for the API, and the server   *)
(* listens.  Any step may end the process (log.Fatal).  The key file and   *)
(* Redis go on changing meanwhile (backend/cmd/main.go, internal/config/   *)
(* config.go, internal/http/server.go).                                    *)
(***************************************************************************)
EXTENDS ClientAddress

CONSTANT MaxChanges     \* bound of the model: changes around the process

ASSUME StartupAssumption == MaxChanges \in Nat

VARIABLES
    stage,          \* how far the process has come
    config,         \* the configuration file
    keyFile,        \* what the file of jwt.private_key_path holds
    redisUp,        \* whether Redis, or its Sentinel, answers a PING
    keyKept,        \* history: the key file is still as it was when loaded
    changes         \* changes so far

environment == <<keyFile, redisUp, changes>>
startupVars == <<stage, config, environment, keyKept, addressVars>>

\* What can be wrong with the fields that a check of validate is about.
Flaws == {"unreadable", "mail_host", "mail_port", "mail_from",
          "private_key_path", "issuer_id", "admin_token"}

\* An entry of app.trusted_proxies; a bare address is a network of one.
Entry == [kind : {"blank", "malformed"}, network : {{}}]
           \cup [kind : {"network"}, network : (SUBSET Addresses) \ {{}}]

Config == [flaws : SUBSET Flaws, proxies : SUBSET Entry, tls : {"off", "ok", "bad"},
           storageType : {"inmemory", "memory", "redis", "redis_sentinel", "other"}]

Stages == {"load", "limiter", "storage", "api", "listen", "listening", "exited"}

StartupTypeOK ==
    /\ stage \in Stages
    /\ config \in Config
    /\ keyFile \in {"rsa", "other"}
    /\ redisUp \in BOOLEAN /\ keyKept \in BOOLEAN
    /\ changes \in 0 .. MaxChanges
    /\ AddressTypeOK

StartupInit(configs) ==
    /\ stage = "load"
    /\ config \in configs
    /\ keyFile \in {"rsa", "other"}
    /\ redisUp \in BOOLEAN
    /\ keyKept = TRUE
    /\ changes = 0
    /\ trusted = {} /\ NoRequest

\* ParseTrustedProxies: blank entries are skipped, one that is neither a
\* network nor an address is an error.
ProxiesParse == \A e \in config.proxies : e.kind # "malformed"

Networks == UNION {e.network : e \in config.proxies}

\* log.Fatal unless the condition holds.
Proceed(condition, next) == stage' = IF condition THEN next ELSE "exited"

\* Mutation of Validates: the proxies are left to NewAPI.
ValidatesButProxies == config.flaws = {} /\ keyFile = "rsa"

Validates == config.flaws = {} /\ keyFile = "rsa" /\ ProxiesParse

LoadFromFile ==
    /\ stage = "load"
    /\ Proceed(Validates, "limiter")
    /\ keyKept' = TRUE
    /\ UNCHANGED <<config, environment, addressVars>>

\* The switches of buildTotalLimiter and buildTokenStorage.
Connects ==
    \/ config.storageType \in {"inmemory", "memory"}
    \/ config.storageType \in {"redis", "redis_sentinel"} /\ redisUp

BuildTotalLimiter ==
    /\ stage = "limiter"
    /\ Proceed(Connects, "storage")
    /\ UNCHANGED <<config, environment, keyKept, addressVars>>

BuildTokenStorage ==
    /\ stage = "storage"
    /\ Proceed(Connects, "api")
    /\ UNCHANGED <<config, environment, keyKept, addressVars>>

\* NewAPI goes on without trusted proxies if they do not parse.
NewAPI ==
    /\ stage = "api"
    /\ stage' = "listen"
    /\ trusted' = IF ProxiesParse THEN Networks ELSE {}
    /\ UNCHANGED <<config, environment, keyKept, request>>

\* It returns only with an error, which ends the process: the certificate is
\* none, the address is taken, or accepting connections fails later on.
ListenAndServe ==
    /\ \/ stage = "listen" /\ config.tls # "bad" /\ stage' = "listening"
       \/ stage \in {"listen", "listening"} /\ stage' = "exited"
    /\ UNCHANGED <<config, environment, keyKept, addressVars>>

\* Somebody replaces the key file, which every issuance reads anew.
KeyReplaced ==
    /\ changes < MaxChanges
    /\ changes' = changes + 1
    /\ keyFile' \in {"rsa", "other"} \ {keyFile}
    /\ keyKept' = FALSE
    /\ UNCHANGED <<stage, config, redisUp, addressVars>>

RedisChanges ==
    /\ changes < MaxChanges
    /\ changes' = changes + 1
    /\ redisUp' = ~redisUp
    /\ UNCHANGED <<stage, config, keyFile, keyKept, addressVars>>

StartupNext ==
    \/ LoadFromFile
    \/ BuildTotalLimiter \/ BuildTokenStorage
    \/ NewAPI \/ ListenAndServe
    \/ KeyReplaced \/ RedisChanges

\* Requests come in once the server listens.
ServerNext ==
    \/ StartupNext
    \/ /\ stage = "listening"
       /\ AddressNext
       /\ UNCHANGED <<stage, config, environment, keyKept>>

ServerSpec == StartupInit(Config) /\ [][ServerNext]_startupVars

-----------------------------------------------------------------------------

(***************************************************************************)
(* A server that listens has the key it was checked with as long as the    *)
(* file is left alone, rather than to "500 on the first issuance request", *)
(* and trusts exactly the configured proxies: the fallback of NewAPI is    *)
(* never taken (config.go:129-152, api.go:28-36).                          *)
(***************************************************************************)
ListensAsConfigured ==
    stage = "listening" =>
        /\ keyKept => keyFile = "rsa"
        /\ ProxiesParse /\ trusted = Networks
=============================================================================
