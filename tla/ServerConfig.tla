----------------------------- MODULE ServerConfig -----------------------------
(***************************************************************************)
(* How a server comes to its middlewares: ServerConfig of                  *)
(* src/src/config/settings.py, read from a profile and the MCP_ENABLE_*    *)
(* variables, and what UnifiedMCPServer builds from it.  Numbers and       *)
(* addresses of the settings are left out: a part is loaded or missing.    *)
(* Nothing validates a configuration; the call is commented out.           *)
(***************************************************************************)
EXTENDS Sequences

Profiles == {"BASIC", "AUTH", "CONTEXT", "CACHED", "COMPLETE", "CUSTOM"}
Features == {"auth", "context", "cache", "rate_limit", "metrics", "validation",
             "error_handler", "enhanced_logging"}

(* The dataclasses of settings, each of which some feature needs. *)
Parts == {"auth_config", "cache_config", "rate_limit_config", "logging_config", "retriever_config"}
PartsFor(features) ==
    {p \in Parts : \E need \in {<<"auth", "auth_config">>, <<"cache", "cache_config">>,
                                <<"rate_limit", "rate_limit_config">>,
                                <<"enhanced_logging", "logging_config">>} :
                       need[1] \in features /\ need[2] = p}

(* A ServerConfig as it is built without a profile. *)
Bare == [features |-> {"error_handler"}, parts |-> {}]

ProfileFeatures(profile) ==
    LET base == {"auth", "validation", "enhanced_logging"}
    IN  CASE profile = "AUTH" -> base
          [] profile = "CONTEXT" -> base \cup {"context", "metrics"}
          [] profile = "CACHED" -> base \cup {"cache"}
          [] profile = "COMPLETE" -> Features \ {"error_handler"}
          [] OTHER -> {}

(* Each profile loads the parts its features need, and the retrievers'. *)
FromProfile(profile) ==
    LET on == Bare.features \cup ProfileFeatures(profile)
    IN  [features |-> on, parts |-> PartsFor(on) \cup {"retriever_config"}]

(* env: the MCP_ENABLE_* variables that are set, and whether to "true".    *)
(* What they switch on is loaded; what they switch off stays loaded.       *)
FromEnv(profile, env) ==
    LET base == IF profile \in Profiles THEN FromProfile(profile) ELSE Bare
        on == {f \in Features : IF f \in DOMAIN env THEN env[f] ELSE f \in base.features}
    IN  [features |-> on, parts |-> base.parts \cup PartsFor(on) \cup {"retriever_config"}]

(* _init_components of UnifiedMCPServer, the outermost first.  Its         *)
(* authentication adds none: the verifier is for FastMCP.  The limiter     *)
(* gets a Redis client, and is RedisLimiter's, where there is a cache; an  *)
(* address that is none leaves it RateLimiter's.                           *)
InitComponents(config) ==
    LET On(f) == f \in config.features /\ PartsFor({f}) \subseteq config.parts
        limiter == IF On("cache") THEN "redis" ELSE "limit"
        Feature == [errors |-> "error_handler", logging |-> "enhanced_logging", validation |-> "validation",
                    limit |-> "rate_limit", redis |-> "rate_limit", metrics |-> "metrics"]
    IN  SelectSeq(<<"errors", "logging", "validation", limiter, "metrics">>,
                  LAMBDA layer : On(Feature[layer]))

(* main: the server is built from its environment. *)
Served(profile, env) == InitComponents(FromEnv(profile, env))
=============================================================================
