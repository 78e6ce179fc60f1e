----------------------------- MODULE MCRequestChain -----------------------------
EXTENDS RequestChain
MCRoleSets == {{}, {"analyst"}, {"user", "power_user"}}
MCKeys == {<<"database", "public.*">>}
MCGrants == {{"delete"}}
MCMatches == {<<"public.*", "public.users">>}
MCChanges == {<<"user", <<"database", "read">>>>, <<"viewer", <<"database", "delete">>>>}
TaskSymmetry == Permutations(Tasks)
Documented == <<"observe", "auth", "logging", "validation", "limit", "metrics", "errors">>
Unified == Served("COMPLETE", [context |-> FALSE])
FastMCP == <<"errors", "jwt", "roles">>
Package == <<"logging", "limit", "auth", "metrics", "errors">>
MCChains == {Documented, Unified, FastMCP}
Ask(method, tool, cred, roles, fault) ==
    [method |-> method, tool |-> tool, cred |-> cred, roles |-> roles, fault |-> fault]
MCRequests == {Ask("tools/list", "search_all", "none", {}, "none"),
               Ask("tools/call", "search_all", "none", {}, "none"),
               Ask("tools/call", "search_all", "service", {}, "query"),
               Ask("tools/call", "search_all", "token", {"user", "power_user"}, "none"),
               Ask("odd", "search_web", "token", {}, "none")}
(* Whatever the profile and the environment, the chain is one of those the *)
(* assumption on Chains admits.                                            *)
ASSUME EveryServedChainIsInOrder ==
    \A profile \in Profiles \cup {"none"}, set \in SUBSET Features :
        \A env \in [set -> BOOLEAN] : InOrder(Served(profile, env))
(* The order that the docstring of the package gives is admitted as well.  *)
ASSUME TheOrderOfThePackageIsInOrder == InOrder(Package)
=============================================================================
