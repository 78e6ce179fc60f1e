----------------------------- MODULE RequestChain -----------------------------
(***************************************************************************)
(* The middlewares around a request, src/src/middleware/: what each lets   *)
(* through, what it answers or raises instead, and what it writes down     *)
(* when the request comes back.  A middleware awaits the rest of its chain *)
(* and nothing else, but AuthMiddleware, which asks the gateway first, and *)
(* RateLimitMiddleware when it counts in Redis ("redis", not "limit"); so  *)
(* a request runs in one step to such a question or into its tool, and     *)
(* from the tool's end in one step back through all of them.  Tools and    *)
(* role table are those of Permissions, whose calls run beside the         *)
(* requests.                                                               *)
(***************************************************************************)
EXTENDS Permissions, ServerConfig

CONSTANTS Chains,     \* middlewares from the outermost to the innermost
          Requests    \* requests, see Request

(* a comes before b in the chain c. *)
Before(c, a, b) == \A i, j \in 1..Len(c) : c[i] = a /\ c[j] = b => i < j

(* What holds of every order the package documents or builds: Sentry       *)
(* watches AuthMiddleware from without and the error handler counts from   *)
(* within, a logged request is counted further in, and the two middlewares *)
(* that raise when they refuse come behind all that keep accounts.  What   *)
(* ValidationMiddleware raises, unawares, only Sentry is sure to see.      *)
InOrder(c) ==
    /\ Before(c, "observe", "validation")
    /\ Before(c, "observe", "auth") /\ Before(c, "auth", "errors") /\ Before(c, "logging", "metrics")
    /\ \A outer \in {"observe", "errors", "metrics"}, inner \in {"jwt", "roles"} : Before(c, outer, inner)

(* Names of tools are strings; a method may be a list ("odd"), and so may  *)
(* the query of a search.                                                  *)
Request == [method : {"tools/list", "tools/call", "odd"}, tool : STRING,
            cred : {"none", "service", "token"},   \* the Authorization header
            roles : RoleSets,                      \* of the token's user
            fault : {"none", "form", "params", "query"}]   \* what validation finds

ASSUME ChainAssumption ==
    /\ \A c \in Chains : c \in Seq(STRING) /\ InOrder(c)
    /\ Requests \subseteq Request

VARIABLES
    chain,         \* the middlewares of this server
    requireAuth,   \* require_auth
    request,       \* what each task serves
    place,         \* how far it has got: 0 none, i before chain[i], beyond its end the tool
    answered,      \* history: how the last request ended, and whether its tool had begun
    metrics,       \* MetricsMiddleware: _request_count and _error_count
    errors,        \* ErrorHandlerMiddleware: by_type, MCPErrors and others
    log,           \* LoggingMiddleware: final lines by level
    captured,      \* ObservabilityMiddleware: exceptions given to Sentry
    tally          \* history: what no counter keeps

chainVars == <<chain, requireAuth, request, place, answered, metrics, errors, log, captured, tally>>
vars == <<permVars, chainVars>>

NoRequest == [method |-> "none"]

(* What tells a client that its request was refused. *)
Refusals == {"unauthorized", "missing header", "invalid", "denied", "limited",
             "unauthenticated", "forbidden"}

Outcome == [how : {"result", "answer", "raise", "cancel"},
            what : Refusals \cup {"result", "error", "http", "mcp", "other", "unavailable",
                                  "internal", "cancelled"}]
Result == [how |-> "result", what |-> "result"]
Cancelled == [how |-> "cancel", what |-> "cancelled"]
Answer(what) == [how |-> "answer", what |-> what]
Raise(what) == [how |-> "raise", what |-> what]
Fails(o) == o.how \in {"answer", "raise"}

NoCounts == [requests |-> 0, errors |-> 0]
NoErrors == [mcp |-> 0, unexpected |-> 0]
Total(e) == e.mcp + e.unexpected

ChainInit ==
    /\ PermInit
    /\ chain \in Chains
    /\ requireAuth \in {b \in BOOLEAN : b => \E i \in 1..Len(chain) : chain[i] \in {"auth", "jwt"}}
    /\ request = [t \in Tasks |-> NoRequest] /\ place = [t \in Tasks |-> 0]
    /\ answered = [outcome |-> Result, ran |-> FALSE]
    /\ metrics = NoCounts /\ errors = NoErrors
    /\ log = [info |-> 0, error |-> 0] /\ captured = 0
    /\ tally = [requests |-> 0, errors |-> 0, told |-> 0, refusals |-> 0, dropped |-> 0,
                softened |-> 0, unseen |-> 0, unmetered |-> 0]

-----------------------------------------------------------------------------
(* The way in *)

(* skip_auth_methods *)
Skips(r) == ~requireAuth /\ r.method = "tools/list"

Unknown == [type |-> "unknown", roles |-> {"guest"}]
Anonymous == [type |-> "anonymous", roles |-> {"guest"}]
Service == [type |-> "service", roles |-> {"guest"}]

(* What AuthMiddleware writes into request["user"]. *)
UserOf(r) ==
    CASE Skips(r) -> Unknown
      [] r.cred = "none" -> Anonymous
      [] r.cred = "service" -> Service
      [] OTHER -> [type |-> "user", roles |-> r.roles]

(* JWTAuthMiddleware writes user_info; as _extract_auth_header finds no    *)
(* header whatever the request carries, all it ever writes is Anonymous.   *)
Identity(layer, r) == IF layer = "jwt" THEN Anonymous ELSE UserOf(r)

(* The user the i-th middleware finds in the request. *)
User(r, i) ==
    LET before == {k \in 1..i - 1 : chain[k] \in {"auth", "jwt"}}
    IN  IF before = {} THEN Unknown ELSE Identity(chain[CHOOSE k \in before : TRUE], r)

(* tool_permissions of ValidationMiddleware; no roles at all means guest. *)
ValidTools(role) ==
    CASE role \in {"admin", "user"} -> {"search_web", "search_vectors", "search_database",
                                        "search_all", "health_check"}
      [] role = "guest" -> {"search_web", "health_check"}
      [] OTHER -> {}

Searches == {"search_web", "search_vectors", "search_database", "search_all"}

IsCall(r) == r.method = "tools/call"

Pass == Result

(* What AuthMiddleware refuses without asking the gateway. *)
RefusedByAuth(r) == IF requireAuth /\ r.cred = "none" THEN Answer("unauthorized") ELSE Pass

(* JWTAuthMiddleware, _extract_auth_header *)
RefusedByJwt(r) == IF requireAuth THEN Raise("missing header") ELSE Pass

(* ValidationMiddleware.  It looks a method up in a set, and strips a      *)
(* query: what is no string raises there.                                  *)
RefusedByValidation(r, user) ==
    CASE r.fault = "form" -> Answer("invalid")
      [] r.method = "odd" -> Raise("other")
      [] /\ IsCall(r) /\ user.type # "service"
         /\ r.tool \notin UNION {ValidTools(role) : role \in user.roles} -> Answer("denied")
      [] r.fault = "params" /\ IsCall(r) -> Answer("invalid")
      [] r.fault = "query" /\ IsCall(r) /\ r.tool \in Searches -> Raise("other")
      [] OTHER -> Pass

(* AuthorizationMiddleware; an anonymous user has no roles there. *)
RefusedByRoles(r, user) ==
    CASE ~IsCall(r) \/ user.type = "service" -> Pass
      [] user.type = "unknown" -> Raise("unauthenticated")
      [] MayCall(IF user.type = "user" THEN user.roles ELSE {}, r.tool) -> Pass
      [] OTHER -> Raise("forbidden")

(* full: whether RateLimitMiddleware, modelled by RateLimiter, finds the   *)
(* user at its limit.                                                      *)
Refusal(i, r, full) ==
    LET user == User(r, i)
    IN  CASE chain[i] = "auth" -> RefusedByAuth(r)
          [] chain[i] = "jwt" -> RefusedByJwt(r)
          [] chain[i] = "validation" -> RefusedByValidation(r, user)
          [] chain[i] = "roles" -> RefusedByRoles(r, user)
          [] chain[i] = "limit" /\ full /\ user.type # "service" -> Answer("limited")
          [] OTHER -> Pass

AsksGateway(i, r) == chain[i] = "auth" /\ r.cred = "token" /\ ~Skips(r)

(* RedisRateLimiter, modelled by RedisLimiter *)
AsksRedis(i, r) == chain[i] = "redis" /\ User(r, i).type # "service"

-----------------------------------------------------------------------------
(* The way out *)

(* Mutant: whatever goes wrong with a token is its caller's fault. *)
ThroughBlaming(layer, r, o) ==
    IF layer = "auth" /\ r.cred = "token" /\ ~Skips(r) /\ o.how = "raise"
    THEN Answer("unauthorized") ELSE o

(* AuthMiddleware has its call_next in the try that guards the gateway: of *)
(* a user's request every exception from further in becomes an answer of   *)
(* its own.                                                                *)
Through(layer, r, o) ==
    IF layer = "auth" /\ r.cred = "token" /\ ~Skips(r) /\ o.how = "raise"
    THEN Answer(IF o.what = "http" THEN "unavailable" ELSE "internal")
    ELSE o

(* What came out of chain[i], for the layers a request has entered. *)
Seen(r, depth, o) ==
    LET seen[i \in 1..depth + 1] == IF i = depth + 1 THEN o ELSE Through(chain[i], r, seen[i + 1])
    IN  seen

(* Mutant: an exception leaves before it is counted. *)
CountedAnswers(m, o) ==
    IF o.how = "raise" THEN m
    ELSE [requests |-> m.requests + 1, errors |-> m.errors + (IF o.how = "answer" THEN 1 ELSE 0)]

(* _update_metrics: a request that was cancelled counts, as a success. *)
Counted(m, o) == [requests |-> m.requests + 1, errors |-> m.errors + (IF Fails(o) THEN 1 ELSE 0)]

Bump(counts, key) == [counts EXCEPT ![key] = @ + 1]

Logged(l, o) == Bump(l, IF Fails(o) THEN "error" ELSE "info")

(* ErrorHandlerMiddleware counts what is raised, not what is answered. *)
LogMcpError(e) == Bump(e, "mcp")
LogUnexpectedError(e) == Bump(e, "unexpected")
Noted(e, o) == IF o.how # "raise" THEN e
               ELSE IF o.what = "mcp" THEN LogMcpError(e) ELSE LogUnexpectedError(e)

(* ObservabilityMiddleware gives Sentry what is raised. *)
Captured(n, o) == IF o.how = "raise" THEN n + 1 ELSE n

InTool(t) == place[t] > Len(chain)

(* A request that has entered the first depth middlewares comes back. *)
Return(t, r, depth, o) ==
    LET seen == Seen(r, depth, o)
        Entered(layer) == \E i \in 1..depth : chain[i] = layer
        Within(layer) == seen[1 + CHOOSE i \in 1..depth : chain[i] = layer]
        Uncounted == Entered("logging") /\ ~Entered("metrics")
        ByValidation == o.how = "raise" /\ depth < Len(chain) /\ chain[depth + 1] = "validation"
    IN  /\ request' = [request EXCEPT ![t] = NoRequest] /\ place' = [place EXCEPT ![t] = 0]
        /\ answered' = [outcome |-> seen[1], ran |-> InTool(t)]
        /\ metrics' = IF Entered("metrics") THEN Counted(metrics, Within("metrics")) ELSE metrics
        /\ errors' = IF Entered("errors") THEN Noted(errors, Within("errors")) ELSE errors
        /\ log' = IF Entered("logging") THEN Logged(log, Within("logging")) ELSE log
        /\ captured' = IF Entered("observe") THEN Captured(captured, Within("observe")) ELSE captured
        /\ tally' = [tally EXCEPT
                       !.refusals = @ + (IF Uncounted /\ Fails(o) THEN 1 ELSE 0),
                       !.dropped = @ + (IF Uncounted /\ ~Fails(o) THEN 1 ELSE 0),
                       !.softened = @ + (IF depth > 0 /\ o.how = "raise" /\ seen[1].how = "answer"
                                         THEN 1 ELSE 0),
                       !.unseen = @ + (IF ByValidation /\ ~Entered("errors") THEN 1 ELSE 0),
                       !.unmetered = @ + (IF ByValidation /\ Entered("errors") /\ ~Entered("metrics")
                                          THEN 1 ELSE 0)]

Min(S) == CHOOSE x \in S : \A y \in S : x <= y

(* From chain[from] on to the next stop. *)
Descend(t, r, from, full) ==
    LET Asks(i) == AsksGateway(i, r) \/ AsksRedis(i, r)
        stops == {i \in from..Len(chain) : Asks(i) \/ Refusal(i, r, full) # Pass}
        i == Min(stops)
    IN  CASE stops = {} ->
                 /\ place' = [place EXCEPT ![t] = Len(chain) + 1]
                 /\ request' = [request EXCEPT ![t] = r]
                 /\ UNCHANGED <<answered, metrics, errors, log, captured, tally>>
          [] stops # {} /\ Refusal(i, r, full) # Pass -> Return(t, r, i - 1, Refusal(i, r, full))
          [] OTHER -> /\ place' = [place EXCEPT ![t] = i]
                      /\ request' = [request EXCEPT ![t] = r]
                      /\ UNCHANGED <<answered, metrics, errors, log, captured, tally>>

Busy(t) == job[t].op # "none" \/ place[t] # 0

(* __call__ or on_message of the outermost middleware.  A method that is   *)
(* no string is followed only to where validation stops it: FastMCP, which *)
(* calls the others, has none.                                             *)
Arrive(t) ==
    \E r \in Requests, full \in BOOLEAN :
        /\ r.method = "odd" => \E i \in 1..Len(chain) : chain[i] = "validation"
        /\ ~Busy(t) /\ calls < MaxCalls /\ calls' = calls + 1
        /\ Descend(t, r, 1, full)
        /\ UNCHANGED <<chain, requireAuth, tables, cache, wire, job, excused>>

(* The gateway answers /auth/me, cannot be reached, or something else      *)
(* breaks; or the task is cancelled while it waits.                        *)
GatewayAnswers(t) ==
    /\ place[t] \in 1..Len(chain) /\ chain[place[t]] = "auth"
    /\ \/ \E full \in BOOLEAN : Descend(t, request[t], place[t] + 1, full)
       \/ \E o \in {Answer("unauthorized"), Answer("unavailable"), Answer("internal"), Cancelled} :
             Return(t, request[t], place[t] - 1, o)
    /\ UNCHANGED <<chain, requireAuth, permVars>>

(* Redis admits the request, or fails, which admits it too; or it is full; *)
(* or the task is cancelled while it waits.                                *)
LimiterAnswers(t) ==
    /\ place[t] \in 1..Len(chain) /\ chain[place[t]] = "redis"
    /\ \/ \E full \in BOOLEAN : Descend(t, request[t], place[t] + 1, full)
       \/ \E o \in {Answer("limited"), Cancelled} : Return(t, request[t], place[t] - 1, o)
    /\ UNCHANGED <<chain, requireAuth, permVars>>

(* The tool returns, answers with an error, raises (a failed HTTP request, *)
(* an MCPError, anything else), or its task is cancelled.                  *)
ToolEnds(t) ==
    /\ InTool(t)
    /\ \E o \in {Result, Answer("error"), Raise("http"), Raise("mcp"), Raise("other"), Cancelled} :
          Return(t, request[t], Len(chain), o)
    /\ UNCHANGED <<chain, requireAuth, permVars>>

(* reset_metrics *)
ResetMetrics ==
    /\ metrics # NoCounts
    /\ metrics' = NoCounts
    /\ tally' = [tally EXCEPT !.requests = @ + metrics.requests, !.errors = @ + metrics.errors]
    /\ UNCHANGED <<permVars, chain, requireAuth, request, place, answered, errors, log, captured>>

(* reset_statistics *)
ResetStatistics ==
    /\ errors # NoErrors /\ errors' = NoErrors
    /\ tally' = [tally EXCEPT !.told = @ + Total(errors)]
    /\ UNCHANGED <<permVars, chain, requireAuth, request, place, answered, metrics, log, captured>>

Next ==
    \/ PermNext /\ (\A t \in Tasks : job'[t] # job[t] => place[t] = 0) /\ UNCHANGED chainVars
    \/ ResetMetrics \/ ResetStatistics
    \/ \E t \in Tasks : Arrive(t) \/ GatewayAnswers(t) \/ LimiterAnswers(t) \/ ToolEnds(t)

Spec == ChainInit /\ [][Next]_vars

-----------------------------------------------------------------------------
(* Properties *)

TypeOK ==
    /\ PermTypeOK
    /\ chain \in Chains /\ requireAuth \in BOOLEAN
    /\ request \in [Tasks -> Request \cup {NoRequest}]
    /\ \A t \in Tasks : /\ place[t] \in 0..Len(chain) + 1
                        /\ (place[t] = 0) = (request[t] = NoRequest)
    /\ answered.outcome \in Outcome /\ answered.ran \in BOOLEAN
    /\ metrics.errors <= metrics.requests
    /\ {metrics.requests, errors.mcp, errors.unexpected, log.info, log.error, captured} \subseteq Nat

(* A request that is told it was refused, for its token, its form, its     *)
(* roles or its rate, has not had its tool run: its client may send it     *)
(* again.  (It may not when AuthMiddleware answers "unavailable" or        *)
(* "internal": the tool may have run, and raised.)                         *)
RefusedNeverRan ==
    answered.outcome.what \in Refusals => ~answered.ran

(* The accounts of the middlewares agree over every interleaving, failure, *)
(* cancellation and reset: each final line of the log is a request in the  *)
(* metrics with the same verdict, or one refused or cancelled on the way   *)
(* to them; and each exception the error handler saw reached Sentry or was *)
(* turned into an answer by AuthMiddleware, and is an error of the metrics. *)
(* Only what ValidationMiddleware raises may be missed, by the one further *)
(* in than itself.                                                         *)
AccountsAgree ==
    LET Has(layers) == layers \subseteq {chain[i] : i \in 1..Len(chain)}
    IN  /\ Has({"logging", "metrics"}) =>
              /\ log.info + log.error
                    = metrics.requests + tally.requests + tally.refusals + tally.dropped
              /\ log.error = metrics.errors + tally.errors + tally.refusals
        /\ Has({"errors", "observe"}) => Total(errors) + tally.told + tally.unseen = captured + tally.softened
        /\ Has({"errors", "metrics"}) =>
              Total(errors) + tally.told <= metrics.errors + tally.errors + tally.unmetered
=============================================================================
