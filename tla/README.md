# A specification of mcp-for-retriever

The repository is an MCP server that searches the web (Tavily), a vector
database (Qdrant) and PostgreSQL, behind middleware for authentication, rate
limits, caching and metrics, with an auth gateway beside it. Everything that
matters for correctness happens in one asyncio process per service, between
tasks that share state across `await`s, and between processes that share Redis,
SQLite and PostgreSQL. The specifications take one step per stretch of code
between two awaits that can suspend, and one per Redis command. All paths below
are relative to `src/` of the project, that is `src/src/` of the checkout,
unless they name a directory of their own.

## Inventory

| component | state | operations | hard part | what makes it correct | module |
|---|---|---|---|---|---|
| refresh token store, `auth/jwt_manager.py` 43-161 | one Redis key per (user, device): token id, TTL | store, validate, revoke, revoke all | SCAN and DEL are two commands, keys expire | a retired token never answers again, revocations miss nothing that was there | `TokenRefresh`, `TokenLife` |
| JWT manager, same file 163-391 | none but the clock | create pair, refresh | validate, revoke, mint and store are four awaits | rotation retires the old token; nothing but a login revives a session | `TokenRefresh` |
| auto-refresh client, same file 395-575 | the token pair, an `asyncio.Lock`, a background task | request with retries, refresh under the lock, start, stop | cancellation at any await, 401 retries | one refresh at a time, the pair held is the current one, every task ends | `AutoRefreshClient` |
| cached retriever, `retrievers/cached_base.py`, with `cache/redis_cache.py` | the shared flag `_use_cache`, entries with TTL | connect, retrieve, invalidate | the flag is read twice around the fetch; misses in flight | a bypass is fresh, an invalidation holds, TTLs are capped | `SearchCache` |
| search and cache tools, `server_unified.py` | the flag saved and restored | `search_*`, `invalidate_cache` | overlapping tool calls | the flag is what `connect` left | `SearchCache`, `UnifiedServer` |
| server lifespan and search tools, `server_unified.py` | the dictionary of retrievers, their connections | init, cleanup, search, search all, health check | lifespans that overlap, failing and cancelled children, lost streams | failures stay contained, no search outlives its call, cleanup closes everything | `UnifiedServer` |
| retrievers and pools, `retrievers/{tavily,postgres,qdrant}.py`, `utils/connection_manager.py` | `_connected`, the client or pool, `active_connections` | connect, disconnect, query, health check | a pool closed under a query, cancellation in a release, retries after 429 | no pool is left behind, nobody is refused but by a close, connections are counted | `RetrieverPools` |
| writing tools, `server_unified.py` 1035-1877 | records, row locks, documents | create, update, delete, create collection | a notice to the client is an await inside every step, and inside a transaction | an error means nothing changed, a success means the right thing did | `RecordTools` |
| accounts, `auth/repositories/sqlite_user_repository.py`, `auth/services/auth_service_sqlite*.py`, `auth/init_admin.py`, `auth/dependencies.py` | the tables `users` and `user_roles` | create, read, update, delete, register, login, refresh, admit, start-up | two commits, two SELECTs, several processes | no account without roles, no roles without an account, answers hold | `UserAccounts` |
| session tokens, `auth/services/jwt_service.py`, `auth/repositories/token_repository.py` | two keys per token, a list per user | issue, store, revoke, refresh, log out | a chain of commands any of which may fail; a list whose TTL changes | revoked stays invalid, valid is listed, a logout is complete | `SessionTokens` |
| permissions, `auth/services/{permission,rbac}_service.py` | role table, rows, a cache per user, one connection | check, list, grant, revoke | a stale fill after a change | the cache is current, what is shown is what is let through | `Permissions` |
| rate limiting middleware, `middleware/rate_limit.py` | per user: a list of times, a token bucket | check, usage statistics | boundaries of the windows, fractional refills | limits, burst and `retry_after` | `RateLimiter` |
| Redis rate limiter, `utils/redis_rate_limiter.py` | a sorted set per user, the script's digest | check, statistics, reset, cleanup | clock read before awaits, Redis restarts, cleanup in two commands | the window's limit | `RedisLimiter` |
| the other middlewares, `middleware/` | counters, log lines | pass, refuse, record | an exception, an answer or a cancellation travels back through all of them | a refusal means nothing ran, the accounts agree | `RequestChain` |
| configuration, `config/settings.py` | features and loaded parts | profile, environment, composition | a part switched on without its settings | which chain is served | `ServerConfig` |
| gateway, pages, models, translations, telemetry, entry points, exceptions | none the program acts on | | | | not modelled |

The parts meet in five ways. Tools call retrievers, which call the cache and
their pools. The middlewares call the limiters and then the tool. The server and
the client of the gateway share the refresh tokens through Redis. The tools and
the lifespan share one dictionary and one flag per retriever without a lock. The
processes share the accounts through one SQLite file.

## Modules

- **`TokenRefresh`** – the store and the manager. `store` is what Redis holds,
  `until` the end of a key's TTL; a call `c` walks through `pc[c]`
  (`validate`, `revoke`, `mint`, `store`, `return` for a refresh, `store`,
  `return` for a login, `scan`, `delete` for `revoke_all_user_tokens`).
  `delivered` are the pairs some client has got, and so the only ones a refresh
  is given. `Fail` is the except block, for a Redis error at any await. `missed`
  is a history variable: keys written behind the scan. `Tick` is the clock of
  `exp` and TTL.
- **`TokenLife`** – the abstract specification: of the tokens of a slot at most
  one is current, a token is current for one stretch of time, and never again.
- **`AutoRefreshClient`** – extends `TokenRefresh` with the client: its calls
  are the tasks (requests and the background task) of one client. `queue` is the
  lock with the tasks that wait, in order; `held` is the pair; `Abort` is
  cancellation, which `stop_background_refresh` makes possible at each await.
- **`SearchCache`** – `CachedRetriever`, the Redis cache and the tools that
  clear and restore `_use_cache`. Rows are the version of the source they were
  read from, so *fresh* and *outdated* are comparisons of versions. `floor` is
  a history variable: the version below which an invalidation has outdated a
  key. No class under `src/` derives from `CachedRetriever`; it is modelled as
  the base class it is documented to be.
- **`RateLimiter`** – the in-memory path; seconds are split into ticks so that
  fractions, floors and boundaries occur. Requests are kept with their times as
  history, beyond what the code prunes.
- **`RedisLimiter`** – the Lua script as atomic actions (`Allow`, `Refuse`), the
  two commands around it, restarts of Redis, `reset_limit` and the steps of
  `cleanup_expired`. A score is a tick, of which `Frac` make a second.
- **`UnifiedServer`** – the lifespan (`EnterLifespan`, `InitSource`,
  `LeaveLifespan`, `CleanupStep`) and the tools `search_web`, `search_vectors`,
  `search_database`, `search_all` and `health_check` as calls with a `pc`.
  `registry` is the dictionary in its order of insertion, because `cleanup` and
  `health_check` iterate over it across awaits and Python raises when its size
  has changed. The searches of a `search_all` are `child[r]`, the tasks of a
  `TaskGroup`. `lost` are the sessions whose client stream refuses notifications
  at the moment: every `ctx.info` and `ctx.error` is an await that may raise.
  Which library version is installed decides whether FastMCP enters the lifespan
  once per process or once per client session (the project asks for
  `fastmcp>=2.10.6`); with one session in `Sessions` the model is the first case.
- **`RetrieverPools`** – one retriever and its pool; `kind` says which of the
  three. Pools are numbered in the order they are made, `current` is the one the
  manager hands out (0 for `None`), `open` the ones with open connections, `shut`
  the ones on which `close` was called. A task is `locking`, `creating`,
  `acquiring`, `using`, `releasing`, `sleeping` (after a 429) or `closing`.
  The history variables name the exceptions a property grants: `clash` (made
  while another was being closed), `demand` (made by a search that found none),
  `half` (of a `connect` that failed), `shaken`, `slipped` (releases that ended
  before `record_connection_released`, because the release raised or the task was
  cancelled). A `"transaction"` is a query in whose block the caller does what it
  likes, as long as it likes.
- **`RecordTools`** – the tools that write, over PostgreSQL (rows, one lock for
  the transaction of an update, `MaxSize` connections) or over Qdrant. Each
  `ctx.info` is a place in `Telling`, where a call waits for a client that may
  never read or may refuse. `wrote` is a history field: what a call has changed.
- **`UserAccounts`** – the two tables, with a step per SELECT and per commit.
  `Creating` and `Adding` are the places between the two commits of a creation;
  `broken`, `emptied` and `late` are the histories of the exceptions.
- **`SessionTokens`** – `token` and `marker` are the two keys of a token with
  the end of their TTL, `list` the set of a user's tokens with its own. `Store`
  to `StoreExpire`, `Revoke` to `RevokeSrem` and `Logout` to `LogoutEnds` are
  chains of one command each; `StoreFails` and `RevokeFails` end a chain where
  it is, with or without effect. `Issued` is what `create_refresh_token` hands
  out, `StoreIssued` the storing it leaves to a task.
- **`Permissions`** – `RBACService` as operators over `roleTable`
  (`MayUse`, `MayCall`, `MayTouch`, `Allowed`, `UserPermissions`) and
  `PermissionService` as calls over one asyncpg connection (`wire`): a reply is
  handed to its task (`Serve`) before the next reply can be read, and a second
  query raises (`Send`). `Inheritance` is `enable_permission_inheritance`: `False`
  unless somebody sets it, as `tests/unit/test_auth/test_rbac_service.py`
  (`test_permission_inheritance`) does; the run sets it, the theorems are about
  both. With it `check_permission` grants reading to whoever may write, while
  `get_user_permissions` still lists the writing only, and `AllowedIsChecked` says
  that this is the whole difference.
- **`ServerConfig`** – the features and parts a profile and the environment give,
  and the chain built from them (`Served`): with a cache the limiter is given a
  Redis client and is the layer `"redis"`, else the layer `"limit"`. It has no
  state of its own; `MCRequestChain` takes one of its chains from it.
- **`RequestChain`** – composes the two: requests run through a chain of
  middlewares beside calls of the permission service. `Descend` runs a request
  from one stop to the next (the gateway, Redis, a refusal or the tool), `Return`
  carries an outcome back through every layer it has entered, with what each
  writes down. `ValidationMiddleware` answers when it refuses, but raises for a
  query that is no string (`middleware/validation.py:182`) and for a method that
  is a list (81); `tally` counts what the error handler (`unseen`) or the metrics
  (`unmetered`) then miss, being further in. A request is a dictionary, as the
  middlewares declare it and their tests give it; names of tools are strings. In
  the served chain it is something else: `add_middleware`
  (`server_unified.py:456`) makes FastMCP call them with a `MiddlewareContext`,
  which has no `get`, so that `request.get` raises an `AttributeError`, in the
  `LoggingMiddleware` of every profile but BASIC and CUSTOM at
  `middleware/logging.py:168`. As it stands, no request gets through such a
  server; the served chain of the model is that chain once it is given
  dictionaries.

The modules `MC...` give values to constants that a `.cfg` cannot write down,
and name the permutations used as symmetry. Operators whose comment begins with
"Mutant" are plausible wrong versions of the operator that follows; nothing
uses them. They show that the runs would notice.

## Runs

| run | instance | asks |
|---|---|---|
| `token_refresh` | two devices, two calls, three tokens, life 1 | rotation, revocation, lifetime, and the refinement of `TokenLife` |
| `auto_refresh` | two requests, the background task, five instants, four tokens | the lock, the pair held, termination |
| `search_cache` | two searches and an invalidation of one key, two changes of the source | freshness, the flag, TTLs |
| `rate_limiter` | three a minute, five an hour, burst two, a little more than an hour | windows, burst, `retry_after` |
| `redis_limiter` | two calls, limit one, one stop of Redis, one cleanup | the window under overlapping calls |
| `unified_server` | two sessions, two sources, a call of any tool | containment, cancellation, cleanup, what a call waits for |
| `retriever_pools` | two tasks, one connection, three attempts, three pools, each of the three retrievers | pools left behind, refusals, the count of connections, termination |
| `record_tools` | two calls, records 0 and 1 or two usable ids and one that is not, one connection | what an error and what a success say, termination |
| `accounts` | two calls, two ids | accounts without roles, roles without accounts, answers |
| `session_tokens` | two calls, two tokens, a life of one from a login and of two from a direct caller | revocation, the list, logouts |
| `request_chain` | two tasks, three calls, three chains, five requests, one user with rows, rights inherited | the cache of permissions, the listings, refusals, accounts |
| `session_untracked` | the same | the tracking of issued tokens, which the code breaks |

Why the bounds suffice: two calls are enough for every race named in this file,
since each is between one writer and one reader of a key, a row or a pool; a
third token is the first that can be stored while two others are retired; one
key of the cache suffices because keys never interact except in a scan, which
takes them one at a time; `rate_limiter` runs past an hour with limits such that
each of the three is the one that bites; one call suffices in `unified_server`
because calls share no state with one another, only with sessions, and two
sessions give overlap, succession and overwriting. In `retriever_pools` a third
pool is the first that can be made while one is being closed and another is in
use, and `MaxSize` of one is the limit at which callers wait for each other. All
accounts of `accounts` have one e-mail address: accounts of different addresses
share no row. In `session_tokens` the two lives make a later token shorten its
user's list, the case in which a valid token drops off it. In `request_chain`
the rows are of one user because the cache of one user never touches another's,
and the chains are the documented one, the one the unified server builds with a
limiter on Redis, and the one of FastMCP's own middlewares; a search with a query
that is no string and a method that is a list are among the five requests; the order that the docstring of
`middleware/__init__.py` gives is only checked to satisfy the assumption on
`Chains`, under which the theorems speak of it too. Every safety property of these runs is also
proved for any of these numbers (see Proofs). Symmetry is used only in runs
without liveness.

Deadlock is checked except where the system may really stop: a server whose
sessions have ended, a source that has had its last change (`MaxVersion`), and
the runs whose bound on calls, pools or time is reached (`MaxCalls`, `MaxMade`,
`MaxTime`, no unused id left).

**Fairness.** `TokenRefresh`, `SearchCache`, `SessionTokens`, `UserAccounts`,
`RequestChain` and the limiters state safety only. `AutoRefreshClient` assumes
weak fairness of each task's own steps: the event loop runs what is ready, and
each library call it awaits returns or raises (they have timeouts). So does
`RecordTools` of statements, and `RetrieverPools` of what has a timeout (`Timed`):
`create_pool`, requests, statements, releases, whose reset is a statement, and the
pause of a retry. The block of a transaction has none. Both assume strong
fairness of what is served in order of arrival: `asyncio.Lock`, a connection of
asyncpg's pool, PostgreSQL's row locks. In `utils/connection_manager.py` `acquire` (150) and
`close` (226) have no timeout themselves: a call waiting in `acquire` is only served, by a
connection or an error, when the pool has a connection free or has been closed
(`Served`), and a `close` of asyncpg's only ends when every connection is back
(`Drained`); that an idle connection or client can be closed is assumed. So
`RetrieverPools!CallsEnd` excepts the calls that wait on a pool with a connection
that was never given back or is kept in a transaction (`KeptBusy`). Without the
second exception this instance already violates it. A connection that is never given back
takes a third call to wait for it: without the first exception the property holds
of two tasks, and three (with two pools and one retry) violate it; with
it that instance holds too, but takes too long to be a run beside the others.

Nothing is assumed of clients, of cancellations, of the stream, or of sessions
ending; a stream may stay broken and a client may leave a notice unread for ever,
which is why `RecordTools!CallsEnd` excepts the calls that can wait for such a
client. `UnifiedServer` assumes nothing at all but that the event loop goes on
with a `search_all` whose searches are over: neither `ctx.info` nor a `retrieve`
has a timeout there. Its `CallsEnd` is conditional: a call whose own notices and
queries all return or raise (the weak fairness of `NoticeStep` and `SourceStep`
of that one call, within the property) ends, whatever other calls, sessions and
sources do. A single source of `search_all` that never answers keeps the whole
call, for `asyncio.TaskGroup` waits for all (`server_unified.py:1537`).

**Finding.** `session_untracked`: `create_refresh_token` passes an aware expiry
to a repository that subtracts a naive clock from it
(`auth/repositories/token_repository.py:147`). That raises a `TypeError`, which
the method swallows, so no token `JWTService` issues is ever stored, and none
can be revoked. Callers that pass a naive expiry, which the repository's own
signature suggests, are what `Store` is about.

Disagreements with a docstring or comment met while modelling that no run
states any more:

- two refreshes of one token both validate (`auth/jwt_manager.py:331`) before
  either revokes (339), and both succeed; line 8 promises "Concurrent refresh
  prevention";
- a token stored behind the SCAN (147) survives `revoke_all_user_tokens`
  (`RevokeAllComplete` names such tokens as `missed`);
- a retry after a 401 carries the refused token again when the pair is not near
  its expiry (441), although the comment at 506 says it refreshes;
- an overlapping search without cache can save the cleared flag and write it
  back (`server_unified.py` 700-701): the cache is then off for good;
- the Lua script is loaded once (`utils/redis_rate_limiter.py:107`); after a
  restart of Redis `NOSCRIPT` lets everybody through;
- the limiter reads a request's weight from the fraction of its score (60),
  which time has too: one request can count as several.

Other things met on the way:

- Tokens and limits. `create_jwt_system` keeps the store's TTL of seven days
  whatever `refresh_token_expire_days` is; the bucket's `retry_after` is rounded
  down, so a client that obeys may be refused again; `cleanup_expired` can delete
  a request recorded between its look and the DELETE (the property excepts such
  users). `decode_token` skips the repository inside a running loop; `logout`
  ignores its `device_id`; the list of a user's tokens has the TTL of the last one
  stored, where the comment at `token_repository.py:157` says the longest.
- Server. Sessions whose lifespans overlap leak retrievers and disconnect each
  other's; the context store only grows while the server runs, because
  `_request_id` is found on no FastMCP context.
- Pools. A search asleep after a 429 makes a new client after a disconnect;
  overlapping disconnects can drop a pool unseen; a failed `connect` leaves its
  pool open; a `close` that raises leaves `_connected` true; a release that is cancelled or
  raises leaves `active_connections` one too high (`utils/connection_manager.py`
  167-168); the Qdrant client is dropped
  without being closed, and after one error its manager reconnects for ever.
- Records. Deleting record 0 succeeds and reports that nothing was found; an
  update whose document id is neither an integer nor a UUID writes a new document
  under a random one; an update without a text always fails. asyncpg is taken to
  have the `quote_ident` the code calls on it (`retrievers/postgres.py:417`,
  `server_unified.py:1214`).
- Accounts. `get_recent_users` raises early in a month (it subtracts from the
  day), `list_all` and `search_by_email` execute raw strings; each catches its
  error and answers an empty list. Declared foreign keys are not enforced, so
  roles can stay behind without an account.
- Permissions. An entry is filled with the rows of the roles its first caller
  named and never honours `expires_at`; a grant on an elapsed row has no effect;
  role grants accumulate, since rows without a user never conflict; a change of
  `viewer` or `analyst` in the role table changes nothing a check reads.
- Middlewares. `_extract_auth_header` finds no header, so `JWTAuthMiddleware`
  with `require_auth` refuses everybody and without it knows nobody; `AuthMiddleware`
  has `call_next` inside the `try` that guards the gateway, so a tool's exception
  becomes an authentication service error; a cancelled request counts as a success;
  a search whose query is `null` raises in `ValidationMiddleware`, which in the
  unified chain the error handler counts and the metrics, further in, do not;
  nobody in the unified chain sets `request["user"]`, so validation takes everybody
  for a guest; the tables of validation and of roles disagree about `search_all`.

## Proofs

Checked by TLAPS, for every value of the constants that satisfies the named
assumptions of the modules: any number of calls, tasks, users, tokens and
records, any limits, lives and pool sizes. Every invariant and action property
that a passing run checks is a theorem. TLC checks on the runs' instances what
is claimed to be inductive before it is proved.

- **`TokenRefresh_proofs`** – the store, its client and the refinement.
  - *The store*: type correctness, `RotationRetires`, `RevokeAllComplete`,
    `QuietStaysQuiet`, and `PromisedLifetime` for a store whose TTL covers the
    token's life. The invariant says which token each call carries at each `pc`,
    that token ids are unique and below `lastJti`, and that a scan's three sets
    cover its pattern.
  - *The client*: `OneRefreshAtATime` and `HeldIsCurrent`. `LockInv` says that
    the queue of the lock holds the tasks at the lock or under it, each once, and
    that only its head is in a call of the manager; releasing takes a task out
    wherever it stands (`RemoveFirst`), because a waiting task can be cancelled.
    `HeldInv` adds where the stored token may differ from the held one: between
    the DEL and the SETEX, and after a call has stored and before it returns.
    From the same invariant: type correctness, that the store keeps its promises
    and every step is one of `TokenLife` under the client too
    (`StoreServesTheClient`), and that a client which has lost its tokens does not
    come back by itself (`ClientStaysLoggedOut`).
  - *The refinement*: `TokenRefresh` implements `TokenLife`: every step is a step
    of the abstract specification or stutters. The mapping reads the current
    tokens off the store and calls every other id ever given out *spent*, but
    those on their way into the store; what is spent stays spent (`SpentForGood`).
- **`Redis_proofs`** – the two components that keep their state in Redis.
  - `SearchCache`: `BypassIsFresh`, `QuietInvalidationHolds`, `FlagIsKept`, and
    `EntriesAreBounded` if `default_ttl <= max_ttl`, as the defaults have it (300
    and 3600; the code compares only a TTL that a caller gives). The invariant
    ties the version a search carries to the version at its start, and the flag
    to the values the tools have saved.
  - `RedisLimiter`: `WithinLimit`. Neither half is inductive: the limit holds
    because the sorted set still has an entry for every request of the window
    (`Covers`), whichever clock trims it, and because the weights the script adds
    up are at least as many as the entries (`UsageAtLeast`). That a clean-up costs
    a second and no more is `Sweep`: what it saw of a key it is about to delete
    was, but for that second, older than the window. Type correctness bounds
    identifiers by the last one given and scores by the clock and a weight.
- **`Middleware_proofs`** – the chain with its permissions, and the limiter.
  - `CacheIsCurrent` and `AllowedIsChecked`, for the permission service beside
    any requests. A look-up may only fill the cache with rows that still stand
    (`OwnStands`); that is an invariant because the one connection carries the
    query of the one task that waits for it (`WireIsHeld`), so no change can be
    served between the two queries of a look-up or between its last reply and its
    fill. With a pool the step would fail, and so would the property.
    `AllowedIsChecked` holds with and without inheritance.
  - `RefusedNeverRan` and `AccountsAgree`, for any requests and any chain in
    order. What order that is (`InOrder`) is an assumption on `Chains`; the runs
    evaluate it, and that every chain the configuration can build is in order
    (`EveryServedChainIsInOrder`). The way back through a chain is a recursive
    function: `SeenUnfolds` proves what each layer sees from what the next one
    saw, `TurnedKeepsVerdict` that no layer turns a failure into a success, and
    `EntersInOrder` which layers a request that got so far has entered: all that
    keep accounts, when an exception begins at the tool or at `"jwt"` or `"roles"`,
    but only Sentry's for sure, when it begins in validation (`ByValidation`). The
    accounts then balance step by step (`SentryBalance`, `ErrorsSuffice`).
  - Type correctness of both: the upsert keeps the rows of a user apart
    (`OneRowEach`, from `ChangedApart`), and a task has a request exactly while it
    has a place in the chain (`Serving`).
  - `RateLimiter`: the windows, the burst and `WindowRetryHonoured`. `BurstBound`
    is not inductive by itself: the invariant adds that tokens in the bucket plus
    those spent since any moment stay below what the burst and the rate yield. A
    promise is kept because at the promised time fewer requests than the limit
    will be left of the full window (`Promised`).
- **`UnifiedServer_proofs`** – type correctness and the four safety properties.
  The invariant of one call (`CallInv`) says that no search runs outside its
  group, that a failed one had a notification refused, and that one cancelled
  while the group waits was cancelled by a failed one; without the last, an
  answer could be built from cancelled searches. A step of a session or of
  another call leaves all of it alone (`UntouchedKeeps`). `AloneLeavesNothingOpen`
  needs `LoneInv`: all that a session has open is in the dictionary, at or after
  the place its cleanup has reached, whatever earlier sessions left there.
  `HealthCheckAnswers` needs `HealthInv`, for which a step of a session that has
  met another is told from one that has not.
- **`RetrieverPools_proofs`** – type correctness and the three safety
  properties, none of them inductive. `Placed` says where each call is with its
  pool, `Outlived` how an open pool comes not to be the current one, `Owned` whose
  an open pool is, `Warned` who can meet a pool that refuses, and `Loose` which
  connections may not come back; with the last, the count of active connections
  is a sum of cardinalities that each step changes on both sides, or, where a
  release raises or is cancelled, the number of such releases on one and the
  calls at work on the other (`SlipKeeps`).
- **`RecordTools_proofs`** – type correctness and the two safety properties. The
  invariant says of each call what it has changed, by its place and the store it
  works on, and that a row is locked for the one update that is about to commit.
  `UpdateIsAboutIts` is about the statement itself: the renumbering of the
  condition's placeholder makes it name the record and no column.
- **`UserAccounts_proofs`** – type correctness (with one account for the address
  at most) and the three properties. `Sees` is what a call that nobody has
  overtaken relies on at its place; a write of an account marks every call that
  knows it (`Overtaken`), so that a step is either the call's own or one of
  another that leaves it what it relies on.
- **`SessionTokens_proofs`** – type correctness and all three properties of
  `session_tokens`. That a revoked token stays invalid needs `SetOnce` (only one
  call ever stores a token) and `Gone` (its key is gone and nobody is about to
  write it). That a valid one is listed needs `ListOutlives`: the list's TTL
  ends no sooner than that of a member that is not excepted. `Remembered` says
  what a logout in progress still knows of the list it read.

Two idioms recur. Induction is over a set of numbers: if a property of sizes or
places fails, it fails at a least one (`Least`, `LeastOf`, `OldestIn`), from
`NatLessThanWellFounded`. A recursive function or a fold is unfolded after a
closed form has shown that its equation has a solution (`RenumberedOnce`,
`SeenUnfolds`, `AddsExists`).

Only model-checked: liveness (`TasksEnd` and the three kinds of `CallsEnd`),
which is out of the prover's reach, as is ENABLED, and with it the absence of
deadlock. The type invariant of every module that models code is proved; only
`RecordTools` and `UserAccounts` name theirs in a run as well, because theirs say
more than types (who may hold a row's lock, one account per address).

## Not modelled

Formatting, logging texts, pages and translations; telemetry; embeddings; JWT
signatures (a token is its claims); numbers and addresses of the configuration.
Libraries are external and appear by what the code sees of them: Redis commands
are atomic and keys expire, an `asyncio.Lock` is first come, first served, a
`TaskGroup` cancels the other children when one fails, SQLite has one writer at
a time and readers see committed rows, an asyncpg connection serves one query.
`cleanup` being cancelled itself while the process is killed is left out: it
ends the process.

The auth gateway (`auth/server.py`) renders pages over the services of
`UserAccounts` and `SessionTokens`; its line 2054 is a syntax error, so it
cannot be imported as it stands. `InMemoryUserRepository` cannot be built (its
default users lack what `auth/models.py` 146-149 demands), and `AuthService`
calls a method that does not exist (`auth/services/auth_service.py:368`); the
Qdrant in-memory retriever has no await that suspends. `ConnectionManager`'s
facade, `adjust_pool_size`, the `cached` decorator and `JWTBearerVerifier` are
used by nothing.

## Plan

1. `set_tokens` while a refresh is under way, and a store that is disconnected
   between two commands, as actions of `AutoRefreshClient` and `TokenRefresh`.
2. Theorems about what the liveness runs rest on: in `RetrieverPools`, that some
   task can always move unless all have ended or wait for a client, as a state
   predicate that needs no ENABLED.
