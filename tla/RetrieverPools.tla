---------------------------- MODULE RetrieverPools ----------------------------
(***************************************************************************)
(* A retriever and the pool it works through: TavilyRetriever over         *)
(* HTTPSessionManager, PostgresRetriever over PostgreSQLPoolManager, or    *)
(* QdrantRetriever over QdrantClientManager (src/src/retrievers/tavily.py, *)
(* postgres.py, qdrant.py and src/src/utils/connection_manager.py).  All   *)
(* managers open their pool on demand and hand it out; the first two drop  *)
(* it only after having awaited its closing.  The calls of the retriever   *)
(* are tasks of one event loop; a step ends where the code awaits          *)
(* something that can suspend, which no call of the third does.  `kind'    *)
(* says which of the retrievers a behaviour is about.                      *)
(***************************************************************************)
EXTENDS Naturals, FiniteSets

CONSTANTS Tasks,      \* the calls that may be in progress at once
          NoTask,     \* the lock is free
          MaxSize,    \* max_size of the PostgreSQL pool
          Retries,    \* max_retries of _search
          MaxMade,    \* bound: calls begin only while fewer pools were made
          MaxSlips    \* bound on slipped

ASSUME PoolsAssumption ==
    /\ NoTask \notin Tasks
    /\ MaxSize \in Nat \ {0} /\ Retries \in Nat \ {0} /\ MaxMade \in Nat /\ MaxSlips \in Nat

VARIABLES
    kind,       \* "http", "sql" or "vector"
    connected,  \* _connected
    current,    \* _client or _pool: the number of the pool, 0 for None
    made,       \* how many pools have been made
    open,       \* the pools whose connections have not been closed
    shut,       \* the pools that refuse requests: close has been called
    holder,     \* the task that holds _lock across an await
    lost,       \* <<pool, task>>: connections that were never given back
    active,     \* metrics.active_connections
    task,       \* where each task is, in which call, on which pool
    shaken,     \* history: tasks whose call a close may have disturbed
    clash,      \* history: pools made while another was being closed
    demand,     \* history: pools made by another call than connect
    half,       \* history: pools of a connect that did not succeed
    undead,     \* history: pools whose closing failed
    slipped     \* history: releases that ended before their bookkeeping

retriever == <<kind, connected>>
pool == <<current, made, open, shut, holder, lost>>
history == <<clash, demand, half, undead, slipped>>
vars == <<retriever, pool, active, task, shaken, history>>

Calls == {"connect", "disconnect", "query", "transaction", "health"}

Task == [at : {"idle", "locking", "creating", "acquiring", "using", "releasing",
               "sleeping", "closing"},
         op : Calls \cup {"none"},
         pool : Nat,              \* the pool it works on
         attempt : 0..Retries,    \* of _search
         how : {"none", "ok", "failed", "cancelled", "refused"}]

TypeOK ==
    /\ kind \in {"http", "sql", "vector"} /\ connected \in BOOLEAN
    /\ made \in Nat /\ current \in 0..made
    /\ open \subseteq 1..made /\ shut \subseteq 1..made
    /\ holder \in Tasks \cup {NoTask}
    /\ lost \subseteq (1..made) \X Tasks /\ active \in Nat
    /\ task \in [Tasks -> Task]
    /\ \A t \in Tasks : task[t].attempt < Retries /\ task[t].pool <= made
    /\ shaken \subseteq Tasks
    /\ clash \subseteq 1..made /\ demand \subseteq 1..made /\ half \subseteq 1..made
    /\ undead \subseteq 1..made
    /\ slipped \in Nat

Idle(how) == [at |-> "idle", op |-> "none", pool |-> 0, attempt |-> 0, how |-> how]

Init ==
    /\ kind \in {"http", "sql", "vector"} /\ connected = FALSE
    /\ current = 0 /\ made = 0 /\ open = {} /\ shut = {} /\ holder = NoTask
    /\ lost = {} /\ active = 0
    /\ task = [t \in Tasks |-> Idle("none")]
    /\ shaken = {} /\ clash = {} /\ demand = {} /\ half = {} /\ undead = {} /\ slipped = 0

At(t) == task[t].at
Op(t) == task[t].op
Mine(t) == task[t].pool
Closing == \E t \in Tasks : At(t) = "closing"
Users(p) == {t \in Tasks : \/ Mine(t) = p /\ At(t) \in {"using", "releasing"}
                          \/ <<p, t>> \in lost}

Become(t, where, o, p) ==
    task' = [task EXCEPT ![t] = [at |-> where, op |-> o, pool |-> p,
                                 attempt |-> @.attempt, how |-> "none"]]
Goto(t, where) == task' = [task EXCEPT ![t].at = where]
Ending(t, how) == task' = [task EXCEPT ![t].at = "releasing", ![t].how = how]

(* The call returns or raises; only a refusal is remembered. *)
Return(t) == task' = [task EXCEPT ![t] = Idle("none")]
Refused(t) == task' = [task EXCEPT ![t] = Idle("refused")]

(* A call begins.  It may be disturbed by a close under way, by one that   *)
(* has failed and left its pool behind, or by one that begins meanwhile.   *)
Begin(t) ==
    /\ At(t) = "idle" /\ made < MaxMade
    /\ shaken' = IF Closing \/ current \in undead THEN shaken \cup {t} ELSE shaken \ {t}

(* A new pool, made by connect or on demand. *)
Make(o) ==
    /\ made' = made + 1 /\ current' = made + 1 /\ open' = open \cup {made + 1}
    /\ clash' = IF Closing THEN clash \cup {made + 1} ELSE clash
    /\ demand' = IF o # "connect" THEN demand \cup {made + 1} ELSE demand

Keep == UNCHANGED <<made, current, open, clash, demand, undead>>

(* A connect that does not succeed leaves the pool it has made or found. *)
HalfOpen(t) == half' = IF Op(t) = "connect" /\ current # 0 THEN half \cup {current} ELSE half

-----------------------------------------------------------------------------
(* HTTPSessionManager and TavilyRetriever *)

(* connect: initialize has no await that suspends, and _test_connection    *)
(* only looks at the API key, which the constructor has required.          *)
HttpConnect(t) ==
    /\ kind = "http"
    /\ Begin(t)
    /\ IF current = 0 THEN Make("connect") ELSE Keep
    /\ connected' = TRUE
    /\ half' = half \ {current'}
    /\ Return(t)
    /\ UNCHANGED <<kind, shut, holder, lost, active, undead, slipped>>

(* session(): a missing client is made, whoever closed the last one; the   *)
(* first request on a client that is closed raises at once.                *)
EnterSession(t, o) ==
    /\ IF current = 0 THEN Make(o) ELSE Keep
    /\ IF current' \in shut
       THEN Refused(t) /\ UNCHANGED active
       ELSE Become(t, "using", o, current') /\ active' = active + 1

HttpBegin(t, o) ==
    /\ kind = "http" /\ connected
    /\ Begin(t)
    /\ EnterSession(t, o)
    /\ UNCHANGED <<retriever, shut, holder, lost, half, undead, slipped>>

HttpQuery(t) == HttpBegin(t, "query")

(* One HEAD request, tried once; whatever goes wrong is the answer. *)
HttpHealth(t) == HttpBegin(t, "health")

MayRetry(t) == Op(t) = "query" /\ task[t].attempt + 1 < Retries

Sleep(t) == task' = [task EXCEPT ![t].at = "sleeping", ![t].attempt = @ + 1]

(* Mutant: the session is released only when the request has not failed. *)
HttpKeepsOnError(t) ==
    /\ kind = "http" /\ At(t) = "using"
    /\ \/ Return(t) /\ active' \in {active - 1, active}
       \/ MayRetry(t) /\ Sleep(t) /\ active' = active - 1
    /\ UNCHANGED <<retriever, pool, shaken, history>>

(* The request ends and the session is released in the same step: with an  *)
(* answer, with an error (a Retry-After that is no number is one), or with *)
(* a 429 that is tried again after a sleep.                                *)
HttpDone(t) ==
    /\ kind = "http" /\ At(t) = "using"
    /\ active' = active - 1
    /\ \/ Return(t)
       \/ MayRetry(t) /\ Sleep(t)
    /\ UNCHANGED <<retriever, pool, shaken, history>>

(* Nothing looks at _connected again after the sleep. *)
Wake(t) ==
    /\ At(t) = "sleeping"
    /\ EnterSession(t, "query")
    /\ UNCHANGED <<retriever, shut, holder, lost, shaken, half, undead, slipped>>

-----------------------------------------------------------------------------
(* PostgreSQLPoolManager and PostgresRetriever *)

(* async with self._lock does not suspend when nobody holds or awaits it. *)
LockIsFree == holder = NoTask /\ \A u \in Tasks : At(u) # "locking"

(* initialize, under the lock: a pool that is there is taken as it is. *)
Locked(t, o) ==
    IF current # 0
    THEN Become(t, "acquiring", o, current) /\ UNCHANGED holder
    ELSE holder' = t /\ Become(t, "creating", o, 0)

Initialize(t, o) ==
    IF LockIsFree THEN Locked(t, o) ELSE Become(t, "locking", o, 0) /\ UNCHANGED holder

SqlConnect(t) ==
    /\ kind = "sql"
    /\ Begin(t)
    /\ Initialize(t, "connect")
    /\ UNCHANGED <<retriever, current, made, open, shut, lost, active, history>>

(* A query: retrieve, retrieve_prepared, execute and its kin, the compose  *)
(* methods; or transaction, in whose block the caller does what it likes.  *)
SqlQuery(t) ==
    /\ kind = "sql" /\ connected
    /\ Begin(t)
    /\ \E o \in {"query", "transaction"} :
           IF current # 0 THEN Become(t, "acquiring", o, current) /\ UNCHANGED holder
                          ELSE Initialize(t, o)
    /\ UNCHANGED <<retriever, current, made, open, shut, lost, active, history>>

(* A health check without a pool answers at once. *)
SqlHealth(t) ==
    /\ kind = "sql" /\ connected
    /\ Begin(t)
    /\ IF current # 0 THEN Become(t, "acquiring", "health", current) ELSE Return(t)
    /\ UNCHANGED <<retriever, pool, active, history>>

Lock(t) ==
    /\ At(t) = "locking" /\ holder = NoTask
    /\ Locked(t, Op(t))
    /\ UNCHANGED <<retriever, current, made, open, shut, lost, active, shaken, history>>

(* What connect does when its pool or the test of a connection has failed. *)
Disconnected(t) == connected' = (connected /\ Op(t) # "connect")

(* Mutant: the lock stays locked when create_pool raises. *)
CreatedOrStuck(t) ==
    /\ At(t) = "creating"
    /\ \/ Make(Op(t)) /\ Become(t, "acquiring", Op(t), made + 1) /\ holder' = NoTask
          /\ UNCHANGED connected
       \/ Return(t) /\ Disconnected(t) /\ Keep /\ UNCHANGED holder
    /\ UNCHANGED <<kind, shut, lost, active, shaken, half, undead, slipped>>

(* create_pool returns, or raises. *)
Created(t) ==
    /\ At(t) = "creating"
    /\ holder' = NoTask
    /\ \/ Make(Op(t)) /\ Become(t, "acquiring", Op(t), made + 1) /\ UNCHANGED connected
       \/ Return(t) /\ Disconnected(t) /\ Keep
    /\ UNCHANGED <<kind, shut, lost, active, shaken, half, undead, slipped>>

Free(p) == Cardinality(Users(p)) < MaxSize

(* pool.acquire: a connection is free.  A task that was queued when close  *)
(* was called may still get one.                                           *)
Acquire(t) ==
    /\ At(t) = "acquiring" /\ Mine(t) \in open
    /\ Free(Mine(t))
    /\ active' = active + 1
    /\ Goto(t, "using")
    /\ UNCHANGED <<retriever, pool, shaken, history>>

(* A pool that is closing refuses; one whose server is gone fails once it  *)
(* has a connection to give.  Until then the call waits: it has no timeout. *)
AcquireFails(t) ==
    /\ At(t) = "acquiring"
    /\ Mine(t) \in shut \/ Free(Mine(t))
    /\ IF Mine(t) \in shut THEN Refused(t) ELSE Return(t)
    /\ Disconnected(t) /\ HalfOpen(t)
    /\ UNCHANGED <<kind, pool, active, shaken, clash, demand, undead, slipped>>

(* The statement ends, or the task is cancelled in it; the finally block   *)
(* then awaits the release by the pool that is current now, be it the one  *)
(* the connection is from, another one or None: then the release raises,   *)
(* the connection is never given back and stays counted.                   *)
Finally(t, how) ==
    IF current = Mine(t)
    THEN Ending(t, how) /\ UNCHANGED <<connected, lost, half>>
    ELSE /\ Return(t) /\ lost' = lost \cup {<<Mine(t), t>>}
         /\ IF how = "cancelled" THEN UNCHANGED connected ELSE Disconnected(t)
         /\ HalfOpen(t)

SqlDone(t) ==
    /\ kind = "sql" /\ At(t) = "using"
    /\ \E how \in {"ok", "failed"} : Finally(t, how)
    /\ UNCHANGED <<kind, current, made, open, shut, holder, active, shaken, clash, demand, undead, slipped>>

(* Released.  connect, whose test has succeeded, sets _connected and goes  *)
(* on as the health check that it logs.                                    *)
Released(t) ==
    /\ At(t) = "releasing"
    /\ active' = active - 1
    /\ IF Op(t) = "connect" /\ task[t].how = "ok"
       THEN /\ connected' = TRUE
            /\ half' = half \ {current}
            /\ IF current # 0 THEN Become(t, "acquiring", "health", current) ELSE Return(t)
       ELSE /\ Return(t) /\ HalfOpen(t)
            /\ IF task[t].how = "failed" THEN Disconnected(t) ELSE UNCHANGED connected
    /\ UNCHANGED <<kind, pool, shaken, clash, demand, undead, slipped>>

-----------------------------------------------------------------------------
(* QdrantClientManager and QdrantRetriever.  A client is a pool of one;    *)
(* its calls block the loop, and one that is dropped without being closed  *)
(* goes with its last reference.                                           *)

(* get_client; the constructor of a new one may raise, and leaves none. *)
GetClient(o) == IF current = 0 THEN Make(o) ELSE Keep
NoClient == current = 0 /\ Keep

Vector(t) ==
    /\ kind = "vector"
    /\ Begin(t) /\ Return(t)
    /\ UNCHANGED <<kind, shut, holder, lost, active, undead, slipped>>

VectorConnect(t) ==
    /\ Vector(t)
    /\ \/ GetClient("connect") /\ connected' = TRUE /\ half' = half \ {current'}
       \/ GetClient("connect") /\ connected' = FALSE /\ half' = half \cup {current'}
       \/ NoClient /\ connected' = FALSE /\ UNCHANGED half

VectorQuery(t) ==
    /\ connected /\ Vector(t)
    /\ GetClient("query") \/ NoClient
    /\ UNCHANGED <<connected, half>>

(* A client that does not answer makes place for a new one, or for none. *)
Replaced ==
    \/ /\ made' = made + 1 /\ current' = made + 1 /\ open' = (open \ {current}) \cup {made + 1}
       /\ demand' = demand \cup {made + 1}
    \/ /\ current' = 0 /\ open' = open \ {current}
       /\ UNCHANGED <<made, demand>>

VectorHealth(t) ==
    /\ connected /\ Vector(t)
    /\ GetClient("health") \/ (Replaced /\ UNCHANGED clash)
    /\ UNCHANGED <<connected, half>>

VectorDisconnect(t) ==
    /\ Vector(t)
    /\ current' = 0 /\ open' = open \ {current} /\ connected' = FALSE
    /\ UNCHANGED <<made, clash, demand, half>>

-----------------------------------------------------------------------------
(* disconnect of the first two: close, then _connected *)

(* Mutant: the closed pool stays. *)
FlagDropped == current' = current /\ connected' = FALSE

Dropped == current' = 0 /\ connected' = FALSE

(* Without a pool there is nothing to await, nor with an HTTP client that  *)
(* is closed already.  From here on the pool refuses requests.             *)
Disconnect(t) ==
    /\ kind # "vector" /\ At(t) = "idle" /\ made < MaxMade
    /\ IF current = 0 \/ (kind = "http" /\ current \in shut)
       THEN Return(t) /\ Dropped /\ UNCHANGED <<shut, shaken>>
       ELSE /\ Become(t, "closing", "disconnect", current)
            /\ shut' = shut \cup {current}
            /\ shaken' = {u \in Tasks : At(u) # "idle"} \cup shaken
            /\ UNCHANGED <<current, connected>>
    /\ UNCHANGED <<kind, made, open, holder, lost, active, history>>

(* Mutant: the reference is dropped first, then the pool is closed, which  *)
(* may fail.                                                               *)
DropsUnclosed(t) ==
    /\ At(t) = "closing"
    /\ Return(t) /\ Dropped
    /\ UNCHANGED <<kind, made, open, shut, holder, lost, active, shaken, history>>

(* The closing ends: asyncpg waits until every connection is released.     *)
(* Whatever pool has been made meanwhile is what is dropped.               *)
Closed(t) ==
    /\ At(t) = "closing"
    /\ kind = "sql" => Users(Mine(t)) = {}
    /\ open' = open \ {Mine(t)}
    /\ Return(t) /\ Dropped
    /\ UNCHANGED <<kind, made, shut, holder, lost, active, shaken, history>>

(* aclose or close raises, or is cancelled: the pool is terminated, but    *)
(* stays where it was, and the retriever calls itself connected.           *)
CloseFails(t) ==
    /\ At(t) = "closing"
    /\ open' = open \ {Mine(t)} /\ undead' = undead \cup {Mine(t)}
    /\ Return(t)
    /\ UNCHANGED <<retriever, current, made, shut, holder, lost, active, shaken,
                   clash, demand, half, slipped>>

-----------------------------------------------------------------------------
(* A task is cancelled at its await. *)

Cancel(t) ==
    \/ CloseFails(t)
    \/ /\ At(t) \in {"locking", "acquiring", "sleeping"}
       /\ Return(t) /\ HalfOpen(t)
       /\ UNCHANGED <<retriever, pool, active, shaken, clash, demand, undead, slipped>>
    \/ /\ At(t) = "creating"
       /\ Return(t) /\ holder' = NoTask
       /\ UNCHANGED <<retriever, current, made, open, shut, lost, active, shaken, history>>
    \/ /\ At(t) = "using" /\ kind = "http"
       /\ Return(t) /\ active' = active - 1
       /\ UNCHANGED <<retriever, pool, shaken, history>>
    \/ /\ At(t) = "using" /\ kind = "sql"
       /\ Finally(t, "cancelled")
       /\ UNCHANGED <<kind, current, made, open, shut, holder, active, shaken, clash, demand, undead, slipped>>

(* The pool has the connection back, but the bookkeeping is skipped. *)
Slip(t) ==
    /\ At(t) = "releasing" /\ slipped < MaxSlips
    /\ Return(t) /\ slipped' = slipped + 1 /\ HalfOpen(t)
    /\ UNCHANGED <<kind, pool, active, shaken, clash, demand, undead>>

(* asyncpg shields the release itself, not what follows it. *)
CancelRelease(t) == Slip(t) /\ UNCHANGED connected

(* The reset of the connection fails: asyncpg terminates it and raises,    *)
(* whatever the call had come to.                                          *)
ReleaseFails(t) == Slip(t) /\ Disconnected(t)

-----------------------------------------------------------------------------

Next ==
    \E t \in Tasks :
        \/ HttpConnect(t) \/ SqlConnect(t) \/ Disconnect(t)
        \/ HttpQuery(t) \/ HttpHealth(t) \/ HttpDone(t) \/ Wake(t)
        \/ SqlQuery(t) \/ SqlHealth(t)
        \/ Lock(t) \/ Created(t) \/ Acquire(t) \/ AcquireFails(t) \/ SqlDone(t)
        \/ Released(t) \/ ReleaseFails(t)
        \/ VectorConnect(t) \/ VectorQuery(t) \/ VectorHealth(t) \/ VectorDisconnect(t)
        \/ Closed(t) \/ Cancel(t) \/ CancelRelease(t)

(* What a timeout of the code ends: create_pool, a request, a statement, a *)
(* release; and the pause of a retry.  The block of a transaction has none. *)
Timed(t) ==
    \/ HttpDone(t) \/ Wake(t) \/ Created(t) \/ Released(t)
    \/ SqlDone(t) /\ Op(t) # "transaction"

(* acquire and close have no timeout: the one is only served when there is *)
(* a connection to give, or no pool any more, the other only ends when all *)
(* connections are back.                                                   *)
Served(t) ==
    /\ Acquire(t) \/ AcquireFails(t)
    /\ Free(Mine(t)) \/ Mine(t) \notin open

Drained(t) ==
    /\ Closed(t) \/ CloseFails(t)
    /\ kind = "sql" => Users(Mine(t)) = {}

(* asyncio.Lock and the pool serve whoever waits in order of arrival. *)
Fairness ==
    \A t \in Tasks : WF_vars(Timed(t)) /\ SF_vars(Lock(t) \/ Served(t) \/ Drained(t))

Spec == Init /\ [][Next]_vars /\ Fairness

-----------------------------------------------------------------------------
(* Properties *)

Working(p) == \E t \in Tasks : Mine(t) = p

(* No pool is left behind.  One whose connections are open is the pool of  *)
(* a connected retriever, or some call still works on it; the exceptions,  *)
(* all of them: it was made while another was being closed, whose disconnect *)
(* then dropped it unseen, by a search that found none (it slept across a  *)
(* disconnect, say), or by a connect that did not succeed.                 *)
PoolsAreOwned ==
    \A p \in open :
        \/ p = current /\ connected
        \/ Working(p)
        \/ p \in clash \cup demand \cup half

(* A search or statement is refused by a closed pool only if a disconnect  *)
(* was under way during the call, or an earlier one had failed.            *)
RefusedOnlyByClose == \A t \in Tasks : task[t].how = "refused" => t \in shaken

(* active_connections counts the sessions and connections in use, except   *)
(* that a release that is cancelled or raises before its bookkeeping adds  *)
(* one for ever, and so does a connection that was never given back, which *)
(* only a pool made while another was being closed can lose.               *)
ConnectionsAreCounted ==
    /\ active = slipped + Cardinality(lost)
                + Cardinality({t \in Tasks : At(t) \in {"using", "releasing"}})
    /\ \A x \in lost : x[1] \in clash

(* Every call ends, whether its pool is closed under it, its server fails  *)
(* or others hold all connections; except one that waits, for a connection *)
(* or for the closing, on a pool with a connection that was never given    *)
(* back or that a caller keeps in a transaction: it may wait for ever.     *)
KeptBusy(p) ==
    \/ \E x \in lost : x[1] = p
    \/ \E u \in Tasks : At(u) = "using" /\ Op(u) = "transaction" /\ Mine(u) = p

CallsEnd == \A t \in Tasks : At(t) # "idle" ~> (At(t) = "idle" \/ KeptBusy(Mine(t)))
===============================================================================
