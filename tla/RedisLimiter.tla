---------------------------- MODULE RedisLimiter ----------------------------
(***************************************************************************)
(* RedisRateLimiter (src/src/utils/redis_rate_limiter.py): a sliding       *)
(* window kept in one sorted set per user and changed by a Lua script.     *)
(*                                                                         *)
(* The script is atomic, the methods around it are not: the time a method  *)
(* works with is read before its first await, and Redis may stop and come  *)
(* back between two steps.  Redis keeps the sorted sets over a restart     *)
(* (appendonly, docker-compose.yml) but not its cache of scripts.          *)
(*                                                                         *)
(* Time counts ticks, Frac of them a second.  In the code a score is the   *)
(* time plus weight / 1000; here a tick stands for the thousandth, so a    *)
(* score is the time plus the weight.  Everybody asks with weight 1, as    *)
(* RateLimitMiddleware does, the only caller.                              *)
(***************************************************************************)
EXTENDS Integers, FiniteSets, FiniteSetsExt

CONSTANTS Users,         \* identifiers
          Calls,         \* concurrent calls of check_rate_limit or get_usage_stats
          Limit,         \* limit
          Window,        \* window_seconds, in ticks
          Buffer,        \* the 60 seconds by which a key outlives its window
          Frac,          \* ticks in a second
          NoUser,        \* no identifier
          MaxTime,       \* bound on the clock
          MaxAdmitted,   \* bound on the requests recorded
          MaxStops,      \* bound on the times Redis stops
          MaxCleanups    \* bound on the runs of cleanup_expired

ASSUME RedisLimiterAssumption ==
    /\ Limit \in Nat \ {0} /\ Window \in Nat \ {0} /\ Buffer \in Nat
    /\ Frac \in Nat \ {0} /\ NoUser \notin Users /\ IsFiniteSet(Calls)
    /\ MaxTime \in Nat /\ MaxAdmitted \in Nat
    /\ MaxStops \in Nat /\ MaxCleanups \in Nat

VARIABLES now,       \* time.time()
          up,        \* whether Redis answers
          script,    \* whether Redis has the script in its cache
          sha,       \* whether the limiter has a _script_sha
          zset,      \* the sorted sets: members and their scores
          where,     \* where a call is
          user,      \* its identifier
          at,        \* its current_time
          cleaner,   \* cleanup_expired: what it has scanned, seen and is to delete
          lastId, stops, cleanups,   \* counters for the bounds
          admitted,  \* history: the requests the script has let through
          raced      \* history: users whose key went with requests newer than the look at it

redisVars == <<up, script, stops>>
callVars == <<where, user, at>>
cleanVars == <<cleaner, cleanups, raced>>
windowVars == <<now, sha, zset, lastId, admitted, redisVars, callVars, cleanVars>>

Resting == [where |-> "idle", at |-> 0, left |-> {}, target |-> NoUser, seen |-> {}]

RedisInit ==
    /\ now = 0 /\ up = TRUE /\ script = FALSE /\ sha = FALSE
    /\ zset = [u \in Users |-> {}]
    /\ where = [c \in Calls |-> "idle"]
    /\ user = [c \in Calls |-> NoUser]
    /\ at = [c \in Calls |-> 0]
    /\ cleaner = Resting
    /\ lastId = 0 /\ stops = 0 /\ cleanups = 0
    /\ admitted = [u \in Users |-> {}]
    /\ raced = {}

----------------------------------------------------------------------------
(* The Lua script.                                                         *)

(* ZREMRANGEBYSCORE key -inf t - window.                                   *)
Trim(zs, t) == {e \in zs : e.score > t - Window}

(* Mutant: without "if req_weight == 0 then req_weight = 1".               *)
FractionOnly(e) == e.score % Frac

(* What the script takes for the weight of an entry: the fraction of its   *)
(* score, the fraction of the time it was made included.                   *)
Weight(e) == IF e.score % Frac = 0 THEN 1 ELSE e.score % Frac

Usage(zs) == FoldSet(LAMBDA e, sum : Weight(e) + sum, 0, zs)

(* int(score) of a time in ticks.                                          *)
Floor(t) == (t \div Frac) * Frac
Ceil(t) == -Floor(-t)

Lowest(zs) == Min({e.score : e \in zs})
Highest(zs) == Max({e.score : e \in zs})

(* retry_after: until the oldest request leaves the window.                *)
RetryAfter(zs, t) == IF zs = {} THEN Frac ELSE Ceil(Floor(Lowest(zs)) + Window - t)

Finish(c) == /\ where' = [where EXCEPT ![c] = "idle"]
             /\ user' = [user EXCEPT ![c] = NoUser]
             /\ at' = [at EXCEPT ![c] = 0]

(* check_rate_limit and get_usage_stats read the clock first.              *)
Begin(c, u, step) ==
    /\ where[c] = "idle"
    /\ where' = [where EXCEPT ![c] = step]
    /\ user' = [user EXCEPT ![c] = u]
    /\ at' = [at EXCEPT ![c] = now]
    /\ UNCHANGED <<now, sha, zset, lastId, admitted, redisVars, cleanVars>>

(* (The bound counts the checks on their way.)                             *)
BeginCheck(c, u) ==
    /\ lastId + Cardinality({d \in Calls : where[d] \in {"load", "eval"}}) < MaxAdmitted
    /\ Begin(c, u, IF sha THEN "eval" ELSE "load")

BeginStats(c, u) == Begin(c, u, "trim")

(* SCRIPT LOAD, once in the life of the limiter.                           *)
LoadScript(c) ==
    /\ where[c] = "load" /\ up
    /\ script' = TRUE
    /\ sha' = TRUE
    /\ where' = [where EXCEPT ![c] = "eval"]
    /\ UNCHANGED <<now, zset, lastId, admitted, up, stops, user, at, cleanVars>>

(* EVALSHA, the request is recorded.                                       *)
Allow(c) ==
    LET u == user[c]
        kept == Trim(zset[u], at[c])
    IN  /\ where[c] = "eval" /\ up /\ script
        /\ Usage(kept) + 1 <= Limit
        /\ lastId' = lastId + 1
        /\ zset' = [zset EXCEPT ![u] = kept \cup {[id |-> lastId + 1, score |-> at[c] + 1]}]
        /\ admitted' = [admitted EXCEPT ![u] = @ \cup {[id |-> lastId + 1, at |-> at[c]]}]
        /\ Finish(c)
        /\ UNCHANGED <<now, sha, redisVars, cleanVars>>

(* EVALSHA, the limit is reached.                                          *)
Refuse(c) ==
    LET u == user[c]
        kept == Trim(zset[u], at[c])
    IN  /\ where[c] = "eval" /\ up /\ script
        /\ Usage(kept) + 1 > Limit
        /\ zset' = [zset EXCEPT ![u] = kept]
        /\ Finish(c)
        /\ UNCHANGED <<now, sha, lastId, admitted, redisVars, cleanVars>>

(* Any error lets the request through: Redis is away, or it answers        *)
(* NOSCRIPT to EVALSHA.                                                    *)
Degrade(c) ==
    /\ \/ where[c] \in {"load", "eval"} /\ ~up
       \/ where[c] = "eval" /\ ~script
    /\ Finish(c)
    /\ UNCHANGED <<now, sha, zset, lastId, admitted, redisVars, cleanVars>>

(* get_usage_stats removes what is old by its own clock, then only reads.  *)
Stats(c) ==
    /\ where[c] = "trim"
    /\ zset' = IF up THEN [zset EXCEPT ![user[c]] = Trim(@, at[c])] ELSE zset
    /\ Finish(c)
    /\ UNCHANGED <<now, sha, lastId, admitted, redisVars, cleanVars>>

(* reset_limit: one DELETE; the user's count starts anew.                  *)
ResetLimit(u) ==
    /\ up /\ zset[u] # {}
    /\ zset' = [zset EXCEPT ![u] = {}]
    /\ admitted' = [admitted EXCEPT ![u] = {}]
    /\ UNCHANGED <<now, sha, lastId, redisVars, callVars, cleanVars>>

----------------------------------------------------------------------------
(* cleanup_expired.                                                        *)

(* The clock is read once, before the first SCAN.                          *)
BeginCleanup ==
    /\ cleaner.where = "idle" /\ up /\ cleanups < MaxCleanups
    /\ cleanups' = cleanups + 1
    /\ cleaner' = [Resting EXCEPT !.where = "look", !.at = now,
                                  !.left = {u \in Users : zset[u] # {}}]
    /\ UNCHANGED <<now, sha, zset, lastId, admitted, redisVars, callVars, raced>>

(* No entry, or only entries older than the window.                        *)
Expired(zs, t) == zs = {} \/ Floor(Highest(zs)) + Window < t

(* ZCARD and ZRANGE of one key of the batch.                               *)
Look(u) ==
    /\ cleaner.where = "look" /\ up /\ u \in cleaner.left
    /\ cleaner' = [cleaner EXCEPT !.left = @ \ {u},
           !.where = IF Expired(zset[u], cleaner.at) THEN "delete" ELSE @,
           !.target = IF Expired(zset[u], cleaner.at) THEN u ELSE @,
           !.seen = IF Expired(zset[u], cleaner.at) THEN zset[u] ELSE @]
    /\ UNCHANGED <<now, sha, zset, lastId, admitted, redisVars, callVars,
                   cleanups, raced>>

DeleteKey ==
    LET u == cleaner.target
    IN  /\ cleaner.where = "delete" /\ up
        /\ zset' = [zset EXCEPT ![u] = {}]
        /\ raced' = IF zset[u] \subseteq cleaner.seen THEN raced ELSE raced \cup {u}
        /\ cleaner' = [cleaner EXCEPT !.where = "look", !.target = NoUser, !.seen = {}]
        /\ UNCHANGED <<now, sha, lastId, admitted, redisVars, callVars, cleanups>>

(* All keys seen, or an error caught.                                      *)
EndCleanup ==
    /\ cleaner.where # "idle"
    /\ ~up \/ (cleaner.where = "look" /\ cleaner.left = {})
    /\ cleaner' = Resting
    /\ UNCHANGED <<now, sha, zset, lastId, admitted, redisVars, callVars,
                   cleanups, raced>>

----------------------------------------------------------------------------
(* Redis and the clock.                                                    *)

RedisStops ==
    /\ up /\ stops < MaxStops
    /\ up' = FALSE /\ script' = FALSE /\ stops' = stops + 1
    /\ UNCHANGED <<now, sha, zset, lastId, admitted, where, user, at, cleanVars>>

RedisStarts ==
    /\ ~up
    /\ up' = TRUE
    /\ UNCHANGED <<now, sha, zset, lastId, admitted, script, stops, callVars, cleanVars>>

(* EXPIRE key window + 60: no earlier than that after its last request.    *)
KeyExpires(u) ==
    /\ zset[u] # {} /\ now >= Highest(zset[u]) - 1 + Window + Buffer
    /\ zset' = [zset EXCEPT ![u] = {}]
    /\ UNCHANGED <<now, sha, lastId, admitted, redisVars, callVars, cleanVars>>

Tick == /\ now < MaxTime
        /\ now' = now + 1
        /\ UNCHANGED <<sha, zset, lastId, admitted, redisVars, callVars, cleanVars>>

RedisNext ==
    \/ \E c \in Calls :
          \/ \E u \in Users : BeginCheck(c, u) \/ BeginStats(c, u)
          \/ LoadScript(c) \/ Allow(c) \/ Refuse(c) \/ Degrade(c) \/ Stats(c)
    \/ \E u \in Users : ResetLimit(u) \/ Look(u) \/ KeyExpires(u)
    \/ BeginCleanup \/ DeleteKey \/ EndCleanup
    \/ RedisStops \/ RedisStarts \/ Tick

RedisSpec == RedisInit /\ [][RedisNext]_windowVars

----------------------------------------------------------------------------
(* Types: no score of a sorted set is ahead of the clock by more than the  *)
(* weight, and no identifier is above the last one given.                  *)
RedisTypeOK ==
    /\ now \in 0..MaxTime /\ up \in BOOLEAN /\ script \in BOOLEAN /\ sha \in BOOLEAN
    /\ lastId \in 0..MaxAdmitted /\ stops \in 0..MaxStops /\ cleanups \in 0..MaxCleanups
    /\ zset \in [Users -> SUBSET [id : 1..lastId, score : 1..(now + 1)]]
    /\ admitted \in [Users -> SUBSET [id : 1..lastId, at : 0..now]]
    /\ where \in [Calls -> {"idle", "load", "eval", "trim"}]
    /\ user \in [Calls -> Users \cup {NoUser}]
    /\ at \in [Calls -> 0..now]
    /\ raced \subseteq Users
    /\ cleaner \in [where : {"idle", "look", "delete"}, at : 0..now, left : SUBSET Users,
                    target : Users \cup {NoUser},
                    seen : SUBSET [id : 1..lastId, score : 1..(now + 1)]]

(* The requests of u let through with a time in the last span ticks.       *)
InLast(u, span) == {a \in admitted[u] : a.at > now - span}

(* The sliding window: whatever calls overlap, with clocks read before     *)
(* their awaits, and wherever Redis stops, no window that ends now holds   *)
(* more recorded requests of a user than the limit.  cleanup_expired       *)
(* compares whole seconds, so it may drop a request up to a second early;  *)
(* unless a request was recorded between its look at a key and the DELETE, *)
(* that second is all it costs.                                            *)
WithinLimit ==
    /\ cleanups = 0 => \A u \in Users : Cardinality(InLast(u, Window)) <= Limit
    /\ \A u \in Users \ raced : Cardinality(InLast(u, Window - Frac)) <= Limit
============================================================================
