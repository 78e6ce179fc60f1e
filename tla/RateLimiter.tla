---------------------------- MODULE RateLimiter ----------------------------
(***************************************************************************)
(* RateLimitMiddleware without Redis (src/src/middleware/rate_limit.py):   *)
(* a sliding minute, a sliding hour and a token bucket per user.           *)
(*                                                                         *)
(* _check_memory_rate_limit holds self._lock and awaits nothing, so one    *)
(* call is one step.  The clock counts ticks; a second is Second ticks, so *)
(* that int(...) can be seen to lose something.  The tokens of a bucket    *)
(* are fractions of a request: they are counted in 1/Minute of a token,    *)
(* which makes the refill rate, requests_per_minute / 60 tokens a second,  *)
(* exactly PerMinute units a tick.                                         *)
(***************************************************************************)
EXTENDS Integers, FiniteSets

CONSTANTS Clients,      \* what _get_user_identifier returns
          PerMinute,    \* requests_per_minute
          PerHour,      \* requests_per_hour
          Burst,        \* burst_size
          Second,       \* ticks in a second
          Minute,       \* ticks in the short window (60 seconds)
          Hour,         \* ticks in the long window (3600 seconds)
          MaxTime,      \* bound on the clock
          MaxRequests   \* bound on the requests let through

ASSUME LimitsAssumption ==
    /\ PerMinute \in Nat \ {0} /\ PerHour \in Nat \ {0} /\ Burst \in Nat
    /\ Second \in Nat \ {0} /\ Minute \in Nat \ {0} /\ Hour \in Nat
    /\ Minute <= Hour
    /\ MaxTime \in Nat /\ MaxRequests \in Nat

VARIABLES now,          \* time.time(), taken never to step back
          requests,     \* _request_counts: the requests of a user let through
          bucket,       \* _token_buckets
          lastId,       \* requests let through so far (they are told apart by it)
          promise       \* history: the last retry_after a user was given

limiterVars == <<now, requests, bucket, lastId, promise>>

None == [at |-> -1, why |-> "none"]
NoBucket == [tokens |-> -1, last |-> -1]
Cap == Burst * Minute

LimiterInit ==
    /\ now = 0
    /\ requests = [u \in Clients |-> {}]
    /\ bucket = [u \in Clients |-> NoBucket]
    /\ lastId = 0
    /\ promise = [u \in Clients |-> None]

(* The requests of a user in the last span ticks.                          *)
Recent(u, span) == {r \in requests[u] : r.at > now - span}

(* Mutant: minute_requests > requests_per_minute instead of >=.            *)
OneTooMany(u) == Cardinality(Recent(u, Minute)) > PerMinute

MinuteFull(u) == Cardinality(Recent(u, Minute)) >= PerMinute
HourFull(u) == Cardinality(Recent(u, Hour)) >= PerHour

(* Mutant: the refill keeps the old last_refill, so time counts twice.     *)
RefillsTwice(b) ==
    LET gained == (now - b.last) * PerMinute
    IN  IF gained <= 0 THEN b
        ELSE [b EXCEPT !.tokens = IF @ + gained > Cap THEN Cap ELSE @ + gained]

(* The tokens a bucket has gained since it was last refilled.              *)
Refill(b) ==
    LET gained == (now - b.last) * PerMinute
    IN  IF gained <= 0 THEN b
        ELSE [tokens |-> IF b.tokens + gained > Cap THEN Cap ELSE b.tokens + gained,
              last |-> now]

(* _get_token_bucket: a new user gets a full bucket.                       *)
GetTokenBucket(u) ==
    IF bucket[u] = NoBucket THEN [tokens |-> Cap, last |-> now] ELSE Refill(bucket[u])

(* int(t) of a time in ticks: whole seconds, rounded down.                 *)
Whole(t) == (t \div Second) * Second

Oldest(rs) == CHOOSE r \in rs : \A s \in rs : r.at <= s.at

(* Mutant: min(requests) for either window, as the code has it for the     *)
(* hour, instead of the oldest request of the window in question.          *)
RetryFromOldest(u, span) == Whole(Oldest(requests[u]).at + span - now) + Second

(* retry_after when a window is full: its oldest request leaves it.        *)
WindowRetry(u, span) == Whole(Oldest(Recent(u, span)).at + span - now) + Second

(* retry_after when the bucket is empty.                                   *)
BucketRetry(b) ==
    LET wait == (Minute - (now - b.last) * PerMinute) \div (PerMinute * Second)
    IN  IF wait < 1 THEN Second ELSE wait * Second

Deny(u, why, after) == promise' = [promise EXCEPT ![u] = [at |-> now + after, why |-> why]]

(* Every call first drops the requests that are more than an hour old.     *)
Forget(u) == requests' = [requests EXCEPT ![u] = Recent(u, Hour)]

DenyMinute(u) ==
    /\ MinuteFull(u)
    /\ Forget(u)
    /\ Deny(u, "minute", WindowRetry(u, Minute))
    /\ UNCHANGED <<now, bucket, lastId>>

DenyHour(u) ==
    /\ ~MinuteFull(u)
    /\ HourFull(u)
    /\ Forget(u)
    /\ Deny(u, "hour", WindowRetry(u, Hour))
    /\ UNCHANGED <<now, bucket, lastId>>

DenyBurst(u) ==
    LET b == GetTokenBucket(u)
    IN  /\ ~MinuteFull(u)
        /\ ~HourFull(u)
        /\ b.tokens < Minute
        /\ Forget(u)
        /\ bucket' = [bucket EXCEPT ![u] = b]
        /\ Deny(u, "burst", BucketRetry(b))
        /\ UNCHANGED <<now, lastId>>

Admit(u) ==
    LET b == GetTokenBucket(u)
    IN  /\ ~MinuteFull(u)
        /\ ~HourFull(u)
        /\ b.tokens >= Minute
        /\ lastId < MaxRequests
        /\ lastId' = lastId + 1
        /\ requests' = [requests EXCEPT ![u] =
               Recent(u, Hour) \cup {[id |-> lastId + 1, at |-> now]}]
        /\ bucket' = [bucket EXCEPT ![u] = [b EXCEPT !.tokens = @ - Minute]]
        /\ promise' = [promise EXCEPT ![u] = None]
        /\ UNCHANGED now

(* get_usage_stats refills the bucket of a user that has one.              *)
UsageStats(u) ==
    /\ bucket' = IF bucket[u] = NoBucket THEN bucket
                 ELSE [bucket EXCEPT ![u] = GetTokenBucket(u)]
    /\ UNCHANGED <<now, requests, lastId, promise>>

Tick == /\ now < MaxTime
        /\ now' = now + 1
        /\ UNCHANGED <<requests, bucket, lastId, promise>>

LimiterNext ==
    \/ Tick
    \/ \E u \in Clients :
           DenyMinute(u) \/ DenyHour(u) \/ DenyBurst(u) \/ Admit(u) \/ UsageStats(u)

LimiterSpec == LimiterInit /\ [][LimiterNext]_limiterVars

----------------------------------------------------------------------------
(* Types: a bucket never holds more than burst_size tokens and never a     *)
(* negative number of them, and no request has a time ahead of the clock.  *)
LimiterTypeOK ==
    /\ now \in 0..MaxTime
    /\ lastId \in 0..MaxRequests
    /\ requests \in [Clients -> SUBSET [id : 1..lastId, at : 0..now]]
    /\ bucket \in [Clients -> {NoBucket} \cup [tokens : 0..Cap, last : 0..now]]
    /\ promise \in [Clients -> [at : Int, why : {"none", "minute", "hour", "burst"}]]

(* However the calls of a user fall, no window of a minute that ends now   *)
(* holds more requests let through than requests_per_minute, and no hour   *)
(* more than requests_per_hour (_check_memory_rate_limit).                 *)
WindowLimits ==
    \A u \in Clients : /\ Cardinality(Recent(u, Minute)) <= PerMinute
                     /\ Cardinality(Recent(u, Hour)) <= PerHour

(* The token bucket: from any moment of the last hour on, a user has got   *)
(* at most the burst plus what the refill rate yields in the time since;   *)
(* refills in several steps, by checks or by get_usage_stats, add nothing. *)
BurstBound ==
    \A u \in Clients : \A a \in 0..now :
        a > now - Hour =>
            Cardinality({r \in requests[u] : r.at >= a}) * Minute <= Cap + PerMinute * (now - a)

(* A step that breaks a retry_after: a user turned away by a limit comes   *)
(* back no earlier than told, nothing was let through for him in between,  *)
(* and the same limit turns him away again.                                *)
BreaksPromise(why) ==
    \E u \in Clients : /\ promise[u].why = why
                     /\ now >= promise[u].at
                     /\ promise'[u] /= promise[u]
                     /\ promise'[u].why = why

(* The retry_after of a full minute or hour can be relied on.              *)
WindowRetryHonoured == [][~BreaksPromise("minute") /\ ~BreaksPromise("hour")]_limiterVars
============================================================================
