----------------------------- MODULE SearchCache -----------------------------
(***************************************************************************)
(* A cached retriever under the search tools of the unified server:        *)
(* CachedRetriever (src/src/retrievers/cached_base.py) over RedisCache     *)
(* (src/src/cache/redis_cache.py), called by search_web, search_vectors,   *)
(* search_database, search_all and invalidate_cache of                     *)
(* src/src/server_unified.py.                                              *)
(*                                                                         *)
(* All calls share one retriever and its flag _use_cache.  A search tool   *)
(* saves the flag, clears it for a call with use_cache=False, and puts the *)
(* saved value back in its finally block, many awaits later.  The data     *)
(* source is an external service; what it holds for a key is a version,    *)
(* 0 while it has no rows.  Each Redis command is an action; any of them   *)
(* may fail, which RedisCache turns into a miss or into doing nothing.     *)
(***************************************************************************)
EXTENDS Naturals

CONSTANTS Keys,            \* cache keys: query, limit and keyword arguments
          Searches,        \* the searches that may be in progress at once
          Invalidations,   \* the invalidate_cache calls, likewise
          NoKey,           \* "no key", not a key
          UseCache,        \* use_cache of the retriever's configuration
          NoTtl,           \* "no cache_ttl argument", not a number
          RequestTtl,      \* the cache_ttl argument each key carries, if any
          DefaultTtl,      \* default_ttl of CacheConfig
          MaxTtl,          \* max_ttl of CacheConfig
          MaxVersion       \* bound on the changes of the source

ASSUME CacheAssumption ==
    /\ NoKey \notin Keys
    /\ UseCache \in BOOLEAN
    /\ NoTtl \notin Nat
    /\ RequestTtl \in [Keys -> Nat \cup {NoTtl}]
    /\ DefaultTtl \in Nat
    /\ MaxTtl \in Nat
    /\ MaxVersion \in Nat

VARIABLES
    phase,      \* "new", "up" or "down": the retriever's connection
    enabled,    \* history: the flag as connect left it
    useCache,   \* _use_cache
    cache,      \* Redis: key -> the rows stored and their TTL
    source,     \* what the data source holds for each key
    pc,         \* where each search is
    kind,       \* "cached", "bypass" (use_cache=False) or "plain" (search_all)
    key,        \* the key a search is for
    original,   \* original_use_cache
    rows,       \* the rows a search has, as the version it read
    began,      \* history: what the source held when a bypass began
    ipc,        \* where each invalidation is
    todo,       \* the matching keys its SCAN has not come to yet
    found,      \* the keys its SCAN has collected
    mark,       \* history: the versions this invalidation is to outdate
    dirty,      \* history: keys that had rows on the way when it began
    floor,      \* history: the versions completed invalidations outdated
    overlap     \* history: two search tools have been in progress at once

searchVars == <<pc, kind, key, original, rows, began>>
scanVars == <<ipc, todo, found, mark, dirty>>
history == <<enabled, floor, overlap>>
vars == <<phase, useCache, cache, source, searchVars, scanVars, history>>

Nothing == [version |-> 0, ttl |-> 0]      \* no entry under the key
Larger(a, b) == IF a > b THEN a ELSE b
Smaller(a, b) == IF a < b THEN a ELSE b

TypeOK ==
    /\ phase \in {"new", "up", "down"}
    /\ enabled \in BOOLEAN /\ useCache \in BOOLEAN /\ overlap \in BOOLEAN
    /\ cache \in [Keys -> [version : Nat, ttl : Nat]]
    /\ source \in [Keys -> Nat]
    /\ pc \in [Searches -> {"idle", "get", "fetch", "consider", "set", "report"}]
    /\ kind \in [Searches -> {"cached", "bypass", "plain"}]
    /\ key \in [Searches -> Keys \cup {NoKey}]
    /\ original \in [Searches -> BOOLEAN]
    /\ rows \in [Searches -> Nat]
    /\ began \in [Searches -> Nat]
    /\ ipc \in [Invalidations -> {"idle", "scan", "delete"}]
    /\ todo \in [Invalidations -> SUBSET Keys]
    /\ found \in [Invalidations -> SUBSET Keys]
    /\ mark \in [Invalidations -> [Keys -> Nat]]
    /\ dirty \in [Invalidations -> SUBSET Keys]
    /\ floor \in [Keys -> Nat]

NoMark == [k \in Keys |-> 0]

Init ==
    /\ phase = "new"
    /\ enabled = UseCache /\ useCache = UseCache /\ overlap = FALSE
    /\ cache = [k \in Keys |-> Nothing]
    /\ source \in [Keys -> {0, 1}]
    /\ pc = [s \in Searches |-> "idle"]
    /\ kind = [s \in Searches |-> "plain"]
    /\ key = [s \in Searches |-> NoKey]
    /\ original = [s \in Searches |-> FALSE]
    /\ rows = [s \in Searches |-> 0]
    /\ began = [s \in Searches |-> 0]
    /\ ipc = [i \in Invalidations |-> "idle"]
    /\ todo = [i \in Invalidations |-> {}]
    /\ found = [i \in Invalidations |-> {}]
    /\ mark = [i \in Invalidations |-> NoMark]
    /\ dirty = [i \in Invalidations |-> {}]
    /\ floor = NoMark

-----------------------------------------------------------------------------
(* CachedRetriever.connect and disconnect: a cache that cannot connect is  *)
(* switched off for good, the retriever itself stays usable.  RedisCache   *)
(* answers without Redis once it is disconnected.                          *)
(* RedisCache.connect ends with an answered ping or raises. *)
CacheOpened == useCache' = UseCache
CacheUnreachable == useCache' = FALSE

Connect ==
    /\ phase = "new"
    /\ phase' = "up"
    /\ CacheOpened \/ CacheUnreachable
    /\ enabled' = useCache'
    /\ UNCHANGED <<cache, source, searchVars, scanVars, floor, overlap>>

Disconnect ==
    /\ phase = "up"
    /\ phase' = "down"
    /\ UNCHANGED <<useCache, cache, source, searchVars, scanVars, history>>

(* The data source changes; an entry reaches its TTL or is evicted. *)
SourceChanges(k) ==
    /\ source[k] < MaxVersion
    /\ source' = [source EXCEPT ![k] = source[k] + 1]
    /\ UNCHANGED <<phase, useCache, cache, searchVars, scanVars, history>>

Expire(k) ==
    /\ cache[k] # Nothing
    /\ cache' = [cache EXCEPT ![k] = Nothing]
    /\ UNCHANGED <<phase, useCache, source, searchVars, scanVars, history>>

(* RedisCache.delete, which needs the connection. *)
DeleteEntry(k) == phase = "up" /\ Expire(k)

-----------------------------------------------------------------------------
(* The search tools *)

Toggles(s) == kind[s] # "plain"

(* retrieve looks into the cache only while the flag is set. *)
FirstStop(flag) == IF flag THEN "get" ELSE "fetch"

(* Mutant: the flag is read before it is cleared. *)
BypassReadsFlagFirst(s, d, k) ==
    /\ phase = "up" /\ pc[s] = "idle"
    /\ kind' = [kind EXCEPT ![s] = d]
    /\ key' = [key EXCEPT ![s] = k]
    /\ original' = [original EXCEPT ![s] = useCache /\ d # "plain"]
    /\ began' = [began EXCEPT ![s] = IF d = "bypass" THEN source[k] ELSE 0]
    /\ useCache' = (useCache /\ d # "bypass")
    /\ pc' = [pc EXCEPT ![s] = FirstStop(useCache)]
    /\ overlap' = (overlap \/ (d # "plain" /\
                     \E t \in Searches : pc[t] # "idle" /\ Toggles(t)))
    /\ UNCHANGED <<phase, cache, source, rows, scanVars, enabled, floor>>

(* From the tool's guards to the first await of retrieve: the flag is      *)
(* saved, cleared for use_cache=False and read in one step, for no await   *)
(* lies between.  search_all calls retrieve without touching the flag.     *)
BeginSearch(s, d, k) ==
    /\ phase = "up" /\ pc[s] = "idle"
    /\ kind' = [kind EXCEPT ![s] = d]
    /\ key' = [key EXCEPT ![s] = k]
    /\ original' = [original EXCEPT ![s] = useCache /\ d # "plain"]
    /\ began' = [began EXCEPT ![s] = IF d = "bypass" THEN source[k] ELSE 0]
    /\ useCache' = (useCache /\ d # "bypass")
    /\ pc' = [pc EXCEPT ![s] = FirstStop(useCache')]
    /\ overlap' = (overlap \/ (d # "plain" /\
                     \E t \in Searches : pc[t] # "idle" /\ Toggles(t)))
    /\ UNCHANGED <<phase, cache, source, rows, scanVars, enabled, floor>>

(* Mutant: a hit is written back with a new TTL. *)
HitRefreshes(s) ==
    /\ pc[s] = "get"
    /\ \/ /\ phase = "up" /\ cache[key[s]] # Nothing
          /\ rows' = [rows EXCEPT ![s] = cache[key[s]].version]
          /\ pc' = [pc EXCEPT ![s] = "set"]
       \/ /\ pc' = [pc EXCEPT ![s] = "fetch"]
          /\ UNCHANGED rows
    /\ UNCHANGED <<phase, useCache, cache, source, kind, key, original, began,
                   scanVars, history>>

(* RedisCache.get: an entry is a hit; no entry, no connection or an error  *)
(* is a miss.                                                              *)
Get(s) ==
    /\ pc[s] = "get"
    /\ \/ /\ phase = "up" /\ cache[key[s]] # Nothing
          /\ rows' = [rows EXCEPT ![s] = cache[key[s]].version]
          /\ pc' = [pc EXCEPT ![s] = "report"]
       \/ /\ pc' = [pc EXCEPT ![s] = "fetch"]
          /\ UNCHANGED rows
    /\ UNCHANGED <<phase, useCache, cache, source, kind, key, original, began,
                   scanVars, history>>

(* _retrieve_impl of the subclass reads the source. *)
Fetch(s) ==
    /\ pc[s] = "fetch"
    /\ rows' = [rows EXCEPT ![s] = source[key[s]]]
    /\ pc' = [pc EXCEPT ![s] = "consider"]
    /\ UNCHANGED <<phase, useCache, cache, source, kind, key, original, began,
                   scanVars, history>>

(* After the last row: store if the flag is set NOW and there are rows. *)
Consider(s) ==
    /\ pc[s] = "consider"
    /\ pc' = [pc EXCEPT ![s] = IF useCache /\ rows[s] # 0 THEN "set" ELSE "report"]
    /\ UNCHANGED <<phase, useCache, cache, source, kind, key, original, rows,
                   began, scanVars, history>>

(* Mutant: no cap. *)
TtlUncapped(k) == IF RequestTtl[k] = NoTtl THEN DefaultTtl ELSE RequestTtl[k]

(* RedisCache.set: max_ttl caps only a TTL that the caller asked for. *)
TtlFor(k) == IF RequestTtl[k] = NoTtl THEN DefaultTtl
             ELSE Smaller(RequestTtl[k], MaxTtl)

(* RedisCache.set: SETEX, or nothing when Redis fails. *)
SetEntry(s) ==
    /\ pc[s] = "set"
    /\ \/ /\ phase = "up"
          /\ cache' = [cache EXCEPT ![key[s]] =
                          [version |-> rows[s], ttl |-> TtlFor(key[s])]]
       \/ UNCHANGED cache
    /\ pc' = [pc EXCEPT ![s] = "report"]
    /\ UNCHANGED <<phase, useCache, source, kind, key, original, rows, began,
                   scanVars, history>>

(* Mutant: the flag is not restored. *)
ForgetsRestore(s) ==
    /\ pc[s] # "idle"
    /\ UNCHANGED useCache
    /\ pc' = [pc EXCEPT ![s] = "idle"]
    /\ kind' = [kind EXCEPT ![s] = "plain"]
    /\ key' = [key EXCEPT ![s] = NoKey]
    /\ original' = [original EXCEPT ![s] = FALSE]
    /\ rows' = [rows EXCEPT ![s] = 0]
    /\ began' = [began EXCEPT ![s] = 0]
    /\ UNCHANGED <<phase, cache, source, scanVars, history>>

(* The end of a tool, by its return or by an exception or a cancellation   *)
(* at any of its awaits: the finally block restores the saved flag.        *)
EndSearch(s) ==
    /\ pc[s] # "idle"
    /\ useCache' = IF Toggles(s) THEN original[s] ELSE useCache
    /\ pc' = [pc EXCEPT ![s] = "idle"]
    /\ kind' = [kind EXCEPT ![s] = "plain"]
    /\ key' = [key EXCEPT ![s] = NoKey]
    /\ original' = [original EXCEPT ![s] = FALSE]
    /\ rows' = [rows EXCEPT ![s] = 0]
    /\ began' = [began EXCEPT ![s] = 0]
    /\ UNCHANGED <<phase, cache, source, scanVars, history>>

-----------------------------------------------------------------------------
(* invalidate_cache: clear_namespace for no pattern, invalidate_pattern    *)
(* for one.  Both collect the keys by SCAN and delete them afterwards.     *)

Stored == {k \in Keys : cache[k] # Nothing}

(* A search that has read its rows and has not stored them yet. *)
Pending(k) == \E s \in Searches : pc[s] \in {"consider", "set"} /\ key[s] = k

FinishInvalidation(i) ==
    /\ ipc' = [ipc EXCEPT ![i] = "idle"]
    /\ todo' = [todo EXCEPT ![i] = {}]
    /\ found' = [found EXCEPT ![i] = {}]
    /\ mark' = [mark EXCEPT ![i] = NoMark]
    /\ dirty' = [dirty EXCEPT ![i] = {}]

SourceOf(P) == [k \in Keys |-> IF k \in P THEN source[k] ELSE 0]

(* With the flag cleared the call returns 0 and changes nothing. *)
BeginInvalidate(i, P) ==
    /\ phase = "up" /\ ipc[i] = "idle"
    /\ useCache
    /\ ipc' = [ipc EXCEPT ![i] = "scan"]
    /\ todo' = [todo EXCEPT ![i] = P]
    /\ mark' = [mark EXCEPT ![i] = SourceOf(P)]
    /\ dirty' = [dirty EXCEPT ![i] = {k \in P : Pending(k)}]
    /\ UNCHANGED <<phase, useCache, cache, source, searchVars, found, history>>

(* Without a pattern the whole namespace of the retriever goes. *)
ClearNamespace(i) == BeginInvalidate(i, Keys)
InvalidatePattern(i, P) == BeginInvalidate(i, P)

InvalidateCache(i) ==
    ClearNamespace(i) \/ \E P \in SUBSET Keys : InvalidatePattern(i, P)

(* SCAN returns every key that is there throughout; one that comes or goes *)
(* meanwhile is returned if it is there when the cursor passes.            *)
ScanKey(i, k) ==
    /\ ipc[i] = "scan" /\ k \in todo[i]
    /\ todo' = [todo EXCEPT ![i] = @ \ {k}]
    /\ found' = [found EXCEPT ![i] = IF k \in Stored THEN @ \cup {k} ELSE @]
    /\ UNCHANGED <<phase, useCache, cache, source, searchVars, ipc, mark, dirty,
                   history>>

(* The scan is over; DEL is sent only when it found something. *)
EndScan(i) ==
    /\ ipc[i] = "scan" /\ todo[i] = {}
    /\ ipc' = [ipc EXCEPT ![i] = "delete"]
    /\ UNCHANGED <<phase, useCache, cache, source, searchVars, todo, found, mark,
                   dirty, history>>

DeleteFound(i) ==
    /\ ipc[i] = "delete"
    /\ cache' = [k \in Keys |-> IF k \in found[i] THEN Nothing ELSE cache[k]]
    /\ floor' = [k \in Keys |-> IF k \in dirty[i] THEN floor[k]
                              ELSE Larger(floor[k], mark[i][k])]
    /\ FinishInvalidation(i)
    /\ UNCHANGED <<phase, useCache, source, searchVars, enabled, overlap>>

(* SCAN or DEL raises: logged, 0 returned. *)
InvalidateFails(i) ==
    /\ ipc[i] # "idle"
    /\ FinishInvalidation(i)
    /\ UNCHANGED <<phase, useCache, cache, source, searchVars, history>>

-----------------------------------------------------------------------------
Next ==
    \/ Connect \/ Disconnect
    \/ \E k \in Keys : SourceChanges(k) \/ Expire(k) \/ DeleteEntry(k)
    \/ \E s \in Searches :
          \/ \E d \in {"cached", "bypass", "plain"}, k \in Keys : BeginSearch(s, d, k)
          \/ Get(s) \/ Fetch(s) \/ Consider(s) \/ SetEntry(s) \/ EndSearch(s)
    \/ \E i \in Invalidations :
          \/ InvalidateCache(i)
          \/ \E k \in Keys : ScanKey(i, k)
          \/ EndScan(i) \/ DeleteFound(i) \/ InvalidateFails(i)

Spec == Init /\ [][Next]_vars

-----------------------------------------------------------------------------
Quiet == \A s \in Searches : pc[s] # "idle" => ~Toggles(s)

(* A call with use_cache=False answers with rows that are as recent as the *)
(* call itself, whatever other calls do to the shared flag meanwhile: the  *)
(* flag is cleared and read with no await in between.                      *)
BypassIsFresh ==
    \A s \in Searches :
        pc[s] = "report" /\ kind[s] = "bypass" => rows[s] >= began[s]

(* A cache that connect switched off, or that the configuration did not    *)
(* ask for, is never switched on by the flag that the tools save and       *)
(* restore, however their calls overlap.                                   *)
OffStaysOff == useCache => enabled

(* As long as no two tool calls have overlapped, the flag is back to what  *)
(* connect left once no tool is running.                                   *)
SerialCallsRestore == ~overlap /\ Quiet => (useCache = enabled)

(* The shared flag: saved and restored, it never switches on a cache that  *)
(* is off, and calls that do not overlap leave it as it was.               *)
FlagIsKept == OffStaysOff /\ SerialCallsRestore

(* What a completed invalidation outdated is not served again, but for     *)
(* keys whose old rows a search had in hand when the invalidation began.   *)
QuietInvalidationHolds ==
    \A k \in Keys : k \in Stored => cache[k].version >= floor[k]

(* No entry is written to live longer than max_ttl, when default_ttl does  *)
(* not exceed it; and an empty result is never stored.                     *)
EntriesAreBounded ==
    \A k \in Keys : k \in Stored => cache[k].ttl <= MaxTtl /\ cache[k].version > 0

=============================================================================
