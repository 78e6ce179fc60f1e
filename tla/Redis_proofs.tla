----------------------------- MODULE Redis_proofs -----------------------------
(***************************************************************************)
(* The two components that keep their state in Redis.                      *)
(*                                                                         *)
(* SearchCache: the flag of the cache, the freshness of a search that      *)
(* bypasses it, the bound on its entries and the effect of an              *)
(* invalidation.                                                           *)
(*                                                                         *)
(* RedisLimiter: the sliding window of the Lua script.                     *)
(***************************************************************************)
EXTENDS SearchCache, RedisLimiter, FiniteSetTheorems, WellFoundedInduction, TLAPS

(* A search in progress has a key. *)
HasKey == \A s \in Searches : pc[s] # "idle" => key[s] \in Keys

TypeInv == TypeOK /\ HasKey

LEMMA TypeInit == Init => TypeInv
<1> SUFFICES ASSUME Init PROVE TypeInv
  OBVIOUS
<1>1. enabled \in BOOLEAN /\ useCache \in BOOLEAN /\ overlap \in BOOLEAN
  BY CacheAssumption, Zenon DEF Init
<1>2. cache \in [Keys -> [version : Nat, ttl : Nat]] /\ source \in [Keys -> Nat]
  BY DEF Init, Nothing
<1>3. original \in [Searches -> BOOLEAN]
  BY Zenon DEF Init
<1>4. mark \in [Invalidations -> [Keys -> Nat]] /\ floor \in [Keys -> Nat]
  BY DEF Init, NoMark
<1> QED
  BY <1>1, <1>2, <1>3, <1>4 DEF Init, TypeInv, TypeOK, HasKey

LEMMA TtlType == ASSUME NEW k \in Keys PROVE TtlFor(k) \in Nat
BY CacheAssumption DEF TtlFor, Smaller

(* A step of a search that has its key and only moves on with its rows.    *)
LEMMA SearchMoves ==
  ASSUME TypeInv, NEW s \in Searches, pc[s] # "idle",
         \E place \in {"fetch", "consider", "set", "report"} : pc' = [pc EXCEPT ![s] = place],
         rows' \in [Searches -> Nat],
         UNCHANGED <<phase, useCache, cache, source, kind, key, original, began, scanVars, history>>
  PROVE  TypeInv'
<1>1. pc' \in [Searches -> {"idle", "get", "fetch", "consider", "set", "report"}]
  BY DEF TypeInv, TypeOK
<1>2. HasKey'
  BY DEF TypeInv, TypeOK, HasKey
<1> QED
  BY <1>1, <1>2 DEF TypeInv, TypeOK, scanVars, history

LEMMA TypeStep == TypeInv /\ [Next]_vars => TypeInv'
<1> SUFFICES ASSUME TypeInv, [Next]_vars PROVE TypeInv'
  OBVIOUS
<1> USE CacheAssumption DEF TypeInv, TypeOK, HasKey, searchVars, scanVars, history
<1>1. CASE UNCHANGED vars
  BY <1>1 DEF vars
<1>2. CASE Connect
  BY <1>2 DEF Connect, CacheOpened, CacheUnreachable
<1>3. CASE Disconnect
  BY <1>3 DEF Disconnect
<1>4. ASSUME NEW k \in Keys, SourceChanges(k) PROVE TypeInv'
  BY <1>4 DEF SourceChanges
<1>5. ASSUME NEW k \in Keys, Expire(k) PROVE TypeInv'
  BY <1>5 DEF Expire, Nothing
<1>6. ASSUME NEW s \in Searches, NEW d \in {"cached", "bypass", "plain"}, NEW k \in Keys,
             BeginSearch(s, d, k)
      PROVE  TypeInv'
  BY <1>6 DEF BeginSearch, FirstStop
<1>7. ASSUME NEW s \in Searches, Get(s) PROVE TypeInv'
  <2>1. key[s] \in Keys
    BY <1>7 DEF Get
  <2>2. cache[key[s]].version \in Nat
    BY <2>1
  <2>3. rows' \in [Searches -> Nat]
    BY <1>7, <2>2 DEF Get
  <2> HIDE DEF TypeInv, TypeOK, HasKey, searchVars, scanVars, history
  <2>4. /\ pc[s] # "idle"
        /\ \E place \in {"fetch", "consider", "set", "report"} : pc' = [pc EXCEPT ![s] = place]
    BY <1>7 DEF Get
  <2>5. UNCHANGED <<phase, useCache, cache, source, kind, key, original, began, scanVars, history>>
    BY <1>7 DEF Get
  <2> QED
    BY <2>3, <2>4, <2>5, SearchMoves
<1>8. ASSUME NEW s \in Searches, Fetch(s) PROVE TypeInv'
  <2>1. key[s] \in Keys
    BY <1>8 DEF Fetch
  <2>2. source[key[s]] \in Nat
    BY <2>1
  <2>3. rows' \in [Searches -> Nat]
    BY <1>8, <2>2 DEF Fetch
  <2> HIDE DEF TypeInv, TypeOK, HasKey, searchVars, scanVars, history
  <2>4. /\ pc[s] # "idle"
        /\ \E place \in {"fetch", "consider", "set", "report"} : pc' = [pc EXCEPT ![s] = place]
    BY <1>8 DEF Fetch
  <2>5. UNCHANGED <<phase, useCache, cache, source, kind, key, original, began, scanVars, history>>
    BY <1>8 DEF Fetch
  <2> QED
    BY <2>3, <2>4, <2>5, SearchMoves
<1>9. ASSUME NEW s \in Searches, Consider(s) PROVE TypeInv'
  <2>1. rows' \in [Searches -> Nat]
    BY <1>9 DEF Consider
  <2> HIDE DEF TypeInv, TypeOK, HasKey, searchVars, scanVars, history
  <2>2. /\ pc[s] # "idle"
        /\ \E place \in {"fetch", "consider", "set", "report"} : pc' = [pc EXCEPT ![s] = place]
    BY <1>9 DEF Consider
  <2>3. UNCHANGED <<phase, useCache, cache, source, kind, key, original, began, scanVars, history>>
    BY <1>9 DEF Consider
  <2> QED
    BY <2>1, <2>2, <2>3, SearchMoves
<1>10. ASSUME NEW s \in Searches, SetEntry(s) PROVE TypeInv'
  <2>1. key[s] \in Keys /\ TtlFor(key[s]) \in Nat
    BY <1>10, TtlType DEF SetEntry
  <2> DEFINE e == [version |-> rows[s], ttl |-> TtlFor(key[s])]
  <2>4. e \in [version : Nat, ttl : Nat]
    BY <2>1
  <2>5. cache' = cache \/ cache' = [cache EXCEPT ![key[s]] = e]
    BY <1>10 DEF SetEntry
  <2> HIDE DEF e
  <2>2. cache' \in [Keys -> [version : Nat, ttl : Nat]]
    BY <2>4, <2>5
  <2>3. /\ pc' = [pc EXCEPT ![s] = "report"]
        /\ UNCHANGED <<phase, useCache, source, kind, key, original, rows, began,
                       scanVars, history>>
    BY <1>10 DEF SetEntry
  <2>6. HasKey'
    BY <1>10, <2>3 DEF SetEntry
  <2>7. pc' \in [Searches -> {"idle", "get", "fetch", "consider", "set", "report"}]
    BY <2>3
  <2> QED
    BY <2>2, <2>3, <2>6, <2>7
<1>11. ASSUME NEW s \in Searches, EndSearch(s) PROVE TypeInv'
  <2>1. original[s] \in BOOLEAN
    OBVIOUS
  <2>2. useCache' \in BOOLEAN
    BY <1>11, <2>1, Zenon DEF EndSearch
  <2>3. /\ pc' = [pc EXCEPT ![s] = "idle"]
        /\ kind' = [kind EXCEPT ![s] = "plain"]
        /\ key' = [key EXCEPT ![s] = NoKey]
        /\ original' = [original EXCEPT ![s] = FALSE]
        /\ rows' = [rows EXCEPT ![s] = 0]
        /\ began' = [began EXCEPT ![s] = 0]
        /\ UNCHANGED <<phase, cache, source, scanVars, history>>
    BY <1>11 DEF EndSearch
  <2> QED
    BY <2>2, <2>3
<1>12. ASSUME NEW i \in Invalidations, NEW P \in SUBSET Keys, BeginInvalidate(i, P)
       PROVE  TypeInv'
  BY <1>12 DEF BeginInvalidate, SourceOf
<1>13. ASSUME NEW i \in Invalidations, NEW k \in Keys, ScanKey(i, k) PROVE TypeInv'
  BY <1>13 DEF ScanKey
<1>14. ASSUME NEW i \in Invalidations, EndScan(i) PROVE TypeInv'
  BY <1>14 DEF EndScan
<1>15. ASSUME NEW i \in Invalidations, DeleteFound(i) PROVE TypeInv'
  BY <1>15 DEF DeleteFound, FinishInvalidation, Nothing, NoMark, Larger
<1>16. ASSUME NEW i \in Invalidations, InvalidateFails(i) PROVE TypeInv'
  BY <1>16 DEF InvalidateFails, FinishInvalidation, NoMark
<1> QED
  BY <1>1, <1>2, <1>3, <1>4, <1>5, <1>6, <1>7, <1>8, <1>9, <1>10, <1>11, <1>12,
     <1>13, <1>14, <1>15, <1>16 DEF Next, DeleteEntry,
     InvalidateCache, ClearNamespace, InvalidatePattern

(* Every variable of the cache and its callers keeps its type. *)
THEOREM CacheTypeCorrect == Spec => []TypeOK
<1>1. TypeInv => TypeOK
  BY DEF TypeInv
<1> QED
  BY <1>1, TypeInit, TypeStep, PTL DEF Spec

-----------------------------------------------------------------------------
(* No saved flag is set unless connect left the flag set. *)
SavedOff == \A s \in Searches : original[s] => enabled /\ phase # "new"

OffInv == OffStaysOff /\ SavedOff

LEMMA OffStep == TypeInv /\ OffInv /\ [Next]_vars => OffInv'
<1> SUFFICES ASSUME TypeInv, OffInv, [Next]_vars PROVE OffInv'
  OBVIOUS
<1> USE DEF TypeInv, TypeOK, OffInv, OffStaysOff, SavedOff
<1>1. CASE Connect
  <2>1. SavedOff'
    BY <1>1 DEF Connect, CacheOpened, CacheUnreachable, searchVars
  <2> QED
    BY <1>1, <2>1 DEF Connect, CacheOpened, CacheUnreachable
<1>2. ASSUME NEW s \in Searches, NEW d \in {"cached", "bypass", "plain"}, NEW k \in Keys,
             BeginSearch(s, d, k)
      PROVE  OffInv'
  BY <1>2 DEF BeginSearch, FirstStop
<1>3. ASSUME NEW s \in Searches, EndSearch(s) PROVE OffInv'
  BY <1>3 DEF EndSearch, history
<1>4. CASE UNCHANGED <<useCache, enabled, original>> /\ (phase # "new" => phase' # "new")
  BY <1>4
<1> QED
  BY <1>1, <1>2, <1>3, <1>4 DEF Next, vars, DeleteEntry,
     InvalidateCache, ClearNamespace, InvalidatePattern, searchVars, scanVars, history, Disconnect,
     SourceChanges, Expire, Get, Fetch, Consider, SetEntry, BeginInvalidate,
     ScanKey, EndScan, DeleteFound, InvalidateFails

LEMMA OffInit == Init => OffInv
BY DEF Init, OffInv, OffStaysOff, SavedOff

(* Saving and restoring the flag never switches on a cache that connect    *)
(* left off (search_web, search_vectors, search_database).                 *)
THEOREM CacheStaysOff == Spec => []OffStaysOff
<1>1. OffInv => OffStaysOff
  BY DEF OffInv
<1> QED
  BY <1>1, TypeInit, TypeStep, OffInit, OffStep, PTL DEF Spec

-----------------------------------------------------------------------------
(* A bypass never reads the cache, and what it reads is not older than it. *)
FreshFor(s) ==
    kind[s] = "bypass" /\ pc[s] # "idle" =>
        /\ pc[s] # "get"
        /\ began[s] <= source[key[s]]
        /\ pc[s] # "fetch" => began[s] <= rows[s]

FreshInv == \A s \in Searches : FreshFor(s)

LEMMA FreshStep == TypeInv /\ FreshInv /\ [Next]_vars => FreshInv'
<1> SUFFICES ASSUME TypeInv, FreshInv, [Next]_vars, NEW t \in Searches
             PROVE  FreshFor(t)'
  BY DEF FreshInv
<1> USE DEF TypeInv, TypeOK, HasKey, FreshInv, FreshFor, searchVars
<1>1. ASSUME NEW k \in Keys, SourceChanges(k) PROVE FreshFor(t)'
  <2>1. UNCHANGED searchVars
    BY <1>1 DEF SourceChanges
  <2>2. CASE pc[t] = "idle"
    BY <2>1, <2>2
  <2>3. CASE pc[t] # "idle"
    <3>1. key[t] \in Keys
      BY <2>3
    <3>2. /\ source[key[t]] \in Nat /\ source'[key[t]] \in Nat /\ began[t] \in Nat
          /\ source[key[t]] <= source'[key[t]]
      BY <1>1, <3>1 DEF SourceChanges
    <3> QED
      BY <2>1, <3>2
  <2> QED
    BY <2>2, <2>3
<1>2. ASSUME NEW s \in Searches, NEW d \in {"cached", "bypass", "plain"}, NEW k \in Keys,
             BeginSearch(s, d, k)
      PROVE  FreshFor(t)'
  <2>1. CASE t = s /\ d = "bypass"
    <3>1. useCache' = FALSE
      BY <1>2, <2>1 DEF BeginSearch, FirstStop
    <3>2. pc'[t] = "fetch" /\ key'[t] = k /\ began'[t] = source[k] /\ source' = source
      BY <1>2, <2>1, <3>1 DEF BeginSearch, FirstStop
    <3> QED
      BY <3>2
  <2>2. CASE t = s /\ d # "bypass"
    BY <1>2, <2>2 DEF BeginSearch, FirstStop
  <2>3. CASE t # s
    <3>1. UNCHANGED <<source, kind[t], pc[t], key[t], began[t], rows[t]>>
      BY <1>2, <2>3 DEF BeginSearch, FirstStop
    <3> QED
      BY <3>1
  <2> QED
    BY <2>1, <2>2, <2>3
<1>3. ASSUME NEW s \in Searches, Get(s) PROVE FreshFor(t)'
  BY <1>3 DEF Get
<1>4. ASSUME NEW s \in Searches, Fetch(s) PROVE FreshFor(t)'
  <2>1. UNCHANGED <<source, key, kind, began>>
    BY <1>4 DEF Fetch
  <2>2. CASE t = s
    <3>1. rows'[t] = source[key[t]] /\ pc'[t] = "consider" /\ pc[t] = "fetch"
      BY <1>4, <2>2 DEF Fetch
    <3> QED
      BY <2>1, <3>1
  <2>3. CASE t # s
    <3>1. rows'[t] = rows[t] /\ pc'[t] = pc[t]
      BY <1>4, <2>3 DEF Fetch
    <3> QED
      BY <2>1, <3>1
  <2> QED
    BY <2>2, <2>3
<1>5. ASSUME NEW s \in Searches, Consider(s) PROVE FreshFor(t)'
  BY <1>5 DEF Consider
<1>6. ASSUME NEW s \in Searches, SetEntry(s) PROVE FreshFor(t)'
  BY <1>6 DEF SetEntry
<1>7. ASSUME NEW s \in Searches, EndSearch(s) PROVE FreshFor(t)'
  BY <1>7 DEF EndSearch
<1>8. CASE UNCHANGED <<source, searchVars>>
  BY <1>8
<1> QED
  BY <1>1, <1>2, <1>3, <1>4, <1>5, <1>6, <1>7, <1>8 DEF Next, vars, DeleteEntry,
     InvalidateCache, ClearNamespace, InvalidatePattern, Connect, Disconnect,
     Expire, BeginInvalidate, ScanKey, EndScan, DeleteFound, InvalidateFails

(* A search with use_cache=False answers with rows at least as recent as   *)
(* itself, under every interleaving of the calls that share the flag.      *)
THEOREM BypassAlwaysFresh == Spec => []BypassIsFresh
<1>1. Init => FreshInv
  BY DEF Init, FreshInv, FreshFor
<1>2. TypeInv /\ FreshInv => BypassIsFresh
  BY DEF TypeInv, TypeOK, FreshInv, FreshFor, BypassIsFresh
<1> QED
  BY <1>1, <1>2, TypeInit, TypeStep, FreshStep, PTL DEF Spec

-----------------------------------------------------------------------------
(* While calls have not overlapped, at most one tool is running, and it    *)
(* holds the value to put back.                                            *)
Running(s) == pc[s] # "idle" /\ Toggles(s)

Alone == \A s, t \in Searches : Running(s) /\ Running(t) => s = t
HoldsFlag == \A s \in Searches : Running(s) => original[s] = enabled

SerialInv == ~overlap => Alone /\ HoldsFlag /\ (Quiet => useCache = enabled)

(* Before connect nothing runs. *)
NoneEarly == phase = "new" => \A s \in Searches : pc[s] = "idle"

LEMMA NoneEarlyStep == TypeInv /\ NoneEarly /\ [Next]_vars => NoneEarly'
<1> SUFFICES ASSUME TypeInv, NoneEarly, [Next]_vars PROVE NoneEarly'
  OBVIOUS
<1> USE DEF TypeInv, TypeOK, NoneEarly, searchVars
<1>1. CASE phase' # "new"
  BY <1>1
<1>2. CASE UNCHANGED <<phase, pc>>
  BY <1>2
<1>3. ASSUME NEW s \in Searches, phase = "new", pc[s] # "idle" PROVE NoneEarly'
  BY <1>3
<1> QED
  BY <1>1, <1>2, <1>3 DEF Next, vars, DeleteEntry,
     InvalidateCache, ClearNamespace, InvalidatePattern, Connect, Disconnect, SourceChanges, Expire,
     BeginSearch, Get, Fetch, Consider, SetEntry, EndSearch, BeginInvalidate,
     ScanKey, EndScan, DeleteFound, InvalidateFails

LEMMA SerialStep == TypeInv /\ NoneEarly /\ SerialInv /\ [Next]_vars => SerialInv'
<1> SUFFICES ASSUME TypeInv, NoneEarly, SerialInv, [Next]_vars, ~overlap'
             PROVE  Alone' /\ HoldsFlag' /\ (Quiet => useCache = enabled)'
  BY DEF SerialInv
<1> USE DEF TypeInv, TypeOK, Running, Toggles, Alone, HoldsFlag, Quiet, SerialInv
<1>1. CASE Connect
  <2>1. \A s \in Searches : pc'[s] = "idle"
    BY <1>1 DEF Connect, CacheOpened, CacheUnreachable, NoneEarly, searchVars
  <2>2. useCache' = enabled'
    BY <1>1 DEF Connect, CacheOpened, CacheUnreachable
  <2> QED
    BY <2>1, <2>2
<1>2. ASSUME NEW s \in Searches, NEW d \in {"cached", "bypass", "plain"}, NEW k \in Keys,
             BeginSearch(s, d, k)
      PROVE  Alone' /\ HoldsFlag' /\ (Quiet => useCache = enabled)'
  <2>1. ~overlap /\ enabled' = enabled /\ pc[s] = "idle"
    BY <1>2 DEF BeginSearch, FirstStop
  <2>2. /\ kind'[s] = d /\ pc'[s] # "idle"
        /\ \A t \in Searches \ {s} : /\ pc'[t] = pc[t] /\ kind'[t] = kind[t]
                                     /\ original'[t] = original[t]
    BY <1>2 DEF BeginSearch, FirstStop
  <2>3. CASE d = "plain"
    <3>1. useCache' = useCache
      BY <1>2, <2>3 DEF BeginSearch, FirstStop
    <3> QED
      BY <2>1, <2>2, <2>3, <3>1
  <2>4. CASE d # "plain"
    <3>1. \A t \in Searches : pc[t] # "idle" => kind[t] = "plain"
      BY <1>2, <2>4 DEF BeginSearch, FirstStop
    <3>2. useCache = enabled
      BY <2>1, <3>1
    <3>3. original'[s] = useCache
      BY <1>2, <2>4 DEF BeginSearch, FirstStop
    <3>4. Alone' /\ HoldsFlag'
      BY <2>1, <2>2, <3>1, <3>2, <3>3
    <3>5. ~Quiet'
      BY <2>2, <2>4
    <3> QED
      BY <3>4, <3>5
  <2> QED
    BY <2>3, <2>4
<1>3. ASSUME NEW s \in Searches, EndSearch(s)
      PROVE  Alone' /\ HoldsFlag' /\ (Quiet => useCache = enabled)'
  <2>1. ~overlap /\ enabled' = enabled
    BY <1>3 DEF EndSearch, history
  <2>2. /\ pc'[s] = "idle" /\ pc[s] # "idle"
        /\ \A t \in Searches \ {s} : /\ pc'[t] = pc[t] /\ kind'[t] = kind[t]
                                     /\ original'[t] = original[t]
    BY <1>3 DEF EndSearch
  <2>3. Alone' /\ HoldsFlag'
    BY <2>1, <2>2
  <2>4. CASE kind[s] = "plain"
    <3>1. useCache' = useCache
      BY <1>3, <2>4 DEF EndSearch
    <3> QED
      BY <2>1, <2>2, <2>3, <2>4, <3>1
  <2>5. CASE kind[s] # "plain"
    <3>1. useCache' = original[s]
      BY <1>3, <2>5 DEF EndSearch
    <3>2. original[s] = enabled
      BY <2>1, <2>2, <2>5
    <3> QED
      BY <2>1, <2>3, <3>1, <3>2
  <2> QED
    BY <2>4, <2>5
<1>4. ASSUME NEW s \in Searches,
             pc[s] # "idle" /\ UNCHANGED <<overlap, enabled, useCache, kind, original>>,
             \/ pc' = [pc EXCEPT ![s] = "fetch"] \/ pc' = [pc EXCEPT ![s] = "consider"]
             \/ pc' = [pc EXCEPT ![s] = "set"] \/ pc' = [pc EXCEPT ![s] = "report"]
      PROVE  Alone' /\ HoldsFlag' /\ (Quiet => useCache = enabled)'
  <2>1. \A t \in Searches : pc'[t] # "idle" <=> pc[t] # "idle"
    BY <1>4
  <2> QED
    BY <1>4, <2>1
<1>5. CASE UNCHANGED <<overlap, enabled, useCache, kind, original, pc>>
  BY <1>5
<1>6. ASSUME NEW s \in Searches, Get(s) \/ Fetch(s) \/ Consider(s) \/ SetEntry(s)
      PROVE  Alone' /\ HoldsFlag' /\ (Quiet => useCache = enabled)'
  <2>1. pc[s] # "idle" /\ UNCHANGED <<overlap, enabled, useCache, kind, original>>
    BY <1>6 DEF Get, Fetch, Consider, SetEntry, history
  <2>2. \/ pc' = [pc EXCEPT ![s] = "fetch"] \/ pc' = [pc EXCEPT ![s] = "consider"]
        \/ pc' = [pc EXCEPT ![s] = "set"] \/ pc' = [pc EXCEPT ![s] = "report"]
    BY <1>6 DEF Get, Fetch, Consider, SetEntry
  <2> QED
    BY <1>4, <2>1, <2>2
<1> QED
  BY <1>1, <1>2, <1>3, <1>5, <1>6 DEF Next, vars, DeleteEntry,
     InvalidateCache, ClearNamespace, InvalidatePattern, searchVars, history, Disconnect,
     SourceChanges, Expire, BeginInvalidate, ScanKey, EndScan, DeleteFound,
     InvalidateFails

(* Calls that do not overlap leave the flag as connect left it.            *)
THEOREM SerialCallsAreHarmless == Spec => []SerialCallsRestore
<1>1. Init => SerialInv /\ NoneEarly
  BY DEF Init, SerialInv, NoneEarly, Alone, HoldsFlag, Quiet, Running
<1>2. SerialInv => SerialCallsRestore
  BY DEF SerialInv, SerialCallsRestore
<1> QED
  BY <1>1, <1>2, TypeInit, TypeStep, NoneEarlyStep, SerialStep, PTL DEF Spec

(* Both at once: no interleaving switches a cache on that is off, and calls *)
(* that never overlap leave the flag as connect did.                       *)
THEOREM FlagAlwaysKept == Spec => []FlagIsKept
<1>1. OffStaysOff /\ SerialCallsRestore => FlagIsKept
  BY DEF FlagIsKept
<1> QED
  BY <1>1, CacheStaysOff, SerialCallsAreHarmless, PTL

-----------------------------------------------------------------------------
(* A version that a completed invalidation outdated, or that a running one *)
(* is to outdate, is nowhere the invalidation will not reach: the source   *)
(* has moved on, no search has such rows in hand, and an entry that has    *)
(* such a version is among the keys the scan has yet to visit or has found.*)
InHand(s, k) == pc[s] \in {"consider", "set"} /\ key[s] = k

Passed(k, v) ==
    /\ v <= source[k]
    /\ \A s \in Searches : InHand(s, k) => v <= rows[s]

FloorInv ==
    \A k \in Keys :
        /\ Passed(k, floor[k])
        /\ k \in Stored => floor[k] <= cache[k].version

MarkInv ==
    \A i \in Invalidations, k \in Keys :
        k \notin dirty[i] =>
            /\ Passed(k, mark[i][k])
            /\ k \in Stored => \/ mark[i][k] <= cache[k].version
                               \/ k \in todo[i] \cup found[i]

ScanDone == \A i \in Invalidations : ipc[i] = "delete" => todo[i] = {}

InvalidationInv == FloorInv /\ MarkInv /\ ScanDone

(* A step of the searches or of the source outdates nothing it should not. *)
LEMMA PassedStep ==
    ASSUME TypeInv, NEW k \in Keys, NEW v \in Nat, Passed(k, v),
           \/ UNCHANGED <<source, searchVars>>
           \/ \E j \in Keys : SourceChanges(j)
           \/ \E s \in Searches, j \in Keys, d \in {"cached", "bypass", "plain"} :
                 BeginSearch(s, d, j)
           \/ \E s \in Searches : Get(s) \/ Fetch(s) \/ Consider(s) \/ SetEntry(s)
                                  \/ EndSearch(s)
    PROVE  Passed(k, v)'
<1> USE DEF TypeInv, TypeOK, HasKey, Passed, InHand, searchVars
<1>1. CASE UNCHANGED <<source, searchVars>>
  BY <1>1
<1>2. ASSUME NEW j \in Keys, SourceChanges(j) PROVE Passed(k, v)'
  BY <1>2 DEF SourceChanges
<1>3. ASSUME NEW s \in Searches, NEW j \in Keys, NEW d \in {"cached", "bypass", "plain"},
             BeginSearch(s, d, j)
      PROVE  Passed(k, v)'
  <2>1. /\ source' = source /\ rows' = rows
        /\ pc'[s] \notin {"consider", "set"}
        /\ \A t \in Searches \ {s} : pc'[t] = pc[t] /\ key'[t] = key[t]
    BY <1>3 DEF BeginSearch, FirstStop
  <2> QED
    BY <2>1
<1>4. ASSUME NEW s \in Searches, Get(s) PROVE Passed(k, v)'
  <2>1. /\ source' = source /\ key' = key
        /\ pc'[s] \notin {"consider", "set"}
        /\ \A t \in Searches \ {s} : pc'[t] = pc[t] /\ rows'[t] = rows[t]
    BY <1>4 DEF Get
  <2> QED
    BY <2>1
<1>5. ASSUME NEW s \in Searches, Fetch(s) PROVE Passed(k, v)'
  <2>1. /\ source' = source /\ key' = key
        /\ rows'[s] = source[key[s]]
        /\ \A t \in Searches \ {s} : pc'[t] = pc[t] /\ rows'[t] = rows[t]
    BY <1>5 DEF Fetch
  <2> QED
    BY <2>1
<1>6. ASSUME NEW s \in Searches, Consider(s) PROVE Passed(k, v)'
  <2>1. /\ source' = source /\ key' = key /\ rows' = rows
        /\ pc[s] = "consider"
        /\ \A t \in Searches \ {s} : pc'[t] = pc[t]
    BY <1>6 DEF Consider
  <2> QED
    BY <2>1
<1>7. ASSUME NEW s \in Searches, SetEntry(s) \/ EndSearch(s) PROVE Passed(k, v)'
  <2>1. /\ source' = source
        /\ pc'[s] \notin {"consider", "set"}
        /\ \A t \in Searches \ {s} : /\ pc'[t] = pc[t] /\ key'[t] = key[t]
                                     /\ rows'[t] = rows[t]
    BY <1>7 DEF SetEntry, EndSearch
  <2> QED
    BY <2>1
<1> QED
  BY <1>1, <1>2, <1>3, <1>4, <1>5, <1>6, <1>7

(* The part of the invariant about single keys moves on with the steps of  *)
(* the searches: entries come only from rows in hand, or go.               *)
LEMMA SearchesKeepInv ==
    ASSUME TypeInv, InvalidationInv, UNCHANGED <<scanVars, floor>>,
           \A k \in Keys, v \in Nat : Passed(k, v) => Passed(k, v)',
           \A k \in Keys : \/ cache'[k] = cache[k]
                           \/ cache'[k] = Nothing
                           \/ \E s \in Searches : InHand(s, k) /\ cache'[k].version = rows[s]
    PROVE  InvalidationInv'
<1> USE DEF TypeInv, TypeOK, InvalidationInv, scanVars
<1>1. ScanDone'
  BY DEF ScanDone
<1>2. ASSUME NEW k \in Keys, NEW v \in Nat, Passed(k, v), k \in Stored',
             k \in Stored => v <= cache[k].version
      PROVE  v <= cache'[k].version
  BY <1>2 DEF Stored, Passed
<1>3. FloorInv'
  BY <1>2 DEF FloorInv
<1>4. ASSUME NEW i \in Invalidations, NEW k \in Keys, k \notin dirty[i], k \in Stored'
      PROVE  \/ mark[i][k] <= cache'[k].version
             \/ k \in todo[i] \cup found[i]
  BY <1>2, <1>4 DEF MarkInv
<1>5. MarkInv'
  <2> SUFFICES ASSUME NEW i \in Invalidations, NEW k \in Keys, k \notin dirty'[i]
               PROVE  /\ Passed(k, mark[i][k])'
                      /\ k \in Stored' => \/ mark[i][k] <= cache'[k].version
                                          \/ k \in todo[i] \cup found[i]
    BY DEF MarkInv, Stored
  <2>1. mark[i][k] \in Nat /\ Passed(k, mark[i][k])
    BY DEF MarkInv
  <2>2. PICK v \in Nat : v = mark[i][k]
    BY <2>1
  <2>3. Passed(k, v)'
    BY <2>1, <2>2
  <2>4. Passed(k, mark[i][k])'
    BY <2>2, <2>3 DEF Passed
  <2> QED
    BY <1>4, <2>4
<1> QED
  BY <1>1, <1>3, <1>5

LEMMA InvalidationStep == TypeInv /\ InvalidationInv /\ [Next]_vars => InvalidationInv'
<1> SUFFICES ASSUME TypeInv, InvalidationInv, [Next]_vars PROVE InvalidationInv'
  OBVIOUS
<1>1. ASSUME UNCHANGED <<scanVars, floor>>,
             \/ UNCHANGED <<source, searchVars>>
             \/ \E j \in Keys : SourceChanges(j)
             \/ \E s \in Searches, j \in Keys, d \in {"cached", "bypass", "plain"} :
                   BeginSearch(s, d, j)
             \/ \E s \in Searches : Get(s) \/ Fetch(s) \/ Consider(s) \/ SetEntry(s)
                                    \/ EndSearch(s),
             \A k \in Keys : \/ cache'[k] = cache[k]
                             \/ cache'[k] = Nothing
                             \/ \E s \in Searches : InHand(s, k) /\ cache'[k].version = rows[s]
      PROVE  InvalidationInv'
  <2>1. \A k \in Keys, v \in Nat : Passed(k, v) => Passed(k, v)'
    BY <1>1, PassedStep
  <2> QED
    BY <1>1, <2>1, SearchesKeepInv
<1>2. CASE Connect \/ Disconnect \/ UNCHANGED vars
  BY <1>1, <1>2 DEF Connect, CacheOpened, CacheUnreachable, Disconnect, vars, history
<1>3. ASSUME NEW k \in Keys, SourceChanges(k) PROVE InvalidationInv'
  BY <1>1, <1>3 DEF SourceChanges, history
<1>4. ASSUME NEW k \in Keys, Expire(k) PROVE InvalidationInv'
  BY <1>1, <1>4 DEF Expire, history, TypeInv, TypeOK
<1>5. ASSUME NEW s \in Searches, NEW d \in {"cached", "bypass", "plain"}, NEW k \in Keys,
             BeginSearch(s, d, k)
      PROVE  InvalidationInv'
  BY <1>1, <1>5 DEF BeginSearch, FirstStop
<1>6. ASSUME NEW s \in Searches, Get(s) \/ Fetch(s) \/ Consider(s) \/ EndSearch(s)
      PROVE  InvalidationInv'
  BY <1>1, <1>6 DEF Get, Fetch, Consider, EndSearch, history
<1>7. ASSUME NEW s \in Searches, SetEntry(s) PROVE InvalidationInv'
  <2>1. \A k \in Keys : \/ cache'[k] = cache[k]
                        \/ InHand(s, k) /\ cache'[k].version = rows[s]
    BY <1>7 DEF SetEntry, InHand, TypeInv, TypeOK, HasKey
  <2>2. UNCHANGED <<scanVars, floor>>
    BY <1>7 DEF SetEntry, history
  <2> QED
    BY <1>1, <1>7, <2>1, <2>2
<1> USE DEF TypeInv, TypeOK, InvalidationInv
<1>8. ASSUME NEW i \in Invalidations, NEW P \in SUBSET Keys, BeginInvalidate(i, P)
      PROVE  InvalidationInv'
  <2>1. UNCHANGED <<source, searchVars, cache, floor, found>>
    BY <1>8 DEF BeginInvalidate, history
  <2>2. /\ ipc'[i] = "scan" /\ todo'[i] = P
        /\ mark'[i] = SourceOf(P) /\ dirty'[i] = {k \in P : Pending(k)}
        /\ \A j \in Invalidations \ {i} : /\ ipc'[j] = ipc[j] /\ todo'[j] = todo[j]
                                          /\ mark'[j] = mark[j] /\ dirty'[j] = dirty[j]
    BY <1>8 DEF BeginInvalidate
  <2>3. FloorInv'
    BY <2>1 DEF FloorInv, Passed, InHand, Stored, searchVars
  <2>4. ScanDone'
    BY <2>2 DEF ScanDone
  <2>5. ASSUME NEW j \in Invalidations, NEW k \in Keys, k \notin dirty'[j]
        PROVE  /\ Passed(k, mark[j][k])'
               /\ k \in Stored' => \/ mark'[j][k] <= cache'[k].version
                                   \/ k \in todo'[j] \cup found'[j]
    <3>1. CASE j = i /\ k \in P
      BY <2>1, <2>2, <2>5, <3>1 DEF SourceOf, Pending, Passed, InHand, searchVars
    <3>2. CASE j = i /\ k \notin P
      BY <2>1, <2>2, <3>2 DEF SourceOf, Passed, Stored, Nothing, searchVars
    <3>3. CASE j # i
      BY <2>1, <2>2, <2>5, <3>3 DEF MarkInv, Passed, InHand, Stored, searchVars
    <3> QED
      BY <3>1, <3>2, <3>3
  <2> QED
    BY <2>3, <2>4, <2>5 DEF MarkInv
<1>9. ASSUME NEW i \in Invalidations, NEW k \in Keys, ScanKey(i, k) PROVE InvalidationInv'
  <2>1. UNCHANGED <<source, searchVars, cache, floor, ipc, mark, dirty>>
    BY <1>9 DEF ScanKey, history
  <2>2. FloorInv'
    BY <2>1 DEF FloorInv, Passed, InHand, Stored, searchVars
  <2>3. ScanDone'
    BY <1>9, <2>1 DEF ScanDone, ScanKey
  <2>4. \A j \in Invalidations, l \in Stored :
            l \in todo[j] \cup found[j] => l \in todo'[j] \cup found'[j]
    BY <1>9 DEF ScanKey
  <2>5. MarkInv'
    BY <2>1, <2>4 DEF MarkInv, Passed, InHand, Stored, searchVars
  <2> QED
    BY <2>2, <2>3, <2>5
<1>10. ASSUME NEW i \in Invalidations, EndScan(i) PROVE InvalidationInv'
  <2>1. UNCHANGED <<source, searchVars, cache, floor, todo, found, mark, dirty>>
    BY <1>10 DEF EndScan, history
  <2>2. ScanDone'
    BY <1>10 DEF EndScan, ScanDone
  <2> QED
    BY <2>1, <2>2 DEF FloorInv, MarkInv, Passed, InHand, Stored, searchVars
<1>11. ASSUME NEW i \in Invalidations, FinishInvalidation(i),
              UNCHANGED <<source, searchVars>>,
              \A k \in Keys : cache'[k] = cache[k] \/ cache'[k] = Nothing
       PROVE  MarkInv' /\ ScanDone'
  <2>1. /\ ipc'[i] = "idle" /\ mark'[i] = NoMark
        /\ \A j \in Invalidations \ {i} : /\ ipc'[j] = ipc[j] /\ todo'[j] = todo[j]
                                          /\ found'[j] = found[j]
                                          /\ mark'[j] = mark[j] /\ dirty'[j] = dirty[j]
    BY <1>11 DEF FinishInvalidation
  <2>2. ScanDone'
    BY <2>1 DEF ScanDone
  <2>3. ASSUME NEW j \in Invalidations, NEW k \in Keys, k \notin dirty'[j]
        PROVE  /\ Passed(k, mark[j][k])'
               /\ k \in Stored' => \/ mark'[j][k] <= cache'[k].version
                                   \/ k \in todo'[j] \cup found'[j]
    <3>1. CASE j = i
      <4>1. mark'[j][k] = 0
        BY <2>1, <3>1 DEF NoMark
      <4>2. cache'[k].version \in Nat /\ source[k] \in Nat
        <5>1. Nothing.version = 0 /\ cache[k].version \in Nat /\ source[k] \in Nat
          BY DEF Nothing
        <5>2. cache'[k] = cache[k] \/ cache'[k] = Nothing
          BY <1>11
        <5> QED
          BY <5>1, <5>2, SMT
      <4> QED
        BY <1>11, <4>1, <4>2 DEF Passed, searchVars
    <3>2. CASE j # i
      BY <1>11, <2>1, <2>3, <3>2 DEF MarkInv, Passed, InHand, Stored, searchVars
    <3> QED
      BY <3>1, <3>2
  <2> QED
    BY <2>2, <2>3 DEF MarkInv
<1>12. ASSUME NEW i \in Invalidations, DeleteFound(i) PROVE InvalidationInv'
  <2>1. UNCHANGED <<source, searchVars>> /\ FinishInvalidation(i) /\ todo[i] = {}
    BY <1>12 DEF DeleteFound, ScanDone
  <2>2. \A k \in Keys : cache'[k] = IF k \in found[i] THEN Nothing ELSE cache[k]
    BY <1>12 DEF DeleteFound
  <2>3. MarkInv' /\ ScanDone'
    BY <1>11, <2>1, <2>2
  <2>4. ASSUME NEW k \in Keys
        PROVE  Passed(k, floor[k])' /\ (k \in Stored' => floor'[k] <= cache'[k].version)
    <3>1. \/ floor'[k] = floor[k]
          \/ floor'[k] = mark[i][k] /\ k \notin dirty[i]
      BY <1>12 DEF DeleteFound, Larger
    <3>2. CASE floor'[k] = floor[k]
      BY <2>1, <2>2, <3>2 DEF FloorInv, Passed, InHand, Stored, searchVars
    <3>3. CASE floor'[k] = mark[i][k] /\ k \notin dirty[i]
      BY <2>1, <2>2, <3>3 DEF MarkInv, Passed, InHand, Stored, searchVars
    <3> QED
      BY <3>1, <3>2, <3>3
  <2> QED
    BY <2>3, <2>4 DEF FloorInv
<1>13. ASSUME NEW i \in Invalidations, InvalidateFails(i) PROVE InvalidationInv'
  <2>1. UNCHANGED <<source, searchVars, cache, floor>> /\ FinishInvalidation(i)
    BY <1>13 DEF InvalidateFails, history
  <2>2. MarkInv' /\ ScanDone'
    BY <1>11, <2>1
  <2> QED
    BY <2>1, <2>2 DEF FloorInv, Passed, InHand, Stored, searchVars
<1> QED
  BY <1>2, <1>3, <1>4, <1>5, <1>6, <1>7, <1>8, <1>9, <1>10, <1>12, <1>13 DEF Next, DeleteEntry,
     InvalidateCache, ClearNamespace, InvalidatePattern

(* Versions that a completed invalidate_cache outdated are not in the      *)
(* cache again, but for keys whose old rows were on their way when it      *)
(* began: its SCAN misses no entry that was there.                         *)
THEOREM InvalidationIsComplete == Spec => []QuietInvalidationHolds
<1>1. Init => InvalidationInv
  <2> SUFFICES ASSUME Init PROVE InvalidationInv
    OBVIOUS
  <2>1. Stored = {}
    BY DEF Init, Stored
  <2>2. \A s \in Searches, k \in Keys : ~InHand(s, k)
    BY DEF Init, InHand
  <2>3. \A k \in Keys : 0 <= source[k]
    BY TypeInit DEF TypeInv, TypeOK
  <2>4. \A i \in Invalidations, k \in Keys : mark[i][k] = 0
    BY DEF Init, NoMark
  <2>8. ScanDone
    BY DEF Init, ScanDone
  <2>5. \A k \in Keys : floor[k] = 0
    BY DEF Init, NoMark
  <2>6. FloorInv
    BY <2>1, <2>2, <2>3, <2>5 DEF FloorInv, Passed
  <2>7. MarkInv
    BY <2>1, <2>2, <2>3, <2>4 DEF MarkInv, Passed
  <2> QED
    BY <2>6, <2>7, <2>8 DEF InvalidationInv
<1>2. TypeInv /\ InvalidationInv => QuietInvalidationHolds
  BY DEF TypeInv, TypeOK, InvalidationInv, FloorInv, QuietInvalidationHolds
<1> QED
  BY <1>1, <1>2, TypeInit, TypeStep, InvalidationStep, PTL DEF Spec

-----------------------------------------------------------------------------
(* Only a search with rows comes to store them.                            *)
StoresRows == \A s \in Searches : pc[s] = "set" => rows[s] # 0

EntriesInv == EntriesAreBounded /\ StoresRows

LEMMA TtlCapped ==
  ASSUME DefaultTtl <= MaxTtl, NEW k \in Keys
  PROVE  TtlFor(k) <= MaxTtl
BY CacheAssumption DEF TtlFor, Smaller

(* Steps of a search that leave the cache alone.                           *)
LEMMA StoresRowsStep == TypeInv /\ StoresRows /\ [Next]_vars => StoresRows'
<1> SUFFICES ASSUME TypeInv, StoresRows, [Next]_vars, NEW t \in Searches, pc'[t] = "set"
             PROVE  rows'[t] # 0
  BY DEF StoresRows
<1> USE DEF TypeInv, TypeOK, StoresRows, searchVars
<1>1. ASSUME NEW s \in Searches, NEW d \in {"cached", "bypass", "plain"}, NEW k \in Keys,
             BeginSearch(s, d, k)
      PROVE  rows'[t] # 0
  BY <1>1 DEF BeginSearch, FirstStop
<1>2. ASSUME NEW s \in Searches, Get(s) PROVE rows'[t] # 0
  BY <1>2 DEF Get
<1>3. ASSUME NEW s \in Searches, Fetch(s) PROVE rows'[t] # 0
  BY <1>3 DEF Fetch
<1>4. ASSUME NEW s \in Searches, Consider(s) PROVE rows'[t] # 0
  BY <1>4 DEF Consider
<1>5. ASSUME NEW s \in Searches, SetEntry(s) PROVE rows'[t] # 0
  BY <1>5 DEF SetEntry
<1>6. ASSUME NEW s \in Searches, EndSearch(s) PROVE rows'[t] # 0
  BY <1>6 DEF EndSearch
<1>7. CASE UNCHANGED searchVars
  BY <1>7
<1> QED
  BY <1>1, <1>2, <1>3, <1>4, <1>5, <1>6, <1>7 DEF Next, vars, DeleteEntry,
     InvalidateCache, ClearNamespace, InvalidatePattern, Connect, Disconnect,
     SourceChanges, Expire, BeginInvalidate, ScanKey, EndScan, DeleteFound,
     InvalidateFails

LEMMA BoundedStep ==
  ASSUME DefaultTtl <= MaxTtl
  PROVE  TypeInv /\ EntriesInv /\ [Next]_vars => EntriesAreBounded'
<1> SUFFICES ASSUME TypeInv, EntriesInv, [Next]_vars,
                    NEW k \in Keys, cache'[k] # Nothing
             PROVE  cache'[k].ttl <= MaxTtl /\ cache'[k].version > 0
  BY DEF EntriesAreBounded, Stored
<1> USE DEF TypeInv, TypeOK
<1>1. CASE cache'[k] = cache[k]
  BY <1>1 DEF EntriesInv, EntriesAreBounded, Stored
<1>2. ASSUME NEW x \in Keys, Expire(x) PROVE cache'[k] = cache[k]
  BY <1>2 DEF Expire
<1>3. ASSUME NEW s \in Searches, SetEntry(s), cache'[k] # cache[k]
      PROVE  cache'[k].ttl <= MaxTtl /\ cache'[k].version > 0
  <2>1. cache'[k] = [version |-> rows[s], ttl |-> TtlFor(key[s])] /\ key[s] = k
    BY <1>3 DEF SetEntry
  <2>2. rows[s] \in Nat /\ rows[s] # 0
    BY <1>3 DEF SetEntry, EntriesInv, StoresRows
  <2>3. TtlFor(k) <= MaxTtl
    BY TtlCapped
  <2> QED
    BY <2>1, <2>2, <2>3
<1>4. ASSUME NEW i \in Invalidations, DeleteFound(i) PROVE cache'[k] = cache[k]
  BY <1>4 DEF DeleteFound
<1> QED
  BY <1>1, <1>2, <1>3, <1>4 DEF Next, vars, DeleteEntry,
     InvalidateCache, ClearNamespace, InvalidatePattern, Connect, Disconnect,
     SourceChanges, BeginSearch, Get, Fetch, Consider, EndSearch,
     BeginInvalidate, ScanKey, EndScan, InvalidateFails

(* As long as default_ttl does not exceed max_ttl, no entry of Redis was   *)
(* written to live longer than max_ttl, and none stands for an empty       *)
(* result, whatever searches, invalidations and the source do meanwhile.   *)
THEOREM EntriesStayBounded ==
  ASSUME DefaultTtl <= MaxTtl
  PROVE  Spec => []EntriesAreBounded
<1>1. Init => EntriesInv
  BY DEF Init, EntriesInv, EntriesAreBounded, StoresRows, Stored
<1>2. TypeInv /\ EntriesInv /\ [Next]_vars => EntriesInv'
  BY BoundedStep, StoresRowsStep DEF EntriesInv
<1>3. EntriesInv => EntriesAreBounded
  BY DEF EntriesInv
<1> QED
  BY <1>1, <1>2, <1>3, TypeInit, TypeStep, PTL DEF Spec

--------------------------------------------------------------------------------
(* RedisLimiter: the invariant.                                            *)

(* A request as the sorted set has it.                                     *)
Entry(a) == [id |-> a.id, score |-> a.at + 1]

(* The requests of u of the last span ticks are all in its sorted set, and *)
(* no more than the limit.                                                 *)
Covers(u, span) == /\ \A a \in InLast(u, span) : Entry(a) \in zset[u]
                   /\ Cardinality(InLast(u, span)) <= Limit

Entries(t) == [id : Nat, score : 1..(t + 1)]

ClockTypes == now \in Nat /\ lastId \in Nat /\ cleanups \in Nat

SetTypes == /\ zset \in [Users -> SUBSET Entries(now)]
            /\ admitted \in [Users -> SUBSET [id : Nat, at : 0..now]]
            /\ \A u \in Users : IsFiniteSet(zset[u]) /\ IsFiniteSet(admitted[u])

AskTypes == /\ where \in [Calls -> {"idle", "load", "eval", "trim"}]
            /\ user \in [Calls -> Users \cup {NoUser}]
            /\ at \in [Calls -> 0..now]
            /\ \A c \in Calls : where[c] # "idle" => user[c] \in Users

(* A key about to be deleted had, when it was looked at, nothing that is   *)
(* less than a second short of being older than the window.                *)
Sweep == /\ cleaner \in [where : {"idle", "look", "delete"}, at : 0..now, left : SUBSET Users,
                         target : Users \cup {NoUser}, seen : SUBSET Entries(now)]
         /\ cleaner.where # "idle" => cleanups >= 1
         /\ cleaner.where = "delete" =>
               /\ cleaner.target \in Users
               /\ \A e \in cleaner.seen : e.score < cleaner.at - Window + Frac

WindowTypes == ClockTypes /\ SetTypes /\ AskTypes /\ Sweep

WindowInv ==
    /\ WindowTypes
    /\ cleanups = 0 => \A u \in Users : Covers(u, Window)
    /\ \A u \in Users \ raced : Covers(u, Window - Frac)

-----------------------------------------------------------------------------
(* The weight of a sorted set is at least the number of its entries.       *)

LEMMA WeightIs ==
    ASSUME NEW e, e.score \in Nat
    PROVE  Weight(e) \in Nat /\ Weight(e) >= 1
<1>1. Frac \in Nat \ {0}
    BY RedisLimiterAssumption
<1>2. e.score % Frac \in 0..(Frac - 1)
    BY <1>1
<1> QED BY <1>1, <1>2 DEF Weight

Adds(zs, f) ==
    f = [s \in SUBSET zs |-> IF s = {} THEN 0
                             ELSE Weight(CHOOSE x \in s : TRUE) + f[s \ {CHOOSE x \in s : TRUE}]]

LEMMA UsageIs == ASSUME NEW zs PROVE Usage(zs) = (CHOOSE f : Adds(zs, f))[zs]
BY DEF Usage, FoldSet, MapThenFoldSet, Adds

(* The units of weight of some entries: their number is a sum of weights.  *)
Units(s) == UNION {{e} \X (1..Weight(e)) : e \in s}

LEMMA UnitsFinite ==
    ASSUME NEW s, IsFiniteSet(s), \A e \in s : e.score \in Nat
    PROVE  IsFiniteSet(Units(s)) /\ Cardinality(Units(s)) \in Nat
<1> DEFINE Op(e) == {e} \X (1..Weight(e))
           T == {Op(e) : e \in s}
<1>1. IsFiniteSet(T)
  <2> DEFINE f == [e \in s |-> Op(e)]
  <2>1. f \in Surjection(s, T)
      BY DEF Surjection
  <2> HIDE DEF f, T
  <2> QED BY <2>1, FS_Surjection
<1>2. \A t \in T : IsFiniteSet(t)
  <2> SUFFICES ASSUME NEW e \in s PROVE IsFiniteSet(Op(e))
      OBVIOUS
  <2>1. IsFiniteSet({e})
      BY FS_Singleton
  <2>2. Weight(e) \in Int /\ 1 \in Int
      BY WeightIs
  <2>3. IsFiniteSet(1..Weight(e))
      BY <2>2, FS_Interval
  <2> QED BY <2>1, <2>3, FS_Product
<1>3. IsFiniteSet(UNION T)
  <2> HIDE DEF T
  <2> QED BY <1>1, <1>2, FS_UNION
<1>4. Units(s) = UNION T
    BY DEF Units
<1> QED BY <1>3, <1>4, FS_CardinalityType

LEMMA UnitsAdd ==
    ASSUME NEW s, IsFiniteSet(s), \A e \in s : e.score \in Nat, NEW x \in s
    PROVE  Cardinality(Units(s)) = Weight(x) + Cardinality(Units(s \ {x}))
<1> DEFINE own == {x} \X (1..Weight(x))
           rest == Units(s \ {x})
<1>1. Units(s) = rest \cup own /\ rest \cap own = {}
    BY DEF Units
<1>2. IsFiniteSet(s \ {x})
    BY FS_RemoveElement
<1>3. IsFiniteSet(rest) /\ Cardinality(rest) \in Nat
    BY <1>2, UnitsFinite
<1>4. Weight(x) \in Nat /\ Weight(x) >= 1
    BY WeightIs
<1>5. IsFiniteSet({x}) /\ Cardinality({x}) = 1
    BY FS_Singleton
<1>6. IsFiniteSet(own) /\ Cardinality(own) = Weight(x)
  <2>1. Weight(x) \in Int /\ 1 \in Int /\ ~(1 > Weight(x)) /\ Weight(x) - 1 + 1 = Weight(x)
      BY <1>4
  <2>2. IsFiniteSet(1..Weight(x)) /\ Cardinality(1..Weight(x)) = Weight(x)
      BY <2>1, FS_Interval
  <2>3. IsFiniteSet(own) /\ Cardinality(own) = Cardinality({x}) * Cardinality(1..Weight(x))
      BY <1>5, <2>2, FS_Product
  <2> QED BY <1>4, <1>5, <2>2, <2>3
<1>7. Cardinality(rest \cup own) = Cardinality(rest) + Cardinality(own) - Cardinality(rest \cap own)
  <2> HIDE DEF rest, own
  <2> QED BY <1>3, <1>6, FS_Union
<1>8. Cardinality(rest \cap own) = 0
    BY <1>1, FS_EmptySet
<1> QED BY <1>1, <1>3, <1>4, <1>6, <1>7, <1>8

LEMMA AddsExists ==
    ASSUME NEW zs, IsFiniteSet(zs), \A e \in zs : e.score \in Nat
    PROVE  \E f : Adds(zs, f)
<1> DEFINE f == [s \in SUBSET zs |-> Cardinality(Units(s))]
<1>1. ASSUME NEW s \in SUBSET zs
      PROVE  f[s] = IF s = {} THEN 0
                    ELSE Weight(CHOOSE x \in s : TRUE) + f[s \ {CHOOSE x \in s : TRUE}]
  <2>1. CASE s = {}
    <3>1. Units(s) = {}
        BY <2>1 DEF Units
    <3> QED BY <2>1, <3>1, FS_EmptySet
  <2>2. CASE s # {}
    <3> DEFINE x == CHOOSE x \in s : TRUE
    <3>1. x \in s /\ s \ {x} \in SUBSET zs
        BY <2>2
    <3>2. IsFiniteSet(s) /\ \A e \in s : e.score \in Nat
        BY FS_Subset
    <3>3. Cardinality(Units(s)) = Weight(x) + Cardinality(Units(s \ {x}))
      <4> HIDE DEF x
      <4> QED BY <3>1, <3>2, UnitsAdd
    <3> QED BY <2>2, <3>1, <3>3
  <2> QED BY <2>1, <2>2
<1>2. Adds(zs, f)
    BY <1>1 DEF Adds
<1> QED BY <1>2

LEMMA LeastOf ==
    ASSUME NEW S, S \subseteq Nat, S # {}
    PROVE  \E n \in S : \A m \in S : n <= m
<1> DEFINE R == OpToRel(<, Nat)
<1>1. \A x, y \in S : <<y, x>> \in R <=> y < x
    BY DEF OpToRel
<1>2. IsWellFoundedOn(R, Nat)
    BY NatLessThanWellFounded
<1> HIDE DEF R
<1>3. PICK x \in S : \A y \in S : ~ (<<y, x>> \in R)
    BY <1>2, WFMin
<1>4. \A y \in S : ~ (y < x)
    BY <1>1, <1>3
<1> QED BY <1>4

LEMMA UsageAtLeast ==
    ASSUME NEW zs, IsFiniteSet(zs), \A e \in zs : e.score \in Nat
    PROVE  Usage(zs) \in Nat /\ Cardinality(zs) <= Usage(zs)
<1>1. PICK f : Adds(zs, f) /\ Usage(zs) = f[zs]
    BY UsageIs, AddsExists
<1>2. \A s \in SUBSET zs :
         f[s] = IF s = {} THEN 0
                ELSE Weight(CHOOSE x \in s : TRUE) + f[s \ {CHOOSE x \in s : TRUE}]
    BY <1>1 DEF Adds
<1> DEFINE Fine(s) == f[s] \in Nat /\ Cardinality(s) <= f[s]
           Wrong == {n \in Nat : \E s \in SUBSET zs : Cardinality(s) = n /\ ~Fine(s)}
<1>3. \A s \in SUBSET zs : IsFiniteSet(s) /\ Cardinality(s) \in Nat
    BY FS_Subset, FS_CardinalityType
<1>4. Wrong = {}
  <2> SUFFICES ASSUME Wrong # {} PROVE FALSE
      OBVIOUS
  <2>1. PICK n \in Wrong : \A m \in Wrong : n <= m
    <3>1. Wrong \subseteq Nat
        OBVIOUS
    <3> HIDE DEF Wrong
    <3> QED BY <3>1, LeastOf
  <2>2. PICK s \in SUBSET zs : Cardinality(s) = n /\ ~Fine(s)
      OBVIOUS
  <2>3. s # {}
    <3> SUFFICES ASSUME s = {} PROVE FALSE
        OBVIOUS
    <3>1. f[s] = 0
        BY <1>2
    <3>2. Cardinality(s) = 0
        BY FS_EmptySet
    <3> QED BY <2>2, <3>1, <3>2
  <2> DEFINE x == CHOOSE x \in s : TRUE
  <2>4. x \in s /\ s \ {x} \in SUBSET zs
      BY <2>3
  <2>5. f[s] = Weight(x) + f[s \ {x}]
      BY <1>2, <2>3
  <2> HIDE DEF x
  <2>6. Cardinality(s \ {x}) = n - 1 /\ n - 1 \in Nat
    <3>1. IsFiniteSet(s) /\ Cardinality(s \ {x}) \in Nat
        BY <1>3, <2>4
    <3>2. Cardinality(s \ {x}) = Cardinality(s) - 1
        BY <2>4, <3>1, FS_RemoveElement
    <3> QED BY <1>3, <2>2, <3>1, <3>2
  <2>7. Fine(s \ {x})
    <3> SUFFICES ASSUME ~Fine(s \ {x}) PROVE FALSE
        OBVIOUS
    <3>1. n - 1 \in Wrong
        BY <2>4, <2>6
    <3> QED BY <2>1, <2>6, <3>1
  <2>8. Weight(x) \in Nat /\ Weight(x) >= 1
      BY <2>4, WeightIs
  <2> QED BY <2>2, <2>5, <2>6, <2>7, <2>8
<1>5. Fine(zs)
    BY <1>3, <1>4
<1> QED BY <1>1, <1>5

-----------------------------------------------------------------------------
(* What a script keeps and what it may add.                                *)

(* int(t) is less than a second below t.                                   *)
LEMMA FloorIs ==
    ASSUME NEW h \in Int
    PROVE  Floor(h) \in Int /\ h < Floor(h) + Frac
<1>1. \A q, s \in Int : s > 0 => q \div s \in Int /\ (q \div s) * s + s > q /\ (q \div s) * s \in Int
    OBVIOUS
<1>2. Frac \in Int /\ Frac > 0
    BY RedisLimiterAssumption
<1> QED BY <1>1, <1>2 DEF Floor

(* The highest score is a score, and no other is higher.                   *)
LEMMA HighestIs ==
    ASSUME NEW t \in Nat, NEW zs, zs \subseteq Entries(t), zs # {}
    PROVE  Highest(zs) \in Nat /\ \A e \in zs : e.score <= Highest(zs)
<1> DEFINE S == {e.score : e \in zs}
           Gaps == {t + 1 - n : n \in S}
<1>1. S \subseteq 1..(t + 1) /\ S # {}
    BY DEF Entries
<1>2. Gaps \subseteq Nat /\ Gaps # {}
  <2>1. \A n \in 1..(t + 1) : t + 1 - n \in Nat
      OBVIOUS
  <2> HIDE DEF S
  <2> QED BY <1>1, <2>1
<1>3. PICK g \in Gaps : \A h \in Gaps : g <= h
  <2> HIDE DEF Gaps
  <2> QED BY <1>2, LeastOf
<1>4. PICK m \in S : g = t + 1 - m
    OBVIOUS
<1>5. \A n \in S : n <= m
  <2> SUFFICES ASSUME NEW n \in S PROVE n <= m
      OBVIOUS
  <2>1. t + 1 - n \in Gaps
      OBVIOUS
  <2>2. t + 1 - m <= t + 1 - n
      BY <1>3, <1>4, <2>1
  <2>3. n \in Nat /\ m \in Nat
    <3>1. n \in S /\ m \in S
        BY <1>4
    <3> HIDE DEF S
    <3> QED BY <1>1, <3>1
  <2> QED BY <2>2, <2>3
<1>6. Max(S) \in S /\ \A n \in S : n <= Max(S)
  <2> HIDE DEF S
  <2> QED BY <1>4, <1>5 DEF Max
<1>7. Highest(zs) = Max(S)
    BY DEF Highest
<1> QED BY <1>1, <1>6, <1>7

LEMMA SpanType ==
    /\ Window \in Int /\ Frac \in Int /\ Frac >= 1 /\ Window - Frac \in Int
    /\ Window <= Window /\ Window - Frac <= Window
    /\ Limit \in Nat /\ Limit >= 1 /\ Buffer \in Nat
BY RedisLimiterAssumption

LEMMA RecentFinite ==
    ASSUME ClockTypes, SetTypes, NEW u \in Users, NEW span \in Int
    PROVE  /\ InLast(u, span) \subseteq admitted[u]
           /\ IsFiniteSet(InLast(u, span))
           /\ Cardinality(InLast(u, span)) \in Nat
<1>1. InLast(u, span) \subseteq admitted[u]
    BY DEF InLast
<1>2. IsFiniteSet(admitted[u])
    BY DEF SetTypes
<1> QED BY <1>1, <1>2, FS_Subset, FS_CardinalityType

(* What is trimmed by a clock read earlier still holds what is recent.     *)
LEMMA TrimKeeps ==
    ASSUME ClockTypes, SetTypes, NEW u \in Users, NEW t \in 0..now,
           NEW span \in Int, span <= Window, NEW a \in InLast(u, span), Entry(a) \in zset[u]
    PROVE  Entry(a) \in Trim(zset[u], t)
<1>1. a.at \in 0..now /\ a.at > now - span
    BY DEF InLast, SetTypes
<1>2. Entry(a).score = a.at + 1
    BY DEF Entry
<1>3. a.at + 1 > t - Window
    BY <1>1, SpanType DEF ClockTypes
<1> QED BY <1>2, <1>3 DEF Trim

LEMMA TrimIs ==
    ASSUME ClockTypes, SetTypes, NEW u \in Users, NEW t
    PROVE  /\ Trim(zset[u], t) \subseteq zset[u]
           /\ zset[u] \subseteq Entries(now)
           /\ IsFiniteSet(Trim(zset[u], t))
           /\ \A e \in Trim(zset[u], t) : e.score \in Nat
<1>1. Trim(zset[u], t) \subseteq zset[u]
    BY DEF Trim
<1>2. zset[u] \subseteq Entries(now) /\ IsFiniteSet(zset[u])
    BY DEF SetTypes
<1>3. IsFiniteSet(Trim(zset[u], t))
    BY <1>1, <1>2, FS_Subset
<1>4. \A e \in Entries(now) : e.score \in Nat
    BY DEF Entries, ClockTypes
<1> QED BY <1>1, <1>2, <1>3, <1>4

(* Two requests differ in what the sorted set has of them.                 *)
LEMMA EntryOneToOne ==
    ASSUME NEW S, IsFiniteSet(S), NEW R \in SUBSET [id : Nat, at : Nat],
           \A a \in R : Entry(a) \in S
    PROVE  IsFiniteSet(R) /\ Cardinality(R) <= Cardinality(S)
<1> DEFINE f == [a \in R |-> Entry(a)]
<1>1. f \in [R -> S]
    OBVIOUS
<1>2. ASSUME NEW a \in R, NEW b \in R, f[a] = f[b] PROVE a = b
  <2>1. Entry(a) = Entry(b)
      BY <1>2
  <2>2. a.id = b.id /\ a.at + 1 = b.at + 1
      BY <2>1 DEF Entry
  <2>3. a \in [id : Nat, at : Nat] /\ b \in [id : Nat, at : Nat]
      OBVIOUS
  <2> QED BY <2>2, <2>3
<1>3. f \in Injection(R, S)
  <2> HIDE DEF f
  <2> QED BY <1>1, <1>2 DEF Injection, IsInjective
<1> HIDE DEF f
<1> QED BY <1>3, FS_Injection

(* A script that lets one more through counted every recent request.       *)
LEMMA RoomForOne ==
    ASSUME ClockTypes, SetTypes, NEW u \in Users, NEW t \in 0..now,
           NEW span \in Int, span <= Window,
           \A a \in InLast(u, span) : Entry(a) \in zset[u],
           Usage(Trim(zset[u], t)) + 1 <= Limit
    PROVE  Cardinality(InLast(u, span)) + 1 <= Limit
<1> DEFINE kept == Trim(zset[u], t)
<1>1. IsFiniteSet(kept) /\ \A e \in kept : e.score \in Nat
    BY TrimIs
<1>2. Usage(kept) \in Nat /\ Cardinality(kept) <= Usage(kept)
  <2> HIDE DEF kept
  <2> QED BY <1>1, UsageAtLeast
<1>3. \A a \in InLast(u, span) : Entry(a) \in kept
    BY TrimKeeps
<1>4. InLast(u, span) \in SUBSET [id : Nat, at : Nat]
    BY DEF InLast, SetTypes, ClockTypes
<1>5. Cardinality(InLast(u, span)) <= Cardinality(kept)
  <2> HIDE DEF kept
  <2> QED BY <1>1, <1>3, <1>4, EntryOneToOne
<1>6. Cardinality(kept) \in Nat
    BY <1>1, FS_CardinalityType
<1>7. Cardinality(InLast(u, span)) \in Nat
    BY RecentFinite
<1> QED BY <1>2, <1>5, <1>6, <1>7, SpanType

-----------------------------------------------------------------------------
(* Each step keeps the invariant.                                          *)

(* Requests only leave a window that nothing is let into.                  *)
LEMMA CoversKept ==
    ASSUME ClockTypes, SetTypes, NEW u \in Users, NEW span \in Int,
           now' \in Nat, now <= now', admitted'[u] \subseteq admitted[u], Covers(u, span),
           \A a \in InLast(u, span) :
               a.at > now' - span /\ a \in admitted'[u] /\ Entry(a) \in zset[u]
                   => Entry(a) \in zset'[u]
    PROVE  Covers(u, span)'
<1>1. ASSUME NEW a \in InLast(u, span)'
      PROVE  a \in InLast(u, span) /\ a.at > now' - span /\ a \in admitted'[u]
  <2>1. a \in admitted[u] /\ a \in admitted'[u] /\ a.at > now' - span
      BY <1>1 DEF InLast
  <2>2. a.at \in 0..now
      BY <2>1 DEF SetTypes
  <2>3. a.at > now - span
      BY <2>1, <2>2 DEF ClockTypes
  <2> QED BY <2>1, <2>3 DEF InLast
<1>2. IsFiniteSet(InLast(u, span)) /\ Cardinality(InLast(u, span)) \in Nat
    BY RecentFinite
<1>3. InLast(u, span)' \subseteq InLast(u, span)
    BY <1>1
<1>4. IsFiniteSet(InLast(u, span)') /\ Cardinality(InLast(u, span)') <= Cardinality(InLast(u, span))
    BY <1>2, <1>3, FS_Subset
<1>5. Cardinality(InLast(u, span)') \in Nat
    BY <1>4, FS_CardinalityType
<1>6. Cardinality(InLast(u, span)') <= Limit
    BY <1>2, <1>4, <1>5, SpanType DEF Covers
<1>7. \A a \in InLast(u, span)' : Entry(a) \in zset'[u]
    BY <1>1 DEF Covers
<1>8. \A a \in InLast(u, span)' : Entry(a)' = Entry(a)
    BY DEF Entry
<1> QED BY <1>6, <1>7 DEF Covers, Entry

LEMMA CoversAll ==
    ASSUME WindowInv, WindowTypes', cleanups' = 0 => cleanups = 0, raced \subseteq raced',
           \A u \in Users : \A span \in Int :
               span <= Window /\ Covers(u, span) => Covers(u, span)'
    PROVE  WindowInv'
<1>1. cleanups' = 0 => \A u \in Users : Covers(u, Window)'
    BY SpanType DEF WindowInv
<1>2. \A u \in Users \ raced' : Covers(u, Window - Frac)'
    BY SpanType DEF WindowInv
<1> QED BY <1>1, <1>2 DEF WindowInv

LEMMA FinishKeeps ==
    ASSUME ClockTypes, AskTypes, NEW c \in Calls, Finish(c), now' = now
    PROVE  AskTypes'
<1>1. 0 \in 0..now
    BY DEF ClockTypes
<1> QED BY <1>1 DEF AskTypes, Finish

LEMMA SweepKept ==
    ASSUME ClockTypes, Sweep, now' \in Nat, now <= now', cleaner' = cleaner, cleanups' = cleanups
    PROVE  Sweep'
<1>1. 0..now \subseteq 0..now' /\ Entries(now) \subseteq Entries(now')
    BY DEF ClockTypes, Entries
<1> QED BY <1>1 DEF Sweep

LEMMA SetsKept ==
    ASSUME ClockTypes, SetTypes, now' \in Nat, now <= now', zset' = zset, admitted' = admitted
    PROVE  SetTypes'
<1>1. 0..now \subseteq 0..now' /\ Entries(now) \subseteq Entries(now')
    BY DEF ClockTypes, Entries
<1>2. [id : Nat, at : 0..now] \subseteq [id : Nat, at : 0..now']
    BY <1>1
<1> QED BY <1>1, <1>2 DEF SetTypes

LEMMA SetsShrink ==
    ASSUME ClockTypes, SetTypes, now' = now, NEW u \in Users,
           NEW S, S \subseteq zset[u], zset' = [zset EXCEPT ![u] = S],
           \/ admitted' = admitted
           \/ admitted' = [admitted EXCEPT ![u] = {}]
    PROVE  SetTypes'
<1>1. IsFiniteSet(S) /\ S \subseteq Entries(now)
    BY FS_Subset DEF SetTypes
<1>2. \A v \in Users : zset'[v] = IF v = u THEN S ELSE zset[v]
    BY DEF SetTypes
<1>3. \A v \in Users : IsFiniteSet(admitted'[v])
    BY FS_EmptySet DEF SetTypes
<1>4. admitted' \in [Users -> SUBSET [id : Nat, at : 0..now]]
    BY DEF SetTypes
<1>5. zset' \in [Users -> SUBSET Entries(now)]
    BY <1>1 DEF SetTypes
<1>6. \A v \in Users : IsFiniteSet(zset'[v])
    BY <1>1, <1>2 DEF SetTypes
<1> QED BY <1>3, <1>4, <1>5, <1>6 DEF SetTypes

(* A call begins.                                                          *)
LEMMA BeginKeeps ==
    ASSUME WindowInv, NEW c \in Calls, NEW u \in Users, NEW step \in {"load", "eval", "trim"},
           Begin(c, u, step)
    PROVE  WindowInv'
<1> USE DEF WindowInv, WindowTypes
<1>1. now' = now /\ zset' = zset /\ admitted' = admitted /\ lastId' = lastId
      /\ cleaner' = cleaner /\ cleanups' = cleanups /\ raced' = raced
    BY DEF Begin, cleanVars
<1>2. now \in Nat /\ now <= now /\ now \in 0..now
    BY DEF ClockTypes
<1>3. ClockTypes' /\ SetTypes' /\ Sweep'
    BY <1>1, <1>2, SetsKept, SweepKept DEF ClockTypes
<1>4. AskTypes'
    BY <1>1, <1>2 DEF Begin, AskTypes
<1>5. \A v \in Users : \A span \in Int :
         span <= Window /\ Covers(v, span) => Covers(v, span)'
    BY <1>1, <1>2, CoversKept
<1> HIDE DEF WindowInv
<1> QED BY <1>1, <1>3, <1>4, <1>5, CoversAll

(* The script is loaded, or an error lets the request through unrecorded.  *)
LEMMA PassKeeps ==
    ASSUME WindowInv, NEW c \in Calls, LoadScript(c) \/ Degrade(c)
    PROVE  WindowInv'
<1> USE DEF WindowInv, WindowTypes
<1>1. now' = now /\ zset' = zset /\ admitted' = admitted /\ lastId' = lastId
      /\ cleaner' = cleaner /\ cleanups' = cleanups /\ raced' = raced
    BY DEF LoadScript, Degrade, cleanVars
<1>2. now \in Nat /\ now <= now
    BY DEF ClockTypes
<1>3. ClockTypes' /\ SetTypes' /\ Sweep'
    BY <1>1, <1>2, SetsKept, SweepKept DEF ClockTypes
<1>4. AskTypes'
  <2>1. CASE LoadScript(c)
      BY <1>1, <2>1 DEF LoadScript, AskTypes
  <2>2. CASE Degrade(c)
      BY <1>1, <2>2, FinishKeeps DEF Degrade
  <2> QED BY <2>1, <2>2
<1>5. \A v \in Users : \A span \in Int :
         span <= Window /\ Covers(v, span) => Covers(v, span)'
    BY <1>1, <1>2, CoversKept
<1> HIDE DEF WindowInv
<1> QED BY <1>1, <1>3, <1>4, <1>5, CoversAll

(* The script, or get_usage_stats, drops what has left the window.         *)
LEMMA TrimStepKeeps ==
    ASSUME WindowInv, NEW c \in Calls, Refuse(c) \/ Stats(c)
    PROVE  WindowInv'
<1> DEFINE u == user[c]
           kept == Trim(zset[u], at[c])
<1> USE DEF WindowInv, WindowTypes
<1>1. now' = now /\ admitted' = admitted /\ lastId' = lastId
      /\ cleaner' = cleaner /\ cleanups' = cleanups /\ raced' = raced /\ Finish(c)
    BY DEF Refuse, Stats, cleanVars
<1>2. now \in Nat /\ now <= now
    BY DEF ClockTypes
<1>3. u \in Users /\ at[c] \in 0..now
    BY DEF AskTypes, Refuse, Stats
<1>4. zset' = zset \/ zset' = [zset EXCEPT ![u] = kept]
    BY DEF Refuse, Stats
<1>5. kept \subseteq zset[u]
    BY <1>3, TrimIs
<1>6. SetTypes'
  <2> HIDE DEF kept, u
  <2> QED BY <1>1, <1>2, <1>3, <1>4, <1>5, SetsKept, SetsShrink
<1>7. ClockTypes' /\ Sweep' /\ AskTypes'
    BY <1>1, <1>2, SweepKept, FinishKeeps DEF ClockTypes
<1>8. ASSUME NEW v \in Users, NEW span \in Int, span <= Window, Covers(v, span)
      PROVE  Covers(v, span)'
  <2>1. ASSUME NEW a \in InLast(v, span), Entry(a) \in zset[v] PROVE Entry(a) \in zset'[v]
    <3>1. CASE v = u
      <4>1. Entry(a) \in Trim(zset[u], at[c])
          BY <1>3, <1>8, <2>1, <3>1, TrimKeeps
      <4>2. zset'[u] = kept \/ zset' = zset
          BY <1>3, <1>4 DEF SetTypes
      <4> QED BY <2>1, <3>1, <4>1, <4>2
    <3>2. CASE v # u
      <4>1. zset'[v] = zset[v]
          BY <1>3, <1>4, <3>2 DEF SetTypes
      <4> QED BY <2>1, <4>1
    <3> QED BY <3>1, <3>2
  <2> QED BY <1>1, <1>2, <1>8, <2>1, CoversKept
<1> HIDE DEF WindowInv, kept, u
<1> QED BY <1>1, <1>6, <1>7, <1>8, CoversAll

(* The script lets a request through and records it.                       *)
LEMMA AllowKeeps ==
    ASSUME WindowInv, NEW c \in Calls, Allow(c)
    PROVE  WindowInv'
<1> DEFINE u == user[c]
           t == at[c]
           kept == Trim(zset[u], t)
           id == lastId + 1
           req == [id |-> id, at |-> t]
<1> USE DEF WindowInv, WindowTypes
<1>1. now' = now /\ cleaner' = cleaner /\ cleanups' = cleanups /\ raced' = raced /\ Finish(c)
      /\ lastId' = id
    BY DEF Allow, cleanVars
<1>2. now \in Nat /\ now <= now /\ id \in Nat
    BY DEF ClockTypes
<1>3. u \in Users /\ t \in 0..now
    BY DEF AskTypes, Allow
<1>4. /\ Usage(Trim(zset[u], t)) + 1 <= Limit
      /\ zset' = [zset EXCEPT ![u] = kept \cup {[id |-> id, score |-> t + 1]}]
      /\ admitted' = [admitted EXCEPT ![u] = admitted[u] \cup {req}]
    BY DEF Allow
<1>5. Entry(req) = [id |-> id, score |-> t + 1]
    BY DEF Entry
<1>6. /\ zset'[u] = kept \cup {Entry(req)}
      /\ admitted'[u] = admitted[u] \cup {req}
      /\ \A v \in Users : v # u => zset'[v] = zset[v] /\ admitted'[v] = admitted[v]
    BY <1>3, <1>4, <1>5 DEF SetTypes
<1>7. kept \subseteq zset[u] /\ zset[u] \subseteq Entries(now) /\ IsFiniteSet(kept)
    BY <1>3, TrimIs
<1>8. Entry(req) \in Entries(now) /\ req \in [id : Nat, at : 0..now] /\ req.at = t
  <2>1. t + 1 \in 1..(now + 1)
      BY <1>2, <1>3
  <2> QED BY <1>2, <1>3, <1>5, <2>1 DEF Entries
<1> HIDE DEF kept, req, id, t, u
<1>9. SetTypes'
  <2>1. \A v \in Users : zset'[v] \in SUBSET Entries(now) /\ IsFiniteSet(zset'[v])
    <3> SUFFICES ASSUME NEW v \in Users PROVE zset'[v] \in SUBSET Entries(now) /\ IsFiniteSet(zset'[v])
        OBVIOUS
    <3>1. CASE v = u
      <4>1. IsFiniteSet(kept \cup {Entry(req)})
          BY <1>7, FS_AddElement
      <4> QED BY <1>6, <1>7, <1>8, <3>1, <4>1
    <3>2. CASE v # u
        BY <1>6, <3>2 DEF SetTypes
    <3> QED BY <3>1, <3>2
  <2>2. \A v \in Users : admitted'[v] \in SUBSET [id : Nat, at : 0..now] /\ IsFiniteSet(admitted'[v])
    <3> SUFFICES ASSUME NEW v \in Users
                 PROVE  admitted'[v] \in SUBSET [id : Nat, at : 0..now] /\ IsFiniteSet(admitted'[v])
        OBVIOUS
    <3>1. CASE v = u
      <4>1. IsFiniteSet(admitted[u]) /\ admitted[u] \subseteq [id : Nat, at : 0..now]
          BY <1>3 DEF SetTypes
      <4>2. IsFiniteSet(admitted[u] \cup {req})
          BY <4>1, FS_AddElement
      <4> QED BY <1>6, <1>8, <3>1, <4>1, <4>2
    <3>2. CASE v # u
        BY <1>6, <3>2 DEF SetTypes
    <3> QED BY <3>1, <3>2
  <2>3. zset' = [v \in Users |-> zset'[v]] /\ admitted' = [v \in Users |-> admitted'[v]]
      BY <1>4 DEF SetTypes
  <2>4. zset' \in [Users -> SUBSET Entries(now)] /\ admitted' \in [Users -> SUBSET [id : Nat, at : 0..now]]
      BY <2>1, <2>2, <2>3
  <2> QED BY <1>1, <2>1, <2>2, <2>4 DEF SetTypes
<1>10. ClockTypes' /\ Sweep' /\ AskTypes'
    BY <1>1, <1>2, SweepKept, FinishKeeps DEF ClockTypes
<1>11. ASSUME NEW v \in Users, NEW span \in Int, span <= Window, Covers(v, span)
       PROVE  Covers(v, span)'
  <2>1. CASE v # u
      BY <1>1, <1>2, <1>6, <1>11, <2>1, CoversKept
  <2>2. CASE v = u
    <3>1. InLast(v, span)' \subseteq InLast(v, span) \cup {req}
        BY <1>1, <1>6, <2>2 DEF InLast
    <3>2. Cardinality(InLast(v, span)) + 1 <= Limit
        BY <1>3, <1>4, <1>11, <2>2, RoomForOne DEF Covers
    <3>3. IsFiniteSet(InLast(v, span)) /\ Cardinality(InLast(v, span)) \in Nat
        BY <1>3, <1>11, RecentFinite
    <3> DEFINE old == InLast(v, span)
               new == InLast(v, span)'
    <3>4. IsFiniteSet(old \cup {req}) /\ Cardinality(old \cup {req}) <= Limit
          /\ Cardinality(old \cup {req}) \in Nat
      <4> HIDE DEF old
      <4>1. IsFiniteSet(old \cup {req})
          BY <3>3, FS_AddElement DEF old
      <4>2. Cardinality(old \cup {req}) = IF req \in old THEN Cardinality(old) ELSE Cardinality(old) + 1
          BY <3>3, FS_AddElement DEF old
      <4>3. Cardinality(old) \in Nat /\ Cardinality(old) + 1 <= Limit
          BY <3>2, <3>3 DEF old
      <4> QED BY <4>1, <4>2, <4>3, SpanType
    <3>5. Cardinality(new) <= Limit
      <4> HIDE DEF old, new
      <4>1. IsFiniteSet(new) /\ Cardinality(new) <= Cardinality(old \cup {req})
          BY <3>1, <3>4, FS_Subset DEF old, new
      <4>2. Cardinality(new) \in Nat
          BY <4>1, FS_CardinalityType
      <4> QED BY <3>4, <4>1, <4>2, SpanType
    <3>6. ASSUME NEW a \in InLast(v, span)' PROVE Entry(a) \in zset'[v]
      <4>1. CASE a = req
          BY <1>6, <2>2, <4>1
      <4>2. CASE a \in InLast(v, span)
        <5>1. Entry(a) \in kept
            BY <1>3, <1>11, <2>2, <4>2, TrimKeeps DEF Covers, kept
        <5> QED BY <1>6, <2>2, <5>1
      <4> QED BY <3>1, <4>1, <4>2
    <3>7. Covers(v, span)'
        BY <3>5, <3>6 DEF Covers, Entry
    <3> QED BY <3>7
  <2> QED BY <2>1, <2>2
<1> HIDE DEF WindowInv
<1>12. WindowTypes'
    BY <1>9, <1>10
<1> QED BY <1>1, <1>11, <1>12, CoversAll

(* A key goes: by reset_limit, or because it has outlived its window.      *)
LEMMA GoneKeeps ==
    ASSUME WindowInv, NEW u \in Users, ResetLimit(u) \/ KeyExpires(u)
    PROVE  WindowInv'
<1> USE DEF WindowInv, WindowTypes
<1>1. now' = now /\ cleaner' = cleaner /\ cleanups' = cleanups /\ raced' = raced
      /\ lastId' = lastId /\ where' = where /\ user' = user /\ at' = at
      /\ zset' = [zset EXCEPT ![u] = {}]
    BY DEF ResetLimit, KeyExpires, cleanVars, callVars
<1>2. now \in Nat /\ now <= now
    BY DEF ClockTypes
<1>3. admitted' = admitted \/ admitted' = [admitted EXCEPT ![u] = {}]
    BY DEF ResetLimit, KeyExpires
<1>4. SetTypes'
    BY <1>1, <1>3, SetsShrink
<1>5. ClockTypes' /\ Sweep' /\ AskTypes'
    BY <1>1, <1>2, SweepKept DEF ClockTypes, AskTypes
<1>6. zset'[u] = {} /\ \A v \in Users : v # u => zset'[v] = zset[v]
    BY <1>1 DEF SetTypes
<1>7. /\ \A v \in Users : admitted'[v] \subseteq admitted[v]
      /\ ResetLimit(u) => admitted'[u] = {}
    BY <1>3 DEF SetTypes, ResetLimit
<1>8. ASSUME NEW v \in Users, NEW span \in Int, span <= Window, Covers(v, span),
             NEW a \in InLast(v, span), a \in admitted'[v], Entry(a) \in zset[v]
      PROVE  Entry(a) \in zset'[v]
  <2>1. CASE v # u
      BY <1>6, <1>8, <2>1
  <2>2. CASE v = u
    <3>1. KeyExpires(u)
        BY <1>7, <1>8, <2>2
    <3>2. zset[u] # {} /\ zset[u] \subseteq Entries(now)
          /\ now >= Highest(zset[u]) - 1 + Window + Buffer
        BY <3>1 DEF KeyExpires, SetTypes
    <3>3. Highest(zset[u]) \in Nat /\ \A e \in zset[u] : e.score <= Highest(zset[u])
        BY <1>2, <3>2, HighestIs
    <3>4. a.at \in 0..now /\ a.at > now - span
        BY <1>8 DEF InLast, SetTypes
    <3>5. Entry(a).score = a.at + 1
        BY DEF Entry
    <3>6. a.at + 1 <= Highest(zset[u])
        BY <1>8, <2>2, <3>3, <3>5
    <3> HIDE DEF WindowInv
    <3> QED BY <1>2, <1>8, <3>2, <3>3, <3>4, <3>6, SpanType
  <2> QED BY <2>1, <2>2
<1>9. ASSUME NEW v \in Users, NEW span \in Int, span <= Window, Covers(v, span)
      PROVE  Covers(v, span)'
    BY <1>1, <1>2, <1>7, <1>8, <1>9, CoversKept
<1> HIDE DEF WindowInv
<1> QED BY <1>1, <1>4, <1>5, <1>9, CoversAll

(* The clean-up looks for old keys, and ends.                              *)
LEMMA LookKeeps ==
    ASSUME WindowInv, BeginCleanup \/ EndCleanup \/ \E u \in Users : Look(u)
    PROVE  WindowInv'
<1> USE DEF WindowInv, WindowTypes
<1>1. now' = now /\ zset' = zset /\ admitted' = admitted /\ lastId' = lastId /\ raced' = raced
      /\ where' = where /\ user' = user /\ at' = at
    BY DEF BeginCleanup, EndCleanup, Look, callVars
<1>2. now \in Nat /\ now <= now /\ now \in 0..now /\ cleanups \in Nat
    BY DEF ClockTypes
<1>3. cleanups' \in Nat /\ cleanups <= cleanups'
  <2>1. cleanups' = cleanups + 1 \/ cleanups' = cleanups
      BY DEF BeginCleanup, EndCleanup, Look
  <2> HIDE DEF WindowInv
  <2> QED BY <1>2, <2>1
<1>4. ClockTypes' /\ SetTypes' /\ AskTypes'
    BY <1>1, <1>2, <1>3, SetsKept DEF ClockTypes, AskTypes
<1>5. Sweep'
  <2>1. CASE BeginCleanup
    <3>1. cleaner' = [where |-> "look", at |-> now, left |-> {u \in Users : zset[u] # {}},
                      target |-> NoUser, seen |-> {}]
        BY <2>1 DEF BeginCleanup, Resting
    <3>2. cleanups' >= 1
        BY <1>2, <2>1 DEF BeginCleanup
    <3> QED BY <1>1, <1>2, <3>1, <3>2 DEF Sweep
  <2>2. CASE EndCleanup
    <3>1. cleaner' = [where |-> "idle", at |-> 0, left |-> {}, target |-> NoUser, seen |-> {}]
        BY <2>2 DEF EndCleanup, Resting
    <3>2. 0 \in 0..now
        BY <1>2
    <3> QED BY <1>1, <3>1, <3>2 DEF Sweep
  <2>3. ASSUME NEW u \in Users, Look(u) PROVE Sweep'
    <3> DEFINE old == Expired(zset[u], cleaner.at)
    <3>1. cleaner.where = "look" /\ cleanups' = cleanups /\ cleanups >= 1
        BY <2>3 DEF Look, Sweep
    <3>2. zset[u] \subseteq Entries(now)
        BY DEF SetTypes
    <3>3. CASE old
      <4>1. cleaner' = [where |-> "delete", at |-> cleaner.at, left |-> cleaner.left \ {u},
                        target |-> u, seen |-> zset[u]]
          BY <2>3, <3>3 DEF Look, Sweep
      <4>2. ASSUME NEW e \in zset[u] PROVE e.score < cleaner.at - Window + Frac
        <5>1. Floor(Highest(zset[u])) + Window < cleaner.at
            BY <3>3 DEF Expired
        <5>2. Highest(zset[u]) \in Nat /\ e.score <= Highest(zset[u])
            BY <1>2, <3>2, HighestIs
        <5>3. Floor(Highest(zset[u])) \in Int /\ Highest(zset[u]) < Floor(Highest(zset[u])) + Frac
            BY <5>2, FloorIs
        <5>4. e.score \in Nat
            BY <1>2, <3>2 DEF Entries
        <5>5. cleaner.at \in Nat
            BY <1>2 DEF Sweep
        <5> HIDE DEF WindowInv
        <5> QED BY <5>1, <5>2, <5>3, <5>4, <5>5, SpanType
      <4> QED BY <1>1, <3>1, <3>2, <4>1, <4>2 DEF Sweep
    <3>4. CASE ~old
      <4>1. cleaner' = [where |-> "look", at |-> cleaner.at, left |-> cleaner.left \ {u},
                        target |-> cleaner.target, seen |-> cleaner.seen]
          BY <2>3, <3>1, <3>4 DEF Look, Sweep
      <4> QED BY <1>1, <3>1, <4>1 DEF Sweep
    <3> QED BY <3>3, <3>4
  <2> QED BY <2>1, <2>2, <2>3
<1>6. \A v \in Users : \A span \in Int :
         span <= Window /\ Covers(v, span) => Covers(v, span)'
    BY <1>1, <1>2, CoversKept
<1>7. cleanups' = 0 => cleanups = 0
    BY <1>2, <1>3
<1> HIDE DEF WindowInv
<1> QED BY <1>1, <1>4, <1>5, <1>6, <1>7, CoversAll

(* The clean-up deletes a key: only what was recorded since its look is    *)
(* recent.                                                                 *)
LEMMA DeleteKeeps ==
    ASSUME WindowInv, DeleteKey
    PROVE  WindowInv'
<1> USE DEF WindowInv, WindowTypes
<1>1. PICK u \in Users : u = cleaner.target
    BY DEF Sweep, DeleteKey
<1>2. now' = now /\ admitted' = admitted /\ lastId' = lastId /\ cleanups' = cleanups
      /\ where' = where /\ user' = user /\ at' = at /\ cleaner.where = "delete"
      /\ zset' = [zset EXCEPT ![u] = {}]
    BY <1>1 DEF DeleteKey, callVars
<1>3. now \in Nat /\ now <= now /\ cleanups \in Nat /\ cleanups >= 1
    BY <1>2 DEF ClockTypes, Sweep
<1>4. SetTypes'
  <2>1. PICK S : S = {}
      OBVIOUS
  <2>2. S \subseteq zset[u] /\ zset' = [zset EXCEPT ![u] = S] /\ now' = now /\ admitted' = admitted
      BY <1>2, <2>1
  <2> QED BY <2>2, SetsShrink
<1>5. ClockTypes' /\ AskTypes'
    BY <1>2 DEF ClockTypes, AskTypes
<1>6. Sweep'
  <2>1. cleaner' = [where |-> "look", at |-> cleaner.at, left |-> cleaner.left,
                    target |-> NoUser, seen |-> {}]
      BY DEF DeleteKey, Sweep
  <2> QED BY <1>2, <1>3, <2>1 DEF Sweep
<1>7. raced \subseteq raced' /\ (zset[u] \subseteq cleaner.seen \/ u \in raced')
    BY <1>1 DEF DeleteKey
<1>8. zset'[u] = {} /\ \A v \in Users : v # u => zset'[v] = zset[v]
    BY <1>2 DEF SetTypes
<1>9. ASSUME NEW v \in Users \ raced' PROVE Covers(v, Window - Frac)'
  <2>1. Covers(v, Window - Frac)
      BY <1>7
  <2>2. ASSUME NEW a \in InLast(v, Window - Frac), Entry(a) \in zset[v] PROVE Entry(a) \in zset'[v]
    <3>1. CASE v # u
        BY <1>8, <2>2, <3>1
    <3>2. CASE v = u
      <4>1. Entry(a) \in cleaner.seen
          BY <1>7, <2>2, <3>2
      <4>2. Entry(a).score < cleaner.at - Window + Frac
          BY <1>2, <4>1 DEF Sweep
      <4>3. Entry(a).score = a.at + 1
          BY DEF Entry
      <4>4. cleaner.at \in 0..now
          BY DEF Sweep
      <4>5. a.at \in 0..now /\ a.at > now - (Window - Frac)
          BY <2>2 DEF InLast, SetTypes
      <4> HIDE DEF WindowInv
      <4> QED BY <1>3, <4>2, <4>3, <4>4, <4>5, SpanType
    <3> QED BY <3>1, <3>2
  <2> QED BY <1>2, <1>3, <2>1, <2>2, CoversKept, SpanType
<1>10. cleanups' # 0
    BY <1>2, <1>3
<1> QED BY <1>4, <1>5, <1>6, <1>9, <1>10

(* Redis stops and starts, and time passes.                                *)
LEMMA RestKeeps ==
    ASSUME WindowInv, RedisStops \/ RedisStarts \/ Tick \/ UNCHANGED windowVars
    PROVE  WindowInv'
<1> USE DEF WindowInv, WindowTypes
<1>1. zset' = zset /\ admitted' = admitted /\ lastId' = lastId /\ raced' = raced
      /\ where' = where /\ user' = user /\ at' = at /\ cleaner' = cleaner /\ cleanups' = cleanups
    BY DEF RedisStops, RedisStarts, Tick, windowVars, callVars, cleanVars
<1>2. now \in Nat
    BY DEF ClockTypes
<1>3. now' \in Nat /\ now <= now'
    BY <1>2 DEF RedisStops, RedisStarts, Tick, windowVars
<1>4. ClockTypes' /\ SetTypes' /\ Sweep'
    BY <1>1, <1>3, SetsKept, SweepKept DEF ClockTypes
<1>5. AskTypes'
  <2>1. 0..now \subseteq 0..now'
      BY <1>2, <1>3
  <2> QED BY <1>1, <2>1 DEF AskTypes
<1>6. \A v \in Users : \A span \in Int :
         span <= Window /\ Covers(v, span) => Covers(v, span)'
    BY <1>1, <1>3, CoversKept
<1> HIDE DEF WindowInv
<1> QED BY <1>1, <1>4, <1>5, <1>6, CoversAll

LEMMA RedisStepKeeps == WindowInv /\ [RedisNext]_windowVars => WindowInv'
<1> SUFFICES ASSUME WindowInv, [RedisNext]_windowVars PROVE WindowInv'
    OBVIOUS
<1>1. ASSUME NEW c \in Calls, NEW u \in Users, BeginCheck(c, u) \/ BeginStats(c, u)
      PROVE  WindowInv'
  <2>1. \E step \in {"load", "eval", "trim"} : Begin(c, u, step)
      BY <1>1 DEF BeginCheck, BeginStats
  <2> QED BY <2>1, BeginKeeps
<1>2. ASSUME NEW c \in Calls, LoadScript(c) \/ Allow(c) \/ Refuse(c) \/ Degrade(c) \/ Stats(c)
      PROVE  WindowInv'
    BY <1>2, PassKeeps, AllowKeeps, TrimStepKeeps
<1>3. ASSUME NEW u \in Users, ResetLimit(u) \/ Look(u) \/ KeyExpires(u) PROVE WindowInv'
    BY <1>3, GoneKeeps, LookKeeps
<1>4. CASE BeginCleanup \/ DeleteKey \/ EndCleanup
    BY <1>4, LookKeeps, DeleteKeeps
<1>5. CASE RedisStops \/ RedisStarts \/ Tick \/ UNCHANGED windowVars
    BY <1>5, RestKeeps
<1> QED BY <1>1, <1>2, <1>3, <1>4, <1>5 DEF RedisNext

LEMMA RedisInitial == RedisInit => WindowInv
<1> SUFFICES ASSUME RedisInit PROVE WindowInv
    OBVIOUS
<1>1. ClockTypes /\ AskTypes /\ now = 0 /\ 0 \in 0..now
    BY DEF RedisInit, ClockTypes, AskTypes
<1>2. SetTypes
    BY FS_EmptySet DEF RedisInit, SetTypes
<1>3. Sweep
    BY <1>1 DEF RedisInit, Sweep, Resting
<1>4. ASSUME NEW u \in Users, NEW span \in Int PROVE Covers(u, span)
  <2>1. InLast(u, span) = {}
      BY DEF InLast, RedisInit
  <2> QED BY <2>1, FS_EmptySet, SpanType DEF Covers
<1> QED BY <1>1, <1>2, <1>3, <1>4, SpanType DEF WindowInv, WindowTypes

(* Whatever calls overlap, with clocks read before their awaits, wherever  *)
(* Redis stops and whenever cleanup_expired runs, the sliding window of    *)
(* the Lua script holds no more than the limit; a clean-up costs at most   *)
(* its last second, unless it deletes a key that was written after it had  *)
(* looked at it (redis_rate_limiter.py).                                   *)
THEOREM WindowNeverExceeded == RedisSpec => []WithinLimit
<1>1. WindowInv => WithinLimit
    BY DEF WindowInv, WithinLimit, Covers
<1> QED BY <1>1, RedisInitial, RedisStepKeeps, PTL DEF RedisSpec

-----------------------------------------------------------------------------
(* RedisLimiter: types.                                                    *)

Checking == {d \in Calls : where[d] \in {"load", "eval"}}

Switches == up \in BOOLEAN /\ script \in BOOLEAN /\ sha \in BOOLEAN

(* The bounds, and the identifiers given out: a check that is on its way   *)
(* has a place below MaxAdmitted to itself.                                *)
Bounded ==
    /\ now <= MaxTime
    /\ lastId + Cardinality(Checking) <= MaxAdmitted
    /\ stops \in 0..MaxStops /\ cleanups \in 0..MaxCleanups
    /\ raced \subseteq Users

Numbered ==
    /\ \A u \in Users : \A e \in zset[u] \cup admitted[u] : e.id \in 1..lastId
    /\ \A e \in cleaner.seen : e.id \in 1..lastId

RedisTypes == WindowInv /\ Switches /\ Bounded /\ Numbered

LEMMA CheckingIs == IsFiniteSet(Checking) /\ Cardinality(Checking) \in Nat
<1>1. IsFiniteSet(Calls) /\ Checking \subseteq Calls
    BY RedisLimiterAssumption DEF Checking
<1> QED BY <1>1, FS_Subset, FS_CardinalityType

(* One call moves: the checks on their way are one more, one fewer or as   *)
(* many.                                                                   *)
LEMMA CheckingMoves ==
    ASSUME AskTypes, NEW c \in Calls, NEW place, where' = [where EXCEPT ![c] = place]
    PROVE  /\ Cardinality(Checking') \in Nat
           /\ Cardinality(Checking') <= Cardinality(Checking) + 1
           /\ where[c] \in {"load", "eval"} \/ place \notin {"load", "eval"}
                 => Cardinality(Checking') <= Cardinality(Checking)
           /\ where[c] \in {"load", "eval"} /\ place = "idle"
                 => Cardinality(Checking') = Cardinality(Checking) - 1
<1> DEFINE old == Checking
           new == Checking'
<1>1. \A d \in Calls : where'[d] = IF d = c THEN place ELSE where[d]
    BY DEF AskTypes
<1>2. /\ new \subseteq old \cup {c}
      /\ c \in old \/ place \notin {"load", "eval"} => new \subseteq old
      /\ c \in old /\ place = "idle" => new = old \ {c}
      /\ c \in old <=> where[c] \in {"load", "eval"}
    BY <1>1 DEF Checking
<1>3. IsFiniteSet(old) /\ Cardinality(old) \in Nat
    BY CheckingIs
<1> HIDE DEF old, new
<1>4. IsFiniteSet(old \cup {c}) /\ Cardinality(old \cup {c}) <= Cardinality(old) + 1
  <2>1. Cardinality(old \cup {c}) = IF c \in old THEN Cardinality(old) ELSE Cardinality(old) + 1
      BY <1>3, FS_AddElement
  <2> QED BY <1>3, <2>1, FS_AddElement
<1>5. IsFiniteSet(new) /\ Cardinality(new) <= Cardinality(old \cup {c})
    BY <1>2, <1>4, FS_Subset
<1>6. Cardinality(new) \in Nat /\ Cardinality(old \cup {c}) \in Nat
    BY <1>4, <1>5, FS_CardinalityType
<1>7. new \subseteq old => Cardinality(new) <= Cardinality(old)
    BY <1>3, FS_Subset
<1>8. c \in old => Cardinality(old \ {c}) = Cardinality(old) - 1
    BY <1>3, FS_RemoveElement
<1>9. /\ Cardinality(new) \in Nat /\ Cardinality(new) <= Cardinality(old) + 1
      /\ c \in old \/ place \notin {"load", "eval"} => Cardinality(new) <= Cardinality(old)
      /\ c \in old /\ place = "idle" => Cardinality(new) = Cardinality(old) - 1
    BY <1>2, <1>3, <1>4, <1>5, <1>6, <1>7, <1>8
<1> QED BY <1>2, <1>9 DEF old, new

LEMMA SwitchesStep == Switches /\ [RedisNext]_windowVars => Switches'
<1> SUFFICES ASSUME Switches, [RedisNext]_windowVars PROVE Switches'
    OBVIOUS
<1>1. up' = up \/ up' = TRUE \/ up' = FALSE
    BY DEF RedisNext, BeginCheck, BeginStats, Begin, LoadScript, Allow, Refuse, Degrade, Stats,
           ResetLimit, Look, KeyExpires, BeginCleanup, DeleteKey, EndCleanup, RedisStops,
           RedisStarts, Tick, redisVars, windowVars
<1>2. script' = script \/ script' = TRUE \/ script' = FALSE
    BY DEF RedisNext, BeginCheck, BeginStats, Begin, LoadScript, Allow, Refuse, Degrade, Stats,
           ResetLimit, Look, KeyExpires, BeginCleanup, DeleteKey, EndCleanup, RedisStops,
           RedisStarts, Tick, redisVars, windowVars
<1>3. sha' = sha \/ sha' = TRUE
    BY DEF RedisNext, BeginCheck, BeginStats, Begin, LoadScript, Allow, Refuse, Degrade, Stats,
           ResetLimit, Look, KeyExpires, BeginCleanup, DeleteKey, EndCleanup, RedisStops,
           RedisStarts, Tick, windowVars
<1> QED BY <1>1, <1>2, <1>3 DEF Switches

LEMMA BoundsStep == RedisTypes /\ [RedisNext]_windowVars => Bounded'
<1> SUFFICES ASSUME RedisTypes, [RedisNext]_windowVars PROVE Bounded'
    OBVIOUS
<1>0. /\ AskTypes /\ Bounded /\ now \in Nat /\ lastId \in Nat /\ cleanups \in Nat
      /\ MaxTime \in Nat /\ MaxAdmitted \in Nat /\ MaxStops \in Nat /\ MaxCleanups \in Nat
    BY RedisLimiterAssumption DEF RedisTypes, WindowInv, WindowTypes, ClockTypes
<1>1. Cardinality(Checking) \in Nat
    BY CheckingIs
<1> USE DEF Bounded
<1>2. ASSUME NEW c \in Calls, NEW u \in Users, BeginCheck(c, u) PROVE Bounded'
  <2>1. lastId + Cardinality(Checking) < MaxAdmitted
      BY <1>2 DEF BeginCheck, Checking
  <2>2. PICK place : where' = [where EXCEPT ![c] = place]
      BY <1>2 DEF BeginCheck, Begin
  <2>3. Cardinality(Checking') \in Nat /\ Cardinality(Checking') <= Cardinality(Checking) + 1
      BY <1>0, <2>2, CheckingMoves
  <2>4. UNCHANGED <<now, lastId, stops, cleanups, raced>>
      BY <1>2 DEF BeginCheck, Begin, redisVars, cleanVars
  <2> QED BY <1>0, <1>1, <2>1, <2>3, <2>4
<1>3. ASSUME NEW c \in Calls, NEW u \in Users, BeginStats(c, u) PROVE Bounded'
  <2>1. where' = [where EXCEPT ![c] = "trim"]
      BY <1>3 DEF BeginStats, Begin
  <2>2. Cardinality(Checking') \in Nat /\ Cardinality(Checking') <= Cardinality(Checking)
    <3>1. "trim" \notin {"load", "eval"}
        BY <2>1
    <3> QED BY <1>0, <2>1, <3>1, CheckingMoves
  <2>3. UNCHANGED <<now, lastId, stops, cleanups, raced>>
      BY <1>3 DEF BeginStats, Begin, redisVars, cleanVars
  <2> QED BY <1>0, <1>1, <2>2, <2>3
<1>4. ASSUME NEW c \in Calls, LoadScript(c) PROVE Bounded'
  <2>1. where' = [where EXCEPT ![c] = "eval"] /\ where[c] = "load"
      BY <1>4 DEF LoadScript
  <2>2. Cardinality(Checking') \in Nat /\ Cardinality(Checking') <= Cardinality(Checking)
    <3>1. where[c] \in {"load", "eval"}
        BY <2>1
    <3> QED BY <1>0, <2>1, <3>1, CheckingMoves
  <2>3. UNCHANGED <<now, lastId, stops, cleanups, raced>>
      BY <1>4 DEF LoadScript, cleanVars
  <2> QED BY <1>0, <1>1, <2>2, <2>3
<1>5. ASSUME NEW c \in Calls, Allow(c) PROVE Bounded'
  <2>1. where' = [where EXCEPT ![c] = "idle"] /\ where[c] = "eval" /\ lastId' = lastId + 1
      BY <1>5 DEF Allow, Finish
  <2>2. Cardinality(Checking') \in Nat /\ Cardinality(Checking') = Cardinality(Checking) - 1
      BY <1>0, <2>1, CheckingMoves
  <2>3. UNCHANGED <<now, stops, cleanups, raced>>
      BY <1>5 DEF Allow, redisVars, cleanVars
  <2> QED BY <1>0, <1>1, <2>1, <2>2, <2>3
<1>6. ASSUME NEW c \in Calls, Refuse(c) \/ Degrade(c) \/ Stats(c) PROVE Bounded'
  <2>1. where' = [where EXCEPT ![c] = "idle"]
      BY <1>6 DEF Refuse, Degrade, Stats, Finish
  <2>2. Cardinality(Checking') \in Nat /\ Cardinality(Checking') <= Cardinality(Checking)
    <3>1. "idle" \notin {"load", "eval"}
        BY <2>1
    <3> QED BY <1>0, <2>1, <3>1, CheckingMoves
  <2>3. UNCHANGED <<now, lastId, stops, cleanups, raced>>
      BY <1>6 DEF Refuse, Degrade, Stats, redisVars, cleanVars
  <2> QED BY <1>0, <1>1, <2>2, <2>3
<1>7. ASSUME where' = where PROVE Checking' = Checking
    BY <1>7 DEF Checking
<1>8. ASSUME NEW u \in Users, ResetLimit(u) \/ Look(u) \/ KeyExpires(u) PROVE Bounded'
    BY <1>0, <1>7, <1>8 DEF ResetLimit, Look, KeyExpires, redisVars, callVars, cleanVars
<1>9. CASE DeleteKey
  <2>1. raced' \subseteq Users
      BY <1>9 DEF DeleteKey, RedisTypes, WindowInv, WindowTypes, Sweep
  <2> QED BY <1>0, <1>7, <1>9, <2>1 DEF DeleteKey, redisVars, callVars
<1>10. CASE BeginCleanup
  <2>1. cleanups' \in 0..MaxCleanups
      BY <1>0, <1>10 DEF BeginCleanup
  <2> QED BY <1>0, <1>7, <1>10, <2>1 DEF BeginCleanup, redisVars, callVars
<1>11. CASE EndCleanup
    BY <1>0, <1>7, <1>11 DEF EndCleanup, redisVars, callVars
<1>12. CASE RedisStops
  <2>1. stops' \in 0..MaxStops
      BY <1>0, <1>12 DEF RedisStops
  <2> QED BY <1>0, <1>7, <1>12, <2>1 DEF RedisStops, cleanVars
<1>13. CASE RedisStarts \/ UNCHANGED windowVars
    BY <1>0, <1>7, <1>13 DEF RedisStarts, windowVars, redisVars, callVars, cleanVars
<1>14. CASE Tick
  <2>1. now' <= MaxTime
      BY <1>0, <1>14 DEF Tick
  <2> QED BY <1>0, <1>7, <1>14, <2>1 DEF Tick, redisVars, callVars, cleanVars
<1> QED BY <1>2, <1>3, <1>4, <1>5, <1>6, <1>8, <1>9, <1>10, <1>11, <1>12, <1>13, <1>14 DEF RedisNext

(* Only a request let through gets a number, the next one.                 *)
LEMMA NumberedStep == RedisTypes /\ [RedisNext]_windowVars => Numbered'
<1> SUFFICES ASSUME RedisTypes, [RedisNext]_windowVars PROVE Numbered'
    OBVIOUS
<1>0. SetTypes /\ AskTypes /\ Sweep /\ Numbered /\ lastId \in Nat
    BY DEF RedisTypes, WindowInv, WindowTypes, ClockTypes
<1>1. ASSUME lastId' = lastId, \A u \in Users : zset'[u] \subseteq zset[u] /\ admitted'[u] \subseteq admitted[u],
             \A e \in cleaner'.seen : e \in cleaner.seen \/ \E u \in Users : e \in zset[u]
      PROVE  Numbered'
    BY <1>0, <1>1 DEF Numbered
<1>2. ASSUME NEW c \in Calls, Allow(c) PROVE Numbered'
  <2> DEFINE u == user[c]
             kept == Trim(zset[u], at[c])
             id == lastId + 1
             entry == [id |-> id, score |-> at[c] + 1]
             req == [id |-> id, at |-> at[c]]
  <2>1. u \in Users /\ lastId' = id /\ cleaner' = cleaner
        /\ zset' = [zset EXCEPT ![u] = kept \cup {entry}]
        /\ admitted' = [admitted EXCEPT ![u] = admitted[u] \cup {req}]
      BY <1>0, <1>2 DEF Allow, AskTypes, cleanVars
  <2>2. kept \subseteq zset[u] /\ entry.id = id /\ req.id = id
      BY DEF Trim
  <2>3. id \in Nat /\ id \in 1..id /\ 1..lastId \subseteq 1..id
      BY <1>0
  <2> HIDE DEF u, kept, entry, req, id
  <2>4. /\ zset'[u] = kept \cup {entry} /\ admitted'[u] = admitted[u] \cup {req}
        /\ \A v \in Users : v # u => zset'[v] = zset[v] /\ admitted'[v] = admitted[v]
      BY <1>0, <2>1 DEF SetTypes
  <2> QED BY <1>0, <2>1, <2>2, <2>3, <2>4 DEF Numbered
<1>3. ASSUME NEW c \in Calls, Refuse(c) \/ Stats(c) PROVE Numbered'
  <2>1. user[c] \in Users /\ lastId' = lastId /\ admitted' = admitted /\ cleaner' = cleaner
      BY <1>0, <1>3 DEF Refuse, Stats, AskTypes, cleanVars
  <2>2. zset' = zset \/ zset' = [zset EXCEPT ![user[c]] = Trim(zset[user[c]], at[c])]
      BY <1>3 DEF Refuse, Stats
  <2>3. \A u \in Users : zset'[u] \subseteq zset[u]
      BY <1>0, <2>1, <2>2 DEF SetTypes, Trim
  <2> QED BY <1>1, <2>1, <2>3
<1>4. ASSUME UNCHANGED <<lastId, zset, admitted, cleaner>> PROVE Numbered'
    BY <1>1, <1>4
<1>5. ASSUME NEW c \in Calls,
             \/ \E u \in Users : BeginCheck(c, u) \/ BeginStats(c, u)
             \/ LoadScript(c) \/ Degrade(c)
      PROVE  Numbered'
    BY <1>4, <1>5 DEF BeginCheck, BeginStats, Begin, LoadScript, Degrade, cleanVars
<1>6. ASSUME NEW u \in Users, ResetLimit(u) \/ KeyExpires(u) PROVE Numbered'
  <2>1. lastId' = lastId /\ cleaner' = cleaner /\ zset' = [zset EXCEPT ![u] = {}]
        /\ (admitted' = admitted \/ admitted' = [admitted EXCEPT ![u] = {}])
      BY <1>6 DEF ResetLimit, KeyExpires, cleanVars
  <2>2. \A v \in Users : zset'[v] \subseteq zset[v] /\ admitted'[v] \subseteq admitted[v]
      BY <1>0, <2>1 DEF SetTypes
  <2> QED BY <1>1, <2>1, <2>2
<1>7. ASSUME NEW u \in Users, Look(u) PROVE Numbered'
  <2>1. UNCHANGED <<lastId, zset, admitted>>
        /\ (cleaner'.seen = cleaner.seen \/ cleaner'.seen = zset[u])
      BY <1>0, <1>7 DEF Look, Sweep
  <2> QED BY <1>1, <2>1
<1>8. CASE BeginCleanup \/ EndCleanup
  <2>1. UNCHANGED <<lastId, zset, admitted>>
        /\ \/ cleaner' = [where |-> "look", at |-> now, left |-> {u \in Users : zset[u] # {}},
                          target |-> NoUser, seen |-> {}]
           \/ cleaner' = [where |-> "idle", at |-> 0, left |-> {}, target |-> NoUser, seen |-> {}]
      BY <1>8 DEF BeginCleanup, EndCleanup, Resting
  <2>2. \A u \in Users : zset'[u] \subseteq zset[u] /\ admitted'[u] \subseteq admitted[u]
      BY <2>1
  <2>3. \A e \in cleaner'.seen : FALSE
      BY <2>1
  <2> QED BY <1>1, <2>1, <2>2, <2>3
<1>9. CASE DeleteKey
  <2>1. UNCHANGED <<lastId, admitted>> /\ cleaner'.seen = {} /\ zset' = [zset EXCEPT ![cleaner.target] = {}]
      BY <1>0, <1>9 DEF DeleteKey, Sweep
  <2>2. \A v \in Users : zset'[v] \subseteq zset[v]
      BY <1>0, <2>1 DEF SetTypes
  <2> QED BY <1>1, <2>1, <2>2
<1>10. CASE RedisStops \/ RedisStarts \/ Tick \/ UNCHANGED windowVars
    BY <1>4, <1>10 DEF RedisStops, RedisStarts, Tick, windowVars, cleanVars
<1> QED BY <1>2, <1>3, <1>5, <1>6, <1>7, <1>8, <1>9, <1>10 DEF RedisNext

(* Type correctness of the Redis limiter: in particular no identifier is   *)
(* above the last one given, and no score is ahead of the clock by more    *)
(* than the weight of one request.                                         *)
THEOREM RedisTypeCorrect == RedisSpec => []RedisTypeOK
<1>1. RedisInit => RedisTypes
  <2> SUFFICES ASSUME RedisInit PROVE Switches /\ Bounded /\ Numbered
      BY RedisInitial DEF RedisTypes
  <2>1. Checking = {} /\ Cardinality({}) = 0
      BY FS_EmptySet DEF RedisInit, Checking
  <2>2. Bounded
      BY <2>1, RedisLimiterAssumption DEF RedisInit, Bounded
  <2>3. Numbered
      BY DEF RedisInit, Numbered, Resting
  <2>4. Switches
      BY DEF RedisInit, Switches
  <2> QED BY <2>2, <2>3, <2>4
<1>2. RedisTypes /\ [RedisNext]_windowVars => RedisTypes'
  <2> SUFFICES ASSUME RedisTypes, [RedisNext]_windowVars PROVE WindowInv' /\ Switches' /\ Bounded' /\ Numbered'
      BY DEF RedisTypes
  <2>1. WindowInv'
      BY RedisStepKeeps DEF RedisTypes
  <2> QED BY <2>1, SwitchesStep, BoundsStep, NumberedStep DEF RedisTypes
<1>3. RedisTypes => RedisTypeOK
  <2> SUFFICES ASSUME RedisTypes PROVE RedisTypeOK
      OBVIOUS
  <2>1. ClockTypes /\ SetTypes /\ AskTypes /\ Sweep /\ Switches /\ Bounded /\ Numbered
      BY DEF RedisTypes, WindowInv, WindowTypes
  <2>2. now \in 0..MaxTime /\ lastId \in 0..MaxAdmitted
      BY <2>1, CheckingIs, RedisLimiterAssumption DEF ClockTypes, Bounded
  <2>3. \A u \in Users : zset[u] \in SUBSET [id : 1..lastId, score : 1..(now + 1)]
      BY <2>1 DEF SetTypes, Entries, Numbered
  <2>4. \A u \in Users : admitted[u] \in SUBSET [id : 1..lastId, at : 0..now]
      BY <2>1 DEF SetTypes, Numbered
  <2>5. cleaner.seen \in SUBSET [id : 1..lastId, score : 1..(now + 1)]
      BY <2>1 DEF Sweep, Entries, Numbered
  <2>6. zset \in [Users -> SUBSET [id : 1..lastId, score : 1..(now + 1)]]
      BY <2>1, <2>3 DEF SetTypes
  <2>7. admitted \in [Users -> SUBSET [id : 1..lastId, at : 0..now]]
      BY <2>1, <2>4 DEF SetTypes
  <2>8. cleaner \in [where : {"idle", "look", "delete"}, at : 0..now, left : SUBSET Users,
                     target : Users \cup {NoUser},
                     seen : SUBSET [id : 1..lastId, score : 1..(now + 1)]]
      BY <2>1, <2>5 DEF Sweep
  <2> QED BY <2>1, <2>2, <2>6, <2>7, <2>8 DEF RedisTypeOK, Switches, Bounded, AskTypes
<1> QED BY <1>1, <1>2, <1>3, PTL DEF RedisSpec
================================================================================
