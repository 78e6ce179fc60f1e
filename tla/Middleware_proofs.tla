--------------------------- MODULE Middleware_proofs ---------------------------
(***************************************************************************)
(* Two of the middlewares' components.                                     *)
(*                                                                         *)
(* RequestChain: the cache of permissions stays current, what is shown to  *)
(* be allowed is what is let through, no refused request has had its tool  *)
(* run, and the accounts of the middlewares agree, whatever the users,     *)
(* rows, role tables, chains and requests are, and however many calls      *)
(* overlap.                                                                *)
(*                                                                         *)
(* RateLimiter: the windows and the bucket hold, and the retry_after of a  *)
(* full window can be relied on, whatever the limits and the arrivals are. *)
(***************************************************************************)
EXTENDS RequestChain, RateLimiter, FiniteSetTheorems, WellFoundedInduction, TLAPS

Fetching == {"userFetch", "roleFetch", "change"}
HasOwn == {"userFetched", "roleFetch", "roleFetched"}

PermTypes ==
    /\ rows \subseteq Row /\ cache = [u \in Users |-> cache[u]]
    /\ wire \in Tasks \cup {Nobody} /\ job \in [Tasks -> Job]

(* The connection carries the query of the one task that waits for it.     *)
WireIsHeld == \A t \in Tasks : job[t].at \in Fetching <=> wire = t

(* Only a look-up reads rows, only a change changes them.                  *)
LooksOnly ==
    \A t \in Tasks : /\ job[t].at \in HasOwn \cup {"userFetch"} => job[t].op = "look"
                     /\ job[t].at \in {"change", "changed"} => job[t].op \in {"grant", "revoke"}
                     /\ job[t].at = "change" => job[t].key \in Keys

(* What a look-up has read of its user's rows still stands.                *)
OwnStands ==
    \A t \in Tasks : job[t].at \in HasOwn /\ job[t].user # Nobody
                        => job[t].own = OwnRows(job[t].user) \/ job[t].user \in excused

Inv == PermTypes /\ WireIsHeld /\ LooksOnly /\ OwnStands /\ CacheIsCurrent

-----------------------------------------------------------------------------
(* What a change does to the rows                                          *)

LEMMA RestingIsJob == Resting \in Job /\ Resting.at = "idle"
BY DEF Resting, Job

LEMMA OwnRowsType == ASSUME rows \subseteq Row, NEW u PROVE OwnRows(u) \in SUBSET Grant
BY DEF OwnRows, Live, Row, Grant

LEMMA RoleRowsType == ASSUME rows \subseteq Row, NEW R PROVE RoleRows(R) \in SUBSET Grant
BY DEF RoleRows, Live, Row, Grant

LEMMA ChangedType ==
    ASSUME rows \subseteq Row, NEW j \in Job, j.key \in Keys
    PROVE  Changed(j) \subseteq Row
<1>1. Granted(j) \subseteq Row
  <2>1. [user |-> j.user, role |-> j.role, key |-> j.key, actions |-> j.actions, life |-> "open"] \in Row
    BY DEF Job, Row
  <2>2. \A r \in rows : [r EXCEPT !.actions = j.actions] \in Row
    BY DEF Job, Row
  <2> QED
    BY <2>1, <2>2 DEF Granted
<1> QED
  BY <1>1 DEF Changed

(* It leaves the rows of every user alone but its own and the bystanders.  *)
LEMMA ChangedKeeps ==
    ASSUME rows \subseteq Row, NEW j \in Job, j.op \in {"grant", "revoke"}, rows' = Changed(j),
           NEW u \in Users, u # j.user, u \notin Bystanders(j)
    PROVE  OwnRows(u)' = OwnRows(u)
<1>1. u # Nobody
  BY PermissionsAssumption
<1>2. {r \in rows' : r.user = u} = {r \in rows : r.user = u}
  <2>1. CASE j.op = "grant"
    <3> DEFINE old == {r \in rows : j.user # Nobody /\ r.user = j.user /\ r.key = j.key}
    <3>1. \A r \in old : r.user # u /\ [r EXCEPT !.actions = j.actions].user # u
      BY DEF Row
    <3>2. rows' = IF old = {} THEN rows \cup {[user |-> j.user, role |-> j.role, key |-> j.key,
                                                actions |-> j.actions, life |-> "open"]}
                  ELSE (rows \ old) \cup {[r EXCEPT !.actions = j.actions] : r \in old}
      BY <2>1 DEF Changed, Granted
    <3>3. CASE old = {}
      <4>1. rows' = rows \cup {[user |-> j.user, role |-> j.role, key |-> j.key,
                                actions |-> j.actions, life |-> "open"]}
        BY <3>2, <3>3
      <4> QED
        BY <4>1
    <3>4. CASE old # {}
      <4>1. rows' = (rows \ old) \cup {[r EXCEPT !.actions = j.actions] : r \in old}
        BY <3>2, <3>4
      <4> HIDE DEF old
      <4> QED
        BY <3>1, <4>1
    <3> QED
      BY <3>3, <3>4
  <2>2. CASE j.op # "grant" /\ j.user # Nobody
    BY <2>2 DEF Changed, Doomed
  <2>3. CASE j.op = "revoke" /\ j.user = Nobody
    BY <1>1, <2>3 DEF Changed, Bystanders
  <2> QED
    BY <2>1, <2>2, <2>3
<1> QED
  BY <1>2 DEF OwnRows, Live

-----------------------------------------------------------------------------
(* The invariant                                                           *)

LEMMA InvInit == ChainInit => Inv
<1> SUFFICES ASSUME ChainInit PROVE Inv
  OBVIOUS
<1> USE PermissionsAssumption
<1>1. PermTypes
  <2>1. job \in [Tasks -> Job]
    BY RestingIsJob DEF ChainInit, PermInit
  <2>2. rows \subseteq Row
    BY DEF ChainInit, PermInit, Row, Actions
  <2> QED
    BY <2>1, <2>2 DEF ChainInit, PermInit, PermTypes
<1>2. \A t \in Tasks : job[t] = Resting
  BY DEF ChainInit, PermInit
<1>3. \A t \in Tasks : wire # t
  BY DEF ChainInit, PermInit
<1>4. CacheIsCurrent
  BY DEF ChainInit, PermInit, NoEntry, CacheIsCurrent
<1> QED
  BY <1>1, <1>2, <1>3, <1>4, RestingIsJob DEF Inv, WireIsHeld, LooksOnly, OwnStands, Fetching, HasOwn

LEMMA UntouchedKeeps ==
    ASSUME Inv, UNCHANGED <<rows, cache, wire, job, excused>>
    PROVE  Inv'
BY DEF Inv, PermTypes, WireIsHeld, LooksOnly, OwnStands, CacheIsCurrent, OwnRows

(* What the rest of the system's state is, when one call has moved on.     *)
LEMMA OneMoves ==
    ASSUME PermTypes, NEW t \in Tasks, NEW next \in Job, job' = [job EXCEPT ![t] = next]
    PROVE  /\ job' \in [Tasks -> Job] /\ job'[t] = next
           /\ \A u \in Tasks \ {t} : job'[u] = job[u]
BY DEF PermTypes

LEMMA SendKeeps ==
    ASSUME Inv, NEW t \in Tasks, NEW next \in Job, Send(t, next),
           UNCHANGED <<rows, cache, excused>>,
           job[t].at \notin Fetching \cup {"changed"}, next.at \in Fetching,
           next.at # "change" => next.op = "look",
           next.at = "change" => next.op \in {"grant", "revoke"} /\ next.key \in Keys,
           next.at = "roleFetch" /\ next.user # Nobody
                => next.own = OwnRows(next.user) \/ next.user \in excused
    PROVE  Inv'
<1> USE PermissionsAssumption
<1>1. PermTypes /\ WireIsHeld /\ LooksOnly /\ OwnStands /\ CacheIsCurrent
  BY DEF Inv
<1>2. \A u : OwnRows(u)' = OwnRows(u)
  BY DEF OwnRows
<1>3. \A u \in Tasks : job[u].at = "changed" => u # t
  OBVIOUS
<1>4. CASE wire = Nobody /\ wire' = t /\ job' = [job EXCEPT ![t] = next]
  <2>1. /\ job' \in [Tasks -> Job] /\ job'[t] = next
        /\ \A u \in Tasks \ {t} : job'[u] = job[u]
    BY <1>1, <1>4, OneMoves
  <2>2. PermTypes'
    BY <1>1, <1>4, <2>1 DEF PermTypes
  <2>3. WireIsHeld'
    BY <1>1, <1>4, <2>1 DEF WireIsHeld
  <2>4. LooksOnly'
    BY <1>1, <2>1 DEF LooksOnly, Fetching, HasOwn
  <2>5. OwnStands'
    BY <1>1, <1>2, <2>1 DEF OwnStands, Fetching, HasOwn
  <2>6. CacheIsCurrent'
    BY <1>1, <1>2, <1>3, <2>1 DEF CacheIsCurrent
  <2> QED
    BY <2>2, <2>3, <2>4, <2>5, <2>6 DEF Inv
<1>5. CASE wire' = wire /\ job' = [job EXCEPT ![t] = Resting]
  <2>1. /\ job' \in [Tasks -> Job] /\ job'[t] = Resting
        /\ \A u \in Tasks \ {t} : job'[u] = job[u]
    BY <1>1, <1>5, OneMoves, RestingIsJob
  <2>2. PermTypes'
    BY <1>1, <1>5, <2>1 DEF PermTypes
  <2>3. WireIsHeld'
    BY <1>1, <1>5, <2>1, RestingIsJob DEF WireIsHeld, Fetching
  <2>4. LooksOnly'
    BY <1>1, <2>1, RestingIsJob DEF LooksOnly, HasOwn
  <2>5. OwnStands'
    BY <1>1, <1>2, <2>1, RestingIsJob DEF OwnStands, HasOwn
  <2>6. CacheIsCurrent'
    BY <1>1, <1>2, <1>3, <2>1 DEF CacheIsCurrent
  <2> QED
    BY <2>2, <2>3, <2>4, <2>5, <2>6 DEF Inv
<1> QED
  BY <1>4, <1>5 DEF Send

(* clear_cache: an excuse goes only with the look-ups it was for.          *)
LEMMA ClearKeeps ==
    ASSUME Inv, NEW users, Clear(users), UNCHANGED <<rows, wire>>,
           \/ job' = job
           \/ \E t \in Tasks : /\ job' = [job EXCEPT ![t] = Resting] /\ job[t].at = "changed"
                             /\ job[t].user \in users \cup {Nobody}
    PROVE  Inv'
<1> USE PermissionsAssumption
<1>1. PermTypes /\ WireIsHeld /\ LooksOnly /\ OwnStands /\ CacheIsCurrent
  BY DEF Inv
<1>2. \A u : OwnRows(u)' = OwnRows(u)
  BY DEF OwnRows
<1>3. /\ job' \in [Tasks -> Job]
      /\ \A u \in Tasks : \/ job'[u] = job[u]
                          \/ /\ job'[u].at = "idle" /\ job[u].at = "changed"
                             /\ job[u].user \in users \cup {Nobody}
  BY <1>1, OneMoves, RestingIsJob DEF PermTypes
<1>4. PermTypes'
  BY <1>1, <1>3 DEF PermTypes, Clear
<1>5. WireIsHeld'
  BY <1>1, <1>3 DEF WireIsHeld, Fetching
<1>6. LooksOnly'
  BY <1>1, <1>3 DEF LooksOnly, HasOwn
<1>7. OwnStands'
  <2> SUFFICES ASSUME NEW u \in Tasks, job'[u].at \in HasOwn, job'[u].user # Nobody
               PROVE  (job[u].own = OwnRows(job[u].user) \/ job[u].user \in excused)'
    BY DEF OwnStands
  <2>1. job'[u] = job[u] /\ job[u].op = "look"
    BY <1>1, <1>3 DEF HasOwn, LooksOnly
  <2>3. OwnRows(job[u].user)' = OwnRows(job[u].user)
    BY <2>1 DEF OwnRows
  <2>2. job[u].user \in excused => job[u].user \in excused'
    BY <2>1 DEF Clear, Looking
  <2> QED
    BY <1>1, <2>1, <2>2, <2>3 DEF OwnStands
<1>8. CacheIsCurrent'
  <2> SUFFICES ASSUME NEW u \in Users, cache'[u].filled
               PROVE  \/ cache'[u].own = OwnRows(u)' \/ u \in excused'
                      \/ \E o \in Tasks : job'[o].at = "changed" /\ job'[o].user = u
    BY DEF CacheIsCurrent
  <2>1. u \notin users /\ cache'[u] = cache[u]
    BY DEF Clear, NoEntry
  <2>2. u \in excused => u \in excused'
    BY <2>1 DEF Clear
  <2>3. \A o \in Tasks : job[o].at = "changed" /\ job[o].user = u => job'[o] = job[o]
    BY <2>1, <1>3
  <2> QED
    BY <1>1, <1>2, <2>1, <2>2, <2>3 DEF CacheIsCurrent
<1> QED
  BY <1>4, <1>5, <1>6, <1>7, <1>8 DEF Inv

(* The task whose query is on the connection is the only one that has read *)
(* something or waits for its clear_cache, when the reply is read.         *)
LEMMA ServeKeeps ==
    ASSUME Inv, NEW t \in Tasks, Serve(t)
    PROVE  Inv'
<1> USE PermissionsAssumption
<1> DEFINE j == job[t]
           next == CASE j.at = "userFetch" -> [j EXCEPT !.at = "userFetched", !.own = OwnRows(j.user),
                                                        !.got = OwnRows(j.user)]
                     [] j.at = "roleFetch" -> [j EXCEPT !.at = "roleFetched", !.got = @ \cup RoleRows(j.roles)]
                     [] OTHER -> [j EXCEPT !.at = "changed"]
<1>1. PermTypes /\ WireIsHeld /\ LooksOnly /\ OwnStands /\ CacheIsCurrent
  BY DEF Inv
<1>2. /\ j \in Job /\ rows \subseteq Row
      /\ j.at \in Fetching /\ wire = t /\ wire' = Nobody /\ job' = [job EXCEPT ![t] = next]
      /\ cache' = cache
      /\ \A u \in Tasks \ {t} : job[u].at \notin Fetching \cup HasOwn \cup {"changed"}
  BY <1>1 DEF Serve, PermTypes, WireIsHeld, Ready, Fetching, HasOwn
<1>3. /\ next \in Job /\ next.op = j.op /\ next.user = j.user /\ next.at \in {"userFetched", "roleFetched", "changed"}
      /\ next.at = "changed" <=> j.at = "change"
  <2>1. CASE j.at = "userFetch"
    <3>1. OwnRows(j.user) \in SUBSET Grant
      BY <1>2, OwnRowsType
    <3> QED
      BY <1>2, <2>1, <3>1 DEF Job, HasOwn
  <2>2. CASE j.at = "roleFetch"
    <3>1. RoleRows(j.roles) \in SUBSET Grant
      BY <1>2, RoleRowsType
    <3> QED
      BY <1>2, <2>2, <3>1 DEF Job, HasOwn
  <2>3. CASE j.at = "change"
    BY <1>2, <2>3 DEF Job, HasOwn
  <2> QED
    BY <1>2, <2>1, <2>2, <2>3 DEF Fetching
<1>4. j.at = "userFetch" => next.own = OwnRows(j.user)
  BY <1>2 DEF Job
<1>5. j.at = "roleFetch" => next.own = j.own
  BY <1>2 DEF Job
<1> HIDE DEF next
<1>6. /\ job' \in [Tasks -> Job] /\ job'[t] = next
      /\ \A u \in Tasks \ {t} : job'[u] = job[u]
  BY <1>1, <1>2, <1>3, OneMoves
<1>7. rows' \subseteq Row
  <2>1. CASE j.at = "change"
    BY <1>1, <1>2, <2>1, ChangedType DEF Serve, LooksOnly
  <2>2. CASE j.at # "change"
    BY <1>2, <2>2 DEF Serve
  <2> QED
    BY <2>1, <2>2
<1>8. PermTypes'
  BY <1>1, <1>2, <1>6, <1>7 DEF PermTypes
<1>9. WireIsHeld'
  <2>1. \A u \in Tasks : job'[u].at \notin Fetching
    BY <1>2, <1>3, <1>6 DEF Fetching, HasOwn
  <2>2. \A u \in Tasks : wire' # u
    BY <1>2
  <2> QED
    BY <2>1, <2>2 DEF WireIsHeld
<1>10. LooksOnly'
  BY <1>1, <1>2, <1>3, <1>6 DEF LooksOnly, Fetching, HasOwn
<1>11. CASE j.at # "change"
  <2>1. rows' = rows /\ excused' = excused /\ \A u : OwnRows(u)' = OwnRows(u)
    BY <1>11 DEF Serve, OwnRows
  <2>2. OwnStands'
    BY <1>1, <1>2, <1>3, <1>4, <1>5, <1>6, <1>11, <2>1 DEF OwnStands, Fetching, HasOwn
  <2>3. \A u \in Tasks : job[u].at = "changed" => job'[u] = job[u]
    BY <1>2, <1>6 DEF Fetching
  <2>4. CacheIsCurrent'
    BY <1>1, <1>2, <2>1, <2>3 DEF CacheIsCurrent
  <2> QED
    BY <1>8, <1>9, <1>10, <2>2, <2>4 DEF Inv
<1>12. CASE j.at = "change"
  <2>1. rows' = Changed(j) /\ excused' = excused \cup Bystanders(j) /\ j.op \in {"grant", "revoke"}
    BY <1>1, <1>12 DEF Serve, LooksOnly
  <2>2. job'[t].at = "changed" /\ job'[t].user = j.user
    BY <1>3, <1>6, <1>12
  <2>3. OwnStands'
    BY <1>2, <1>6, <2>2 DEF OwnStands, HasOwn
  <2>4. CacheIsCurrent'
    <3> SUFFICES ASSUME NEW u \in Users, cache'[u].filled, u # j.user, u \notin excused'
                 PROVE  cache'[u].own = OwnRows(u)'
      BY <2>2 DEF CacheIsCurrent
    <3>1. OwnRows(u)' = OwnRows(u)
      BY <1>2, <2>1, ChangedKeeps
    <3>2. ~ \E o \in Tasks : job[o].at = "changed"
      BY <1>2 DEF Fetching
    <3> QED
      BY <1>1, <1>2, <2>1, <3>1, <3>2 DEF CacheIsCurrent
  <2> QED
    BY <1>8, <1>9, <1>10, <2>3, <2>4 DEF Inv
<1> QED
  BY <1>11, <1>12

LEMMA BreakKeeps ==
    ASSUME Inv, NEW t \in Tasks, Break(t)
    PROVE  Inv'
<1> USE PermissionsAssumption
<1> DEFINE j == job[t]
<1>1. PermTypes /\ WireIsHeld /\ LooksOnly /\ OwnStands /\ CacheIsCurrent
  BY DEF Inv
<1>2. /\ j \in Job /\ rows \subseteq Row
      /\ j.at \in Fetching /\ wire = t /\ wire' = Nobody /\ job' = [job EXCEPT ![t] = Resting]
      /\ cache' = cache
      /\ \A u \in Tasks \ {t} : job[u].at \notin Fetching \cup HasOwn \cup {"changed"}
  BY <1>1 DEF Break, PermTypes, WireIsHeld, Ready, Fetching, HasOwn
<1>3. /\ job' \in [Tasks -> Job] /\ job'[t] = Resting
      /\ \A u \in Tasks \ {t} : job'[u] = job[u]
  BY <1>1, <1>2, OneMoves, RestingIsJob
<1>4. \/ rows' = rows /\ excused' = excused
      \/ /\ j.at = "change" /\ rows' = Changed(j)
         /\ excused' = excused \cup Bystanders(j) \cup ({j.user} \ {Nobody})
  BY DEF Break
<1>5. j.at = "change" => j.op \in {"grant", "revoke"} /\ j.key \in Keys
  BY <1>1 DEF LooksOnly
<1>6. rows' \subseteq Row
  BY <1>2, <1>4, <1>5, ChangedType
<1>7. PermTypes'
  BY <1>1, <1>2, <1>3, <1>6 DEF PermTypes
<1>8. WireIsHeld'
  BY <1>2, <1>3, RestingIsJob DEF WireIsHeld, Fetching
<1>9. LooksOnly'
  BY <1>1, <1>3, RestingIsJob DEF LooksOnly, HasOwn
<1>10. OwnStands'
  BY <1>2, <1>3, RestingIsJob DEF OwnStands, HasOwn
<1>11. CacheIsCurrent'
  <2> SUFFICES ASSUME NEW u \in Users, cache'[u].filled, u \notin excused'
               PROVE  cache'[u].own = OwnRows(u)'
    BY DEF CacheIsCurrent
  <2>1. u \notin excused /\ OwnRows(u)' = OwnRows(u)
    <3>1. CASE rows' = rows /\ excused' = excused
      BY <3>1 DEF OwnRows
    <3>2. CASE /\ j.at = "change" /\ rows' = Changed(j)
               /\ excused' = excused \cup Bystanders(j) \cup ({j.user} \ {Nobody})
      <4>1. u \notin excused /\ u # j.user /\ u \notin Bystanders(j)
        BY <3>2
      <4> QED
        BY <1>2, <1>5, <3>2, <4>1, ChangedKeeps
    <3> QED
      BY <1>4, <3>1, <3>2
  <2>2. ~ \E o \in Tasks : job[o].at = "changed"
    BY <1>2 DEF Fetching
  <2> QED
    BY <1>1, <1>2, <2>1, <2>2 DEF CacheIsCurrent
<1> QED
  BY <1>7, <1>8, <1>9, <1>10, <1>11 DEF Inv

LEMMA FillKeeps ==
    ASSUME Inv, NEW t \in Tasks, Looked(t)
    PROVE  Inv'
<1> USE PermissionsAssumption
<1> DEFINE j == job[t]
<1>1. PermTypes /\ WireIsHeld /\ LooksOnly /\ OwnStands /\ CacheIsCurrent
  BY DEF Inv
<1>2. /\ j.at \in HasOwn /\ j.at \notin Fetching \cup {"changed"}
      /\ job' = [job EXCEPT ![t] = Resting] /\ UNCHANGED <<rows, wire, excused>>
  BY DEF Looked, Fill, HasOwn, Fetching, tables
<1>3. /\ job' \in [Tasks -> Job] /\ job'[t] = Resting
      /\ \A u \in Tasks \ {t} : job'[u] = job[u]
  BY <1>1, <1>2, OneMoves, RestingIsJob
<1>4. \A u : OwnRows(u)' = OwnRows(u)
  BY <1>2 DEF OwnRows
<1>5. /\ cache' = [u \in Users |-> cache'[u]]
      /\ \A u \in Users : \/ cache'[u] = cache[u]
                          \/ u = j.user /\ j.user # Nobody /\ cache'[u].own = j.own
  BY <1>1 DEF Looked, Fill, PermTypes
<1>6. PermTypes'
  BY <1>1, <1>2, <1>3, <1>5 DEF PermTypes
<1>7. WireIsHeld'
  BY <1>1, <1>2, <1>3, RestingIsJob DEF WireIsHeld, Fetching
<1>8. LooksOnly'
  BY <1>1, <1>3, RestingIsJob DEF LooksOnly, HasOwn
<1>9. OwnStands'
  BY <1>1, <1>2, <1>3, <1>4, RestingIsJob DEF OwnStands, HasOwn
<1>10. CacheIsCurrent'
  <2> SUFFICES ASSUME NEW u \in Users, cache'[u].filled
               PROVE  \/ cache'[u].own = OwnRows(u)' \/ u \in excused'
                      \/ \E o \in Tasks : job'[o].at = "changed" /\ job'[o].user = u
    BY DEF CacheIsCurrent
  <2>1. CASE cache'[u] = cache[u]
    BY <1>1, <1>2, <1>3, <1>4, <2>1 DEF CacheIsCurrent
  <2>2. CASE u = j.user /\ j.user # Nobody /\ cache'[u].own = j.own
    BY <1>1, <1>2, <1>4, <2>2 DEF OwnStands
  <2> QED
    BY <1>5, <2>1, <2>2
<1> QED
  BY <1>6, <1>7, <1>8, <1>9, <1>10 DEF Inv

(* A row that lapses excuses its user.                                     *)
LEMMA LapseKeeps ==
    ASSUME Inv, Lapse
    PROVE  Inv'
<1> USE PermissionsAssumption
<1>1. PermTypes /\ WireIsHeld /\ LooksOnly /\ OwnStands /\ CacheIsCurrent
  BY DEF Inv
<1>2. PICK r \in rows : /\ rows' = (rows \ {r}) \cup {[r EXCEPT !.life = "ended"]}
                        /\ excused' = excused \cup ({r.user} \ {Nobody})
  BY DEF Lapse
<1>3. UNCHANGED <<cache, wire, job>>
  BY DEF Lapse
<1>4. r \in Row /\ [r EXCEPT !.life = "ended"] \in Row /\ [r EXCEPT !.life = "ended"].user = r.user
  BY <1>1 DEF PermTypes, Row
<1>5. PermTypes'
  BY <1>1, <1>2, <1>3, <1>4 DEF PermTypes
<1>6. \A u \in Users : u \in excused' \/ (u \notin excused /\ OwnRows(u)' = OwnRows(u))
  <2> SUFFICES ASSUME NEW u \in Users, u \notin excused'
               PROVE  OwnRows(u)' = OwnRows(u)
    BY <1>2
  <2>1. u # r.user
    BY <1>2
  <2>2. {s \in rows' : s.user = u} = {s \in rows : s.user = u}
    BY <1>2, <1>4, <2>1
  <2> QED
    BY <2>2 DEF OwnRows, Live
<1>7. \A u \in excused : u \in excused'
  BY <1>2
<1>8. OwnStands'
  <2>1. \A t \in Tasks : job[t].user \in Users \cup {Nobody}
    BY <1>1 DEF PermTypes, Job
  <2> QED
    BY <1>1, <1>3, <1>6, <2>1 DEF OwnStands
<1>9. CacheIsCurrent'
  BY <1>1, <1>3, <1>6 DEF CacheIsCurrent
<1> QED
  BY <1>1, <1>3, <1>5, <1>8, <1>9 DEF Inv, WireIsHeld, LooksOnly

LEMMA LookKeeps ==
    ASSUME Inv, NEW t \in Tasks, Look(t)
    PROVE  Inv'
<1>1. PermTypes /\ LooksOnly
  BY DEF Inv
<1>2. PICK u \in Users \cup {Nobody}, roles \in RoleSets :
         LET start == [Resting EXCEPT !.op = "look", !.user = u, !.roles = roles]
         IN  CASE u # Nobody /\ cache[u].filled -> UNCHANGED <<wire, job>>
               [] u # Nobody /\ ~cache[u].filled -> Send(t, [start EXCEPT !.at = "userFetch"])
               [] u = Nobody /\ roles # {} -> Send(t, [start EXCEPT !.at = "roleFetch"])
               [] OTHER -> UNCHANGED <<wire, job>>
  BY DEF Look
<1>3. UNCHANGED <<rows, cache, excused>> /\ job[t].op = "none"
  BY DEF Look, tables
<1>4. job[t].at \notin Fetching \cup {"changed"}
  BY <1>1, <1>3 DEF LooksOnly, Fetching, HasOwn
<1> DEFINE start == [Resting EXCEPT !.op = "look", !.user = u, !.roles = roles]
<1>5. CASE UNCHANGED <<wire, job>>
  BY <1>3, <1>5, UntouchedKeeps
<1>6. CASE u # Nobody /\ Send(t, [start EXCEPT !.at = "userFetch"])
  <2> DEFINE next == [start EXCEPT !.at = "userFetch"]
  <2>1. next \in Job /\ next.at = "userFetch" /\ next.op = "look"
    BY DEF Resting, Job
  <2> HIDE DEF next
  <2> QED
    BY <1>3, <1>4, <1>6, <2>1, SendKeeps DEF next, Fetching
<1>7. CASE u = Nobody /\ Send(t, [start EXCEPT !.at = "roleFetch"])
  <2> DEFINE next == [start EXCEPT !.at = "roleFetch"]
  <2>1. next \in Job /\ next.at = "roleFetch" /\ next.op = "look" /\ next.user = Nobody
    BY <1>7 DEF Resting, Job
  <2>2. Send(t, next)
    BY <1>7
  <2> HIDE DEF next
  <2> QED
    BY <1>3, <1>4, <2>1, <2>2, SendKeeps DEF Fetching
<1> QED
  BY <1>2, <1>5, <1>6, <1>7

LEMMA ChangeKeeps ==
    ASSUME Inv, NEW t \in Tasks, NEW next \in Job, Send(t, next), job[t].op = "none",
           next.at = "change", next.op \in {"grant", "revoke"}, next.key \in Keys,
           UNCHANGED <<rows, cache, excused>>
    PROVE  Inv'
<1>1. job[t].at \notin Fetching \cup {"changed"}
  BY DEF Inv, LooksOnly, Fetching, HasOwn
<1> QED
  BY <1>1, SendKeeps DEF Fetching

LEMMA GiveKeeps == ASSUME Inv, NEW t \in Tasks, Give(t) PROVE Inv'
<1>1. PICK u \in Users \cup {Nobody}, r \in RowRoles \cup {Nobody}, k \in Keys, a \in Grants :
         Send(t, [Resting EXCEPT !.op = "grant", !.at = "change", !.user = u, !.role = r,
                                 !.key = k, !.actions = a])
  BY DEF Give
<1> DEFINE next == [Resting EXCEPT !.op = "grant", !.at = "change", !.user = u, !.role = r,
                                   !.key = k, !.actions = a]
<1>2. next \in Job /\ next.at = "change" /\ next.op = "grant" /\ next.key \in Keys
  BY PermissionsAssumption DEF Resting, Job
<1>3. Send(t, next)
  BY <1>1
<1> HIDE DEF next
<1> QED
  BY <1>2, <1>3, ChangeKeeps DEF Give, tables

LEMMA TakeKeeps == ASSUME Inv, NEW t \in Tasks, Take(t) PROVE Inv'
<1>1. PICK u \in Users \cup {Nobody}, r \in RowRoles \cup {Nobody}, k \in Keys :
         Send(t, [Resting EXCEPT !.op = "revoke", !.at = "change", !.user = u, !.role = r, !.key = k])
  BY DEF Take
<1> DEFINE next == [Resting EXCEPT !.op = "revoke", !.at = "change", !.user = u, !.role = r, !.key = k]
<1>2. next \in Job /\ next.at = "change" /\ next.op = "revoke" /\ next.key \in Keys
  BY DEF Resting, Job
<1>3. Send(t, next)
  BY <1>1
<1> HIDE DEF next
<1> QED
  BY <1>2, <1>3, ChangeKeeps DEF Take, tables

LEMMA FetchRolesKeeps == ASSUME Inv, NEW t \in Tasks, FetchRoles(t) PROVE Inv'
<1>1. PermTypes /\ LooksOnly /\ OwnStands
  BY DEF Inv
<1> DEFINE next == [job[t] EXCEPT !.at = "roleFetch"]
<1>2. job[t] \in Job /\ job[t].at = "userFetched" /\ job[t].op = "look"
  BY <1>1 DEF PermTypes, FetchRoles, LooksOnly, HasOwn
<1>3. /\ next \in Job /\ next.at = "roleFetch" /\ next.op = "look"
      /\ next.user = job[t].user /\ next.own = job[t].own
  BY <1>2 DEF Job
<1>4. next.user # Nobody => next.own = OwnRows(next.user) \/ next.user \in excused
  BY <1>1, <1>2, <1>3 DEF OwnStands, HasOwn
<1>5. Send(t, next)
  BY DEF FetchRoles
<1> HIDE DEF next
<1> QED
  BY <1>2, <1>3, <1>4, <1>5, SendKeeps DEF FetchRoles, tables, Fetching

LEMMA InvStep == Inv /\ [Next]_vars => Inv'
<1> SUFFICES ASSUME Inv, [Next]_vars
             PROVE  Inv'
  OBVIOUS
<1>1. CASE UNCHANGED <<rows, cache, wire, job, excused>>
  BY <1>1, UntouchedKeeps
<1>2. CASE PermNext
  <2>1. CASE ChangeRole
    BY <1>1, <2>1 DEF ChangeRole
  <2>2. CASE ClearCache
    <3>1. PICK users \in {{u} : u \in Users} \cup {Users} : Clear(users)
      BY <2>2 DEF ClearCache
    <3>2. UNCHANGED <<rows, wire, job>>
      BY <2>2 DEF ClearCache, tables
    <3> QED
      BY <3>1, <3>2, ClearKeeps
  <2>3. CASE Lapse
    BY <2>3, LapseKeeps
  <2>4. ASSUME NEW t \in Tasks, ChangeEnds(t)
        PROVE  Inv'
    BY <2>4, ClearKeeps DEF ChangeEnds, tables
  <2> QED
    BY <1>2, <2>1, <2>2, <2>3, <2>4, LookKeeps, GiveKeeps, TakeKeeps, ServeKeeps, BreakKeeps,
       FetchRolesKeeps, FillKeeps DEF PermNext
<1> QED
  BY <1>1, <1>2 DEF Next, ResetMetrics, ResetStatistics, Arrive, GatewayAnswers, LimiterAnswers, ToolEnds,
                    vars, permVars, tables

-----------------------------------------------------------------------------
(* The properties                                                          *)

(* No look-up of permissions puts rows of before a change back into the    *)
(* cache after the change has cleared it.                                  *)
THEOREM CacheStaysCurrent == Spec => []CacheIsCurrent
<1>1. Inv => CacheIsCurrent
  BY DEF Inv
<1> QED
  BY <1>1, InvInit, InvStep, PTL DEF Spec

(* What a caller is shown to be allowed is what the checks let through,    *)
(* but that they also let those read who are shown to write when rights    *)
(* are inherited.                                                          *)
THEOREM AllowedIsWhatIsChecked == Spec => []AllowedIsChecked
<1>1. AllowedIsChecked
  <2>1. ASSUME NEW roles \in RoleSets, NEW type \in Types, NEW action \in Actions
        PROVE  MayUse(roles, type, action)
                   <=> \/ <<type, action>> \in UserPermissions(roles)
                       \/ /\ Inheritance /\ action = "read"
                          /\ <<type, "write">> \in UserPermissions(roles)
    <3>1. \A p : p \in UserPermissions(roles) <=> \E r \in roles : p \in Held(Canonical(r))
      BY DEF UserPermissions
    <3>2. MayUse(roles, type, action)
              <=> \E r \in roles : \/ <<type, action>> \in Held(Canonical(r))
                                   \/ Inheritance /\ action = "read" /\ <<type, "write">> \in Held(Canonical(r))
      BY DEF MayUse, Suffices
    <3> QED
      BY <3>1, <3>2
  <2>2. ASSUME NEW roles \in RoleSets, NEW perms, NEW m \in Matches,
               NEW type \in Types, NEW action \in Actions
        PROVE  MayTouch(roles, type, m[2], action, perms)
                   <=> \E p \in Allowed(roles, type, action, perms) : Fits(p, m[2])
    BY DEF MayTouch, Allowed, Fits
  <2> QED
    BY <2>1, <2>2 DEF AllowedIsChecked
<1> QED
  BY <1>1, PTL

-----------------------------------------------------------------------------
(* The least of a set of naturals, and what comes out of a chain           *)

LEMMA Least ==
    ASSUME NEW S, S \subseteq Nat, S # {}
    PROVE  Min(S) \in S /\ \A y \in S : Min(S) <= y
<1> DEFINE R == OpToRel(<, Nat)
<1>1. \A x, y \in S : <<y, x>> \in R <=> y < x
  BY DEF OpToRel
<1>2. IsWellFoundedOn(R, Nat)
  BY NatLessThanWellFounded
<1> HIDE DEF R
<1>3. PICK x \in S : \A y \in S : ~ (<<y, x>> \in R)
  BY <1>2, WFMin
<1>4. \A y \in S : ~ (y < x)
  BY <1>1, <1>3
<1> HIDE <1>1, <1>2, <1>3
<1>5. \A y \in S : x <= y
  BY <1>4
<1> QED
  BY <1>5 DEF Min

(* AuthMiddleware is the one layer that turns what passes through it, and  *)
(* it lets its own answers pass.                                           *)
Turned(r, i, depth, o) ==
    IF \E k \in i..depth : chain[k] = "auth" THEN Through("auth", r, o) ELSE o

LEMMA ThroughTurns ==
    ASSUME NEW r, NEW o, NEW layer
    PROVE  /\ layer # "auth" => Through(layer, r, o) = o
           /\ Through("auth", r, Through("auth", r, o)) = Through("auth", r, o)
BY DEF Through, Answer

LEMMA TurnedOnce ==
    ASSUME NEW r, NEW o, NEW depth \in Nat, NEW i \in 1..depth
    PROVE  Turned(r, i, depth, o) = Through(chain[i], r, Turned(r, i + 1, depth, o))
<1>1. (\E k \in i..depth : chain[k] = "auth")
        <=> chain[i] = "auth" \/ \E k \in i + 1..depth : chain[k] = "auth"
  OBVIOUS
<1>2. CASE chain[i] = "auth"
  BY <1>1, <1>2, ThroughTurns DEF Turned
<1>3. CASE chain[i] # "auth"
  BY <1>1, <1>3, ThroughTurns DEF Turned
<1> QED
  BY <1>2, <1>3

(* The recursion of Seen, unfolded.                                        *)
LEMMA SeenUnfolds ==
    ASSUME NEW r, NEW o, NEW depth \in Nat
    PROVE  Seen(r, depth, o) =
               [i \in 1..depth + 1 |->
                   IF i = depth + 1 THEN o ELSE Through(chain[i], r, Seen(r, depth, o)[i + 1])]
<1> DEFINE Body(f) == [i \in 1..depth + 1 |-> IF i = depth + 1 THEN o ELSE Through(chain[i], r, f[i + 1])]
           witness == [i \in 1..depth + 1 |-> Turned(r, i, depth, o)]
<1>1. witness = Body(witness)
  <2> SUFFICES ASSUME NEW i \in 1..depth + 1
               PROVE  Turned(r, i, depth, o) =
                          IF i = depth + 1 THEN o ELSE Through(chain[i], r, witness[i + 1])
    OBVIOUS
  <2>1. CASE i = depth + 1
    BY <2>1 DEF Turned
  <2>2. CASE i # depth + 1
    <3>1. i \in 1..depth /\ witness[i + 1] = Turned(r, i + 1, depth, o)
      BY <2>2
    <3> QED
      BY <2>2, <3>1, TurnedOnce
  <2> QED
    BY <2>1, <2>2
<1>2. Seen(r, depth, o) = CHOOSE f : f = Body(f)
  BY DEF Seen
<1> QED
  BY <1>1, <1>2

LEMMA SeenIsTurned ==
    ASSUME NEW r, NEW o, NEW depth \in Nat
    PROVE  \A i \in 1..depth + 1 : Seen(r, depth, o)[i] = Turned(r, i, depth, o)
<1> DEFINE seen == Seen(r, depth, o)
           wrong == {n \in 0..depth : seen[depth + 1 - n] # Turned(r, depth + 1 - n, depth, o)}
<1>1. \A i \in 1..depth + 1 : seen[i] = IF i = depth + 1 THEN o ELSE Through(chain[i], r, seen[i + 1])
  BY SeenUnfolds
<1> HIDE DEF seen
<1>2. wrong = {}
  <2> SUFFICES ASSUME wrong # {} PROVE FALSE
    OBVIOUS
  <2>1. PICK n \in wrong : \A m \in wrong : n <= m
    <3>1. wrong \subseteq Nat
      OBVIOUS
    <3> HIDE DEF wrong
    <3>2. Min(wrong) \in wrong /\ \A m \in wrong : Min(wrong) <= m
      BY <3>1, Least
    <3> QED
      BY <3>2
  <2>2. CASE n = 0
    BY <1>1, <2>1, <2>2 DEF Turned
  <2>3. CASE n # 0
    <3> DEFINE i == depth + 1 - n
    <3>1. i \in 1..depth /\ n - 1 \in 0..depth /\ depth + 1 - (n - 1) = i + 1 /\ n - 1 \notin wrong
      BY <2>1, <2>3
    <3>2. seen[i + 1] = Turned(r, i + 1, depth, o)
      BY <3>1
    <3>3. seen[i] = Through(chain[i], r, seen[i + 1])
      BY <1>1, <3>1
    <3>4. seen[i] = Turned(r, i, depth, o)
      BY <3>1, <3>2, <3>3, TurnedOnce
    <3> QED
      BY <2>1, <3>4
  <2> QED
    BY <2>2, <2>3
<1>3. \A i \in 1..depth + 1 : depth + 1 - i \in 0..depth /\ depth + 1 - (depth + 1 - i) = i
  OBVIOUS
<1> QED
  BY <1>2, <1>3 DEF seen

LEMMA AnswerIs ==
    ASSUME NEW what
    PROVE  Answer(what).how = "answer" /\ Answer(what).what = what
BY DEF Answer

LEMMA RaiseIs ==
    ASSUME NEW what
    PROVE  Raise(what).how = "raise" /\ Raise(what).what = what
BY DEF Raise

LEMMA TurnedKeepsVerdict ==
    ASSUME NEW r, NEW o, NEW i, NEW depth
    PROVE  /\ Fails(Turned(r, i, depth, o)) <=> Fails(o)
           /\ Turned(r, i, depth, o).how = "raise" => o.how = "raise"
           /\ Turned(r, i, depth, o).what \in {o.what, "unavailable", "internal"}
<1> DEFINE unavailable == Answer("unavailable")
           internal == Answer("internal")
           turned == Turned(r, i, depth, o)
<1>1. turned = o \/ (turned \in {unavailable, internal} /\ o.how = "raise")
  <2>1. CASE o.what = "http"
    BY <2>1 DEF Turned, Through
  <2>2. CASE o.what # "http"
    BY <2>2 DEF Turned, Through
  <2> QED
    BY <2>1, <2>2
<1>2. /\ unavailable.how = "answer" /\ unavailable.what = "unavailable"
      /\ internal.how = "answer" /\ internal.what = "internal"
  BY DEF Answer
<1> HIDE DEF turned, unavailable, internal
<1>3. Fails(turned) <=> Fails(o)
  BY <1>1, <1>2 DEF Fails
<1>4. (turned.how = "raise" => o.how = "raise") /\ turned.what \in {o.what, "unavailable", "internal"}
  BY <1>1, <1>2
<1> QED
  BY <1>3, <1>4 DEF turned

-----------------------------------------------------------------------------
(* The way of a request through its chain                                  *)

Logs == [info : Nat, error : Nat]
Counts == [requests : Nat, errors : Nat]
ErrorCounts == [mcp : Nat, unexpected : Nat]
Tallies == [requests : Nat, errors : Nat, told : Nat, refusals : Nat, dropped : Nat, softened : Nat,
            unseen : Nat, unmetered : Nat]

CountTypes ==
    /\ metrics \in Counts /\ errors \in ErrorCounts /\ log \in Logs
    /\ captured \in Nat /\ tally \in Tallies

(* A request waits in AuthMiddleware or for Redis, or is in its tool.      *)
Placed ==
    /\ chain \in Chains /\ place \in [Tasks -> 0..Len(chain) + 1]
    /\ \A t \in Tasks : place[t] \in 1..Len(chain) => chain[place[t]] \in {"auth", "redis"}

ChainInv == CountTypes /\ Placed /\ RefusedNeverRan /\ AccountsAgree

LEMMA ChainFacts ==
    ASSUME Placed
    PROVE  Len(chain) \in Nat /\ InOrder(chain)
BY ChainAssumption DEF Placed

(* The middlewares that may raise when they refuse.                        *)
Raising == {"jwt", "roles", "validation"}

(* What a middleware refuses with fails.                                   *)
LEMMA RefusalFails ==
    ASSUME NEW i, NEW r, NEW full, Refusal(i, r, full) # Pass
    PROVE  /\ Fails(Refusal(i, r, full))
           /\ Refusal(i, r, full).how = "raise" => chain[i] \in Raising
<1> DEFINE o == Refusal(i, r, full)
           answers(x) == x = Pass \/ x.how = "answer"
           raises(x) == x = Pass \/ x.how = "raise"
           valid == RefusedByValidation(r, User(r, i))
<1>1. answers(RefusedByAuth(r)) /\ answers(Answer("limited"))
  <2>1. answers(Answer("unauthorized")) /\ answers(Answer("limited"))
    BY AnswerIs
  <2>2. RefusedByAuth(r) = Pass \/ RefusedByAuth(r) = Answer("unauthorized")
    BY DEF RefusedByAuth
  <2> QED
    BY <2>1, <2>2
<1>4. answers(valid) \/ raises(valid)
  <2>1. answers(Answer("invalid")) /\ answers(Answer("denied")) /\ raises(Raise("other"))
    BY AnswerIs, RaiseIs
  <2>2. \/ valid = Pass \/ valid = Raise("other")
        \/ valid = Answer("invalid") \/ valid = Answer("denied")
    BY DEF RefusedByValidation, IsCall
  <2> HIDE DEF valid
  <2> QED
    BY <2>1, <2>2
<1>2. raises(RefusedByJwt(r)) /\ raises(RefusedByRoles(r, User(r, i)))
  <2>1. \A w \in {"missing header", "unauthenticated", "forbidden"} : raises(Raise(w))
    BY RaiseIs
  <2>2. RefusedByJwt(r) = Pass \/ RefusedByJwt(r) = Raise("missing header")
    BY DEF RefusedByJwt
  <2>3. LET o2 == RefusedByRoles(r, User(r, i))
        IN  o2 = Pass \/ o2 = Raise("unauthenticated") \/ o2 = Raise("forbidden")
    BY DEF RefusedByRoles, IsCall, MayCall
  <2> QED
    BY <2>1, <2>2, <2>3
<1>3. o = IF chain[i] = "auth" THEN RefusedByAuth(r)
          ELSE IF chain[i] = "jwt" THEN RefusedByJwt(r)
          ELSE IF chain[i] = "validation" THEN valid
          ELSE IF chain[i] = "roles" THEN RefusedByRoles(r, User(r, i))
          ELSE IF chain[i] = "limit" /\ full /\ User(r, i).type # "service" THEN Answer("limited")
          ELSE Pass
  BY DEF Refusal
<1> HIDE DEF valid
<1> QED
  BY <1>1, <1>2, <1>3, <1>4 DEF Fails, Raising

(* How far a request got that comes back: into all that keep accounts, if  *)
(* it comes with an exception, and into the log before the metrics.        *)
Enters(layer, depth) == \E i \in 1..depth : chain[i] = layer
Has(layer) == Enters(layer, Len(chain))

LEMMA EntersInOrder ==
    ASSUME Placed, NEW depth \in 0..Len(chain)
    PROVE  /\ \A layer : Enters(layer, depth) => Has(layer)
           /\ Enters("metrics", depth) /\ Has("logging") => Enters("logging", depth)
           /\ depth = Len(chain) \/ chain[depth + 1] \in {"jwt", "roles"}
                => \A layer \in {"observe", "errors", "metrics"} : Has(layer) => Enters(layer, depth)
           /\ depth < Len(chain) /\ chain[depth + 1] = "validation"
                => (Has("observe") => Enters("observe", depth))
           /\ \A i \in 1..depth : chain[i] = "errors" => ~ \E k \in i..depth : chain[k] = "auth"
           /\ \A i \in 1..depth : chain[i] = "observe" =>
                  ((\E k \in 1..depth : chain[k] = "auth") <=> \E k \in i + 1..depth : chain[k] = "auth")
<1>1. Len(chain) \in Nat /\ InOrder(chain)
  BY ChainFacts
<1>2. \A layer : Enters(layer, depth) => Has(layer)
  BY <1>1 DEF Enters, Has
<1>3. Enters("metrics", depth) /\ Has("logging") => Enters("logging", depth)
  BY <1>1 DEF Enters, Has, InOrder, Before
<1>4. ASSUME depth = Len(chain) \/ chain[depth + 1] \in {"jwt", "roles"},
             NEW layer \in {"observe", "errors", "metrics"}, Has(layer)
      PROVE  Enters(layer, depth)
  <2>1. CASE depth = Len(chain)
    BY <1>4, <2>1 DEF Enters, Has
  <2>2. CASE depth # Len(chain)
    <3>1. depth + 1 \in 1..Len(chain) /\ chain[depth + 1] \in {"jwt", "roles"}
      BY <1>1, <1>4, <2>2
    <3>2. PICK i \in 1..Len(chain) : chain[i] = layer
      BY <1>4 DEF Enters, Has
    <3>3. i < depth + 1
      BY <1>1, <3>1, <3>2 DEF InOrder, Before
    <3> QED
      BY <1>1, <3>1, <3>2, <3>3 DEF Enters
  <2> QED
    BY <2>1, <2>2
<1>5. \A i \in 1..depth : chain[i] = "errors" => ~ \E k \in i..depth : chain[k] = "auth"
  BY <1>1 DEF InOrder, Before
<1>6. \A i, k \in 1..depth : chain[i] = "observe" /\ chain[k] = "auth" => i < k
  BY <1>1 DEF InOrder, Before
<1>7. ASSUME depth < Len(chain), chain[depth + 1] = "validation", Has("observe")
      PROVE  Enters("observe", depth)
  <2>1. PICK i \in 1..Len(chain) : chain[i] = "observe"
    BY <1>7 DEF Enters, Has
  <2>2. depth + 1 \in 1..Len(chain) /\ i < depth + 1
    BY <1>1, <1>7, <2>1 DEF InOrder, Before
  <2> QED
    BY <1>1, <2>1, <2>2 DEF Enters
<1> QED
  BY <1>2, <1>3, <1>4, <1>5, <1>6, <1>7

(* What a middleware sees of the outcome.                                  *)
LEMMA WithinIsTurned ==
    ASSUME NEW r, NEW o, NEW depth \in Nat, NEW layer, Enters(layer, depth)
    PROVE  \E i \in 1..depth :
               /\ chain[i] = layer
               /\ Seen(r, depth, o)[1 + CHOOSE k \in 1..depth : chain[k] = layer] = Turned(r, i + 1, depth, o)
<1> DEFINE i == CHOOSE k \in 1..depth : chain[k] = layer
<1>1. i \in 1..depth /\ chain[i] = layer
  BY DEF Enters
<1> HIDE DEF i
<1>2. i + 1 \in 1..depth + 1 /\ i + 1 = 1 + i
  BY <1>1
<1>3. Seen(r, depth, o)[1 + i] = Turned(r, i + 1, depth, o)
  BY <1>2, SeenIsTurned
<1> QED
  BY <1>1, <1>3 DEF i

(* The counters, one step at a time.                                       *)
LEMMA LoggedIs ==
    ASSUME NEW l \in Logs, NEW o
    PROVE  /\ Logged(l, o) \in Logs
           /\ Fails(o) => Logged(l, o).info = l.info /\ Logged(l, o).error = l.error + 1
           /\ ~Fails(o) => Logged(l, o).info = l.info + 1 /\ Logged(l, o).error = l.error
<1>1. CASE Fails(o)
  <2>1. Logged(l, o) = [l EXCEPT !.error = l.error + 1]
    BY <1>1 DEF Logged, Bump
  <2> QED
    BY <1>1, <2>1 DEF Logs
<1>2. CASE ~Fails(o)
  <2>1. Logged(l, o) = [l EXCEPT !.info = l.info + 1]
    BY <1>2 DEF Logged, Bump
  <2> QED
    BY <1>2, <2>1 DEF Logs
<1> QED
  BY <1>1, <1>2

LEMMA CountedIs ==
    ASSUME NEW m \in Counts, NEW o
    PROVE  /\ Counted(m, o) \in Counts /\ Counted(m, o).requests = m.requests + 1
           /\ Counted(m, o).errors = m.errors + (IF Fails(o) THEN 1 ELSE 0)
<1> DEFINE one == IF Fails(o) THEN 1 ELSE 0
<1>1. one \in Nat
  OBVIOUS
<1>2. Counted(m, o) = [requests |-> m.requests + 1, errors |-> m.errors + one]
  BY DEF Counted
<1> HIDE DEF one
<1>3. /\ Counted(m, o) \in Counts /\ Counted(m, o).requests = m.requests + 1
      /\ Counted(m, o).errors = m.errors + one
  BY <1>1, <1>2 DEF Counts
<1> QED
  BY <1>3 DEF one

LEMMA NotedIs ==
    ASSUME NEW e \in ErrorCounts, NEW o
    PROVE  /\ Noted(e, o) \in ErrorCounts
           /\ o.how # "raise" => Noted(e, o) = e
           /\ o.how = "raise" => Total(Noted(e, o)) = Total(e) + 1
<1>1. CASE o.how # "raise"
  BY <1>1 DEF Noted
<1>2. CASE o.how = "raise" /\ o.what = "mcp"
  <2>1. Noted(e, o) = [e EXCEPT !.mcp = e.mcp + 1]
    BY <1>2 DEF Noted, LogMcpError, Bump
  <2> QED
    BY <1>2, <2>1 DEF ErrorCounts, Total
<1>3. CASE o.how = "raise" /\ o.what # "mcp"
  <2>1. Noted(e, o) = [e EXCEPT !.unexpected = e.unexpected + 1]
    BY <1>3 DEF Noted, LogUnexpectedError, Bump
  <2> QED
    BY <1>3, <2>1 DEF ErrorCounts, Total
<1> QED
  BY <1>1, <1>2, <1>3

(* A request comes back because ValidationMiddleware has raised.           *)
ByValidation(o, depth) == o.how = "raise" /\ depth < Len(chain) /\ chain[depth + 1] = "validation"

(* What one returning request adds to the accounts.                        *)
LEMMA ReturnCounts ==
    ASSUME ChainInv, NEW t \in Tasks, NEW r, NEW o, NEW depth \in 0..Len(chain), Return(t, r, depth, o)
    PROVE  /\ CountTypes'
           /\ ~Enters("logging", depth) => log' = log
           /\ Enters("logging", depth) /\ Fails(o) => log'.info = log.info /\ log'.error = log.error + 1
           /\ Enters("logging", depth) /\ ~Fails(o) => log'.info = log.info + 1 /\ log'.error = log.error
           /\ ~Enters("metrics", depth) => metrics' = metrics
           /\ Enters("metrics", depth) =>
                /\ metrics'.requests = metrics.requests + 1
                /\ metrics'.errors = metrics.errors + (IF Fails(o) THEN 1 ELSE 0)
           /\ tally'.requests = tally.requests /\ tally'.errors = tally.errors /\ tally'.told = tally.told
           /\ IF Enters("logging", depth) /\ ~Enters("metrics", depth)
              THEN IF Fails(o)
                   THEN tally'.refusals = tally.refusals + 1 /\ tally'.dropped = tally.dropped
                   ELSE tally'.refusals = tally.refusals /\ tally'.dropped = tally.dropped + 1
              ELSE tally'.refusals = tally.refusals /\ tally'.dropped = tally.dropped
           /\ tally'.unseen = tally.unseen
                + (IF ByValidation(o, depth) /\ ~Enters("errors", depth) THEN 1 ELSE 0)
           /\ tally'.unmetered = tally.unmetered
                + (IF /\ ByValidation(o, depth) /\ Enters("errors", depth)
                      /\ ~Enters("metrics", depth) THEN 1 ELSE 0)
           /\ IF o.how # "raise"
              THEN errors' = errors /\ captured' = captured /\ tally'.softened = tally.softened
              ELSE /\ Total(errors)' = Total(errors) + (IF Enters("errors", depth) THEN 1 ELSE 0)
                   /\ Enters("observe", depth) =>
                        captured' + tally'.softened = captured + tally.softened + 1
<1> DEFINE seen == Seen(r, depth, o)
           Within(layer) == seen[1 + CHOOSE k \in 1..depth : chain[k] = layer]
           Uncounted == Enters("logging", depth) /\ ~Enters("metrics", depth)
           Unseen == ByValidation(o, depth) /\ ~Enters("errors", depth)
           Unmetered == ByValidation(o, depth) /\ Enters("errors", depth) /\ ~Enters("metrics", depth)
<1>1. CountTypes /\ Placed /\ depth \in Nat
  BY ChainFacts DEF ChainInv
<1>2. \A layer : Enters(layer, depth) =>
          \E i \in 1..depth : chain[i] = layer /\ Within(layer) = Turned(r, i + 1, depth, o)
  BY <1>1, WithinIsTurned
<1>3. seen[1] = Turned(r, 1, depth, o)
  BY <1>1, SeenIsTurned
<1>4. /\ metrics' = IF Enters("metrics", depth) THEN Counted(metrics, Within("metrics")) ELSE metrics
      /\ errors' = IF Enters("errors", depth) THEN Noted(errors, Within("errors")) ELSE errors
      /\ log' = IF Enters("logging", depth) THEN Logged(log, Within("logging")) ELSE log
      /\ captured' = IF Enters("observe", depth) THEN Captured(captured, Within("observe")) ELSE captured
      /\ tally' = [tally EXCEPT
                     !.refusals = @ + (IF Uncounted /\ Fails(o) THEN 1 ELSE 0),
                     !.dropped = @ + (IF Uncounted /\ ~Fails(o) THEN 1 ELSE 0),
                     !.softened = @ + (IF depth > 0 /\ o.how = "raise" /\ seen[1].how = "answer"
                                       THEN 1 ELSE 0),
                     !.unseen = @ + (IF Unseen THEN 1 ELSE 0),
                     !.unmetered = @ + (IF Unmetered THEN 1 ELSE 0)]
  BY DEF Return, Enters, ByValidation
<1> HIDE DEF seen, Within, Unseen, Unmetered
<1>5. \A layer : Enters(layer, depth) => (Fails(Within(layer)) <=> Fails(o))
  BY <1>2, TurnedKeepsVerdict
<1>6. \A layer : Enters(layer, depth) /\ Within(layer).how = "raise" => o.how = "raise"
  BY <1>2, TurnedKeepsVerdict
<1>7. /\ log' \in Logs
      /\ ~Enters("logging", depth) => log' = log
      /\ Enters("logging", depth) /\ Fails(o) => log'.info = log.info /\ log'.error = log.error + 1
      /\ Enters("logging", depth) /\ ~Fails(o) => log'.info = log.info + 1 /\ log'.error = log.error
  BY <1>1, <1>4, <1>5, LoggedIs DEF CountTypes
<1>8. /\ metrics' \in Counts
      /\ ~Enters("metrics", depth) => metrics' = metrics
      /\ Enters("metrics", depth) =>
           /\ metrics'.requests = metrics.requests + 1
           /\ metrics'.errors = metrics.errors + (IF Fails(o) THEN 1 ELSE 0)
  BY <1>1, <1>4, <1>5, CountedIs DEF CountTypes
<1>9. /\ errors' \in ErrorCounts
      /\ o.how # "raise" => errors' = errors
      /\ Enters("errors", depth) /\ Within("errors").how = "raise" => Total(errors)' = Total(errors) + 1
      /\ ~Enters("errors", depth) => errors' = errors
  BY <1>1, <1>4, <1>6, NotedIs DEF CountTypes, Total
<1>10. Enters("errors", depth) => Within("errors") = o
  <2> SUFFICES ASSUME Enters("errors", depth) PROVE Within("errors") = o
    OBVIOUS
  <2>1. PICK i \in 1..depth : chain[i] = "errors" /\ Within("errors") = Turned(r, i + 1, depth, o)
    BY <1>2
  <2>2. ~ \E k \in i + 1..depth : chain[k] = "auth"
    BY <1>1, <2>1, EntersInOrder
  <2> QED
    BY <2>1, <2>2 DEF Turned
<1>11. /\ tally' \in Tallies
       /\ tally'.requests = tally.requests /\ tally'.errors = tally.errors /\ tally'.told = tally.told
       /\ tally'.refusals = tally.refusals + (IF Uncounted /\ Fails(o) THEN 1 ELSE 0)
       /\ tally'.dropped = tally.dropped + (IF Uncounted /\ ~Fails(o) THEN 1 ELSE 0)
       /\ tally'.softened = tally.softened + (IF depth > 0 /\ o.how = "raise" /\ seen[1].how = "answer"
                                              THEN 1 ELSE 0)
       /\ tally'.unseen = tally.unseen + (IF Unseen THEN 1 ELSE 0)
       /\ tally'.unmetered = tally.unmetered + (IF Unmetered THEN 1 ELSE 0)
  <2> DEFINE a == IF Uncounted /\ Fails(o) THEN 1 ELSE 0
             b == IF Uncounted /\ ~Fails(o) THEN 1 ELSE 0
             c == IF depth > 0 /\ o.how = "raise" /\ seen[1].how = "answer" THEN 1 ELSE 0
             d == IF Unseen THEN 1 ELSE 0
             e == IF Unmetered THEN 1 ELSE 0
  <2>1. a \in Nat /\ b \in Nat /\ c \in Nat /\ d \in Nat /\ e \in Nat
    OBVIOUS
  <2>2. tally' = [tally EXCEPT !.refusals = @ + a, !.dropped = @ + b, !.softened = @ + c,
                               !.unseen = @ + d, !.unmetered = @ + e]
    BY <1>4
  <2> HIDE DEF a, b, c, d, e
  <2>4. tally' = [requests |-> tally.requests, errors |-> tally.errors, told |-> tally.told,
                  refusals |-> tally.refusals + a, dropped |-> tally.dropped + b,
                  softened |-> tally.softened + c, unseen |-> tally.unseen + d,
                  unmetered |-> tally.unmetered + e]
    BY <1>1, <2>2 DEF CountTypes, Tallies
  <2>3. /\ tally' \in Tallies
        /\ tally'.requests = tally.requests /\ tally'.errors = tally.errors /\ tally'.told = tally.told
        /\ tally'.refusals = tally.refusals + a /\ tally'.dropped = tally.dropped + b
        /\ tally'.softened = tally.softened + c
        /\ tally'.unseen = tally.unseen + d /\ tally'.unmetered = tally.unmetered + e
    <3>1. /\ tally.requests \in Nat /\ tally.errors \in Nat /\ tally.told \in Nat
          /\ tally.refusals + a \in Nat /\ tally.dropped + b \in Nat /\ tally.softened + c \in Nat
          /\ tally.unseen + d \in Nat /\ tally.unmetered + e \in Nat
      <4>1. /\ tally.requests \in Nat /\ tally.errors \in Nat /\ tally.told \in Nat
            /\ tally.refusals \in Nat /\ tally.dropped \in Nat /\ tally.softened \in Nat
            /\ tally.unseen \in Nat /\ tally.unmetered \in Nat
        BY <1>1 DEF CountTypes, Tallies
      <4>2. \A x, y \in Nat : x + y \in Nat
        OBVIOUS
      <4> QED
        BY <2>1, <4>1, <4>2, Zenon
    <3>2. tally' \in Tallies
      BY <2>4, <3>1 DEF Tallies
    <3> QED
      BY <2>4, <3>2
  <2> QED
    BY <2>3 DEF a, b, c, d, e
<1>12. captured' \in Nat /\ (o.how # "raise" => captured' = captured)
  BY <1>1, <1>4, <1>6 DEF CountTypes, Captured
<1>13. tally.refusals \in Nat /\ tally.dropped \in Nat /\ tally.softened \in Nat /\ Total(errors) \in Nat
       /\ (errors' = errors => Total(errors)' = Total(errors))
  BY <1>1 DEF CountTypes, Tallies, ErrorCounts, Total
<1>14. ASSUME Enters("observe", depth), o.how = "raise"
       PROVE  captured' + tally'.softened = captured + tally.softened + 1
  <2>1. PICK i \in 1..depth : chain[i] = "observe" /\ Within("observe") = Turned(r, i + 1, depth, o)
    BY <1>2, <1>14
  <2>2. Within("observe") = seen[1] /\ depth > 0
    BY <1>1, <1>3, <2>1, EntersInOrder DEF Turned
  <2>3. seen[1].how \in {"answer", "raise"}
    BY <1>3, <1>14, TurnedKeepsVerdict DEF Fails
  <2>4. captured' = captured + (IF seen[1].how = "raise" THEN 1 ELSE 0)
    <3>1. captured' = Captured(captured, seen[1])
      BY <1>4, <1>14, <2>2
    <3> QED
      BY <1>1, <3>1 DEF CountTypes, Captured
  <2> QED
    BY <1>1, <1>11, <1>14, <1>13, <2>2, <2>3, <2>4 DEF CountTypes
<1>15. CountTypes'
  BY <1>7, <1>8, <1>9, <1>11, <1>12 DEF CountTypes
<1>16. o.how = "raise" => Total(errors)' = Total(errors) + (IF Enters("errors", depth) THEN 1 ELSE 0)
  BY <1>1, <1>9, <1>10, <1>13
<1>17. IF Uncounted
       THEN IF Fails(o)
            THEN tally'.refusals = tally.refusals + 1 /\ tally'.dropped = tally.dropped
            ELSE tally'.refusals = tally.refusals /\ tally'.dropped = tally.dropped + 1
       ELSE tally'.refusals = tally.refusals /\ tally'.dropped = tally.dropped
  BY <1>11, <1>13
<1>18. o.how # "raise" => tally'.softened = tally.softened
  BY <1>11, <1>13
<1> QED
  BY <1>7, <1>8, <1>9, <1>11, <1>12, <1>14, <1>15, <1>16, <1>17, <1>18 DEF Unseen, Unmetered

-----------------------------------------------------------------------------
(* The steps of the chain                                                  *)

(* The sums, when one request is added to them.                            *)
LEMMA LogBalance ==
    ASSUME log.info \in Nat, log.error \in Nat, metrics.requests \in Nat,
           tally.requests \in Nat, tally.refusals \in Nat, tally.dropped \in Nat,
           log.info + log.error = metrics.requests + tally.requests + tally.refusals + tally.dropped,
           tally'.requests = tally.requests,
           \/ /\ log'.info = log.info /\ log'.error = log.error /\ metrics'.requests = metrics.requests
              /\ tally'.refusals = tally.refusals /\ tally'.dropped = tally.dropped
           \/ /\ log'.info + log'.error = log.info + log.error + 1
              /\ \/ /\ metrics'.requests = metrics.requests + 1
                    /\ tally'.refusals = tally.refusals /\ tally'.dropped = tally.dropped
                 \/ /\ metrics'.requests = metrics.requests
                    /\ tally'.refusals = tally.refusals + 1 /\ tally'.dropped = tally.dropped
                 \/ /\ metrics'.requests = metrics.requests
                    /\ tally'.refusals = tally.refusals /\ tally'.dropped = tally.dropped + 1
    PROVE  log'.info + log'.error
               = metrics'.requests + tally'.requests + tally'.refusals + tally'.dropped
OBVIOUS

LEMMA ErrorBalance ==
    ASSUME metrics.errors \in Nat, tally.errors \in Nat, tally.refusals \in Nat,
           log.error = metrics.errors + tally.errors + tally.refusals, tally'.errors = tally.errors,
           \/ /\ log'.error = log.error /\ metrics'.errors = metrics.errors
              /\ tally'.refusals = tally.refusals
           \/ /\ log'.error = log.error + 1 /\ metrics'.errors = metrics.errors + 1
              /\ tally'.refusals = tally.refusals
           \/ /\ log'.error = log.error + 1 /\ metrics'.errors = metrics.errors
              /\ tally'.refusals = tally.refusals + 1
    PROVE  log'.error = metrics'.errors + tally'.errors + tally'.refusals
OBVIOUS

LEMMA SentryBalance ==
    ASSUME Total(errors) \in Nat, tally.told \in Nat, captured \in Nat, captured' \in Nat,
           tally.softened \in Nat, tally'.softened \in Nat,
           tally.unseen \in Nat, tally'.told = tally.told,
           \/ Total(errors)' = Total(errors) + 1 /\ tally'.unseen = tally.unseen
           \/ Total(errors)' = Total(errors) /\ tally'.unseen = tally.unseen + 1,
           captured' + tally'.softened = captured + tally.softened + 1,
           Total(errors) + tally.told + tally.unseen = captured + tally.softened
    PROVE  Total(errors)' + tally'.told + tally'.unseen = captured' + tally'.softened
OBVIOUS

LEMMA ErrorsSuffice ==
    ASSUME Total(errors) \in Nat, tally.told \in Nat, metrics.errors \in Nat, tally.errors \in Nat,
           tally.unmetered \in Nat, tally'.told = tally.told, tally'.errors = tally.errors,
           \/ /\ Total(errors)' = Total(errors) /\ tally'.unmetered = tally.unmetered
              /\ metrics'.errors = metrics.errors \/ metrics'.errors = metrics.errors + 1
           \/ /\ Total(errors)' = Total(errors) + 1 /\ tally'.unmetered = tally.unmetered
              /\ metrics'.errors = metrics.errors + 1
           \/ /\ Total(errors)' = Total(errors) + 1 /\ tally'.unmetered = tally.unmetered + 1
              /\ metrics'.errors = metrics.errors,
           Total(errors) + tally.told <= metrics.errors + tally.errors + tally.unmetered
    PROVE  Total(errors)' + tally'.told <= metrics'.errors + tally'.errors + tally'.unmetered
OBVIOUS

LEMMA ReturnKeeps ==
    ASSUME ChainInv, NEW t \in Tasks, NEW r, NEW o, NEW depth \in 0..Len(chain),
           Return(t, r, depth, o), chain' = chain,
           o.how = "raise" => depth = Len(chain) \/ chain[depth + 1] \in Raising,
           InTool(t) => o.what \notin Refusals
    PROVE  ChainInv'
<1>1. CountTypes /\ Placed /\ AccountsAgree /\ Len(chain) \in Nat
  BY ChainFacts DEF ChainInv
<1>2. Placed'
  BY <1>1 DEF Placed, Return
<1>3. RefusedNeverRan'
  <2>1. Seen(r, depth, o)[1] = Turned(r, 1, depth, o)
    BY <1>1, SeenIsTurned
  <2>2. answered'.ran = InTool(t) /\ answered'.outcome.what \in {o.what, "unavailable", "internal"}
    BY <2>1, TurnedKeepsVerdict DEF Return
  <2> QED
    BY <2>2 DEF RefusedNeverRan, Refusals
<1>4. CountTypes'
  BY ReturnCounts
<1>5. AccountsAgree'
  <2>1. /\ Enters("metrics", depth) /\ Has("logging") => Enters("logging", depth)
        /\ o.how = "raise" /\ ~ByValidation(o, depth) =>
             \A layer \in {"observe", "errors", "metrics"} : Has(layer) => Enters(layer, depth)
        /\ ByValidation(o, depth) /\ Has("observe") => Enters("observe", depth)
        /\ \A layer : Enters(layer, depth) => Has(layer)
    BY <1>1, EntersInOrder DEF ByValidation, Raising
  <2>2. o.how = "raise" => Fails(o)
    BY DEF Fails
  <2>3. \A layers : layers \subseteq {chain[i] : i \in 1..Len(chain)} <=> \A layer \in layers : Has(layer)
    BY DEF Has, Enters
  <2>4. /\ log.info \in Nat /\ log.error \in Nat /\ metrics.requests \in Nat /\ metrics.errors \in Nat
        /\ tally.requests \in Nat /\ tally.errors \in Nat /\ tally.told \in Nat /\ tally.refusals \in Nat
        /\ tally.dropped \in Nat /\ tally.softened \in Nat /\ captured \in Nat /\ captured' \in Nat
        /\ tally'.softened \in Nat /\ Total(errors) \in Nat /\ tally.unseen \in Nat
        /\ tally.unmetered \in Nat
    <3>1. log.info \in Nat /\ log.error \in Nat /\ metrics.requests \in Nat /\ metrics.errors \in Nat
      BY <1>1 DEF CountTypes, Counts, Logs
    <3>2. /\ tally.requests \in Nat /\ tally.errors \in Nat /\ tally.told \in Nat
          /\ tally.refusals \in Nat /\ tally.dropped \in Nat /\ tally.softened \in Nat
          /\ tally.unseen \in Nat /\ tally.unmetered \in Nat
      BY <1>1 DEF CountTypes, Tallies
    <3>3. captured' \in Nat /\ tally'.softened \in Nat
      BY <1>4 DEF CountTypes, Tallies
    <3>4. captured \in Nat /\ Total(errors) \in Nat
      BY <1>1 DEF CountTypes, ErrorCounts, Total
    <3> QED
      BY <3>1, <3>2, <3>3, <3>4
  <2>5. /\ tally'.requests = tally.requests /\ tally'.errors = tally.errors /\ tally'.told = tally.told
        /\ o.how # "raise" => /\ captured' = captured /\ tally'.softened = tally.softened
                              /\ Total(errors)' = Total(errors)
        /\ o.how = "raise" =>
             /\ Total(errors)' = Total(errors) + (IF Enters("errors", depth) THEN 1 ELSE 0)
             /\ Enters("observe", depth) => captured' + tally'.softened = captured + tally.softened + 1
    BY ReturnCounts DEF Total
  <2>9. /\ tally'.unseen = IF ByValidation(o, depth) /\ ~Enters("errors", depth)
                           THEN tally.unseen + 1 ELSE tally.unseen
        /\ tally'.unmetered = IF ByValidation(o, depth) /\ Enters("errors", depth) /\ ~Enters("metrics", depth)
                              THEN tally.unmetered + 1 ELSE tally.unmetered
    BY <2>4, ReturnCounts
  <2>10. ByValidation(o, depth) => o.how = "raise"
    BY DEF ByValidation
  <2>6. ASSUME Has("logging"), Has("metrics")
        PROVE  /\ log'.info + log'.error
                    = metrics'.requests + tally'.requests + tally'.refusals + tally'.dropped
               /\ log'.error = metrics'.errors + tally'.errors + tally'.refusals
    <3>1. /\ log.info + log.error = metrics.requests + tally.requests + tally.refusals + tally.dropped
          /\ log.error = metrics.errors + tally.errors + tally.refusals
      BY <1>1, <2>3, <2>6 DEF AccountsAgree
    <3>2. Enters("metrics", depth) => Enters("logging", depth)
      BY <2>1, <2>6
    <3>3. log'.info + log'.error = log.info + log.error + 1 \/ log' = log
      <4>1. \/ log'.info = log.info + 1 /\ log'.error = log.error
            \/ log'.info = log.info /\ log'.error = log.error + 1
            \/ log' = log
        BY ReturnCounts
      <4> QED
        BY <2>4, <4>1
    <3>7. \/ /\ log' = log /\ metrics'.requests = metrics.requests
             /\ tally'.refusals = tally.refusals /\ tally'.dropped = tally.dropped
          \/ /\ Enters("logging", depth)
             /\ \/ /\ metrics'.requests = metrics.requests + 1
                   /\ tally'.refusals = tally.refusals /\ tally'.dropped = tally.dropped
                \/ /\ metrics'.requests = metrics.requests
                   /\ tally'.refusals = tally.refusals + 1 /\ tally'.dropped = tally.dropped
                \/ /\ metrics'.requests = metrics.requests
                   /\ tally'.refusals = tally.refusals /\ tally'.dropped = tally.dropped + 1
      BY <3>2, ReturnCounts
    <3>8. Enters("logging", depth) => log' # log
      <4>1. Enters("logging", depth) => \/ log'.info = log.info + 1 \/ log'.error = log.error + 1
        BY ReturnCounts
      <4> QED
        BY <2>4, <4>1
    <3>4. \/ /\ log'.error = log.error /\ metrics'.errors = metrics.errors
             /\ tally'.refusals = tally.refusals
          \/ /\ log'.error = log.error + 1 /\ metrics'.errors = metrics.errors + 1
             /\ tally'.refusals = tally.refusals
          \/ /\ log'.error = log.error + 1 /\ metrics'.errors = metrics.errors
             /\ tally'.refusals = tally.refusals + 1
      BY <2>4, <3>2, ReturnCounts
    <3>5. log'.info + log'.error
              = metrics'.requests + tally'.requests + tally'.refusals + tally'.dropped
      BY <2>4, <2>5, <3>1, <3>3, <3>7, <3>8, LogBalance
    <3>6. log'.error = metrics'.errors + tally'.errors + tally'.refusals
      BY <2>4, <2>5, <3>1, <3>4, ErrorBalance
    <3> QED
      BY <3>5, <3>6
  <2>7. ASSUME Has("errors"), Has("observe")
        PROVE  Total(errors)' + tally'.told + tally'.unseen = captured' + tally'.softened
    <3>1. Total(errors) + tally.told + tally.unseen = captured + tally.softened
      BY <1>1, <2>3, <2>7 DEF AccountsAgree
    <3> QED
      <4>1. CASE o.how = "raise"
        <5>1. captured' + tally'.softened = captured + tally.softened + 1 /\ tally'.told = tally.told
          BY <2>1, <2>5, <2>7, <4>1
        <5>2. \/ Total(errors)' = Total(errors) + 1 /\ tally'.unseen = tally.unseen
              \/ Total(errors)' = Total(errors) /\ tally'.unseen = tally.unseen + 1
          BY <2>1, <2>4, <2>5, <2>7, <2>9, <4>1
        <5> QED
          BY <2>4, <3>1, <5>1, <5>2, SentryBalance
      <4>2. CASE o.how # "raise"
        BY <2>5, <2>9, <2>10, <3>1, <4>2
      <4> QED
        BY <4>1, <4>2
  <2>8. ASSUME Has("errors"), Has("metrics")
        PROVE  Total(errors)' + tally'.told <= metrics'.errors + tally'.errors + tally'.unmetered
    <3>1. Total(errors) + tally.told <= metrics.errors + tally.errors + tally.unmetered
      BY <1>1, <2>3, <2>8 DEF AccountsAgree
    <3>2. metrics'.errors = IF Enters("metrics", depth) /\ Fails(o) THEN metrics.errors + 1 ELSE metrics.errors
      BY <2>4, ReturnCounts
    <3> QED
      <4>1. CASE o.how = "raise"
        <5>1. \/ ~Enters("errors", depth) /\ ByValidation(o, depth)
              \/ Enters("errors", depth) /\ Enters("metrics", depth)
              \/ Enters("errors", depth) /\ ~Enters("metrics", depth) /\ ByValidation(o, depth)
          BY <2>1, <2>8, <4>1
        <5>2. \/ /\ Total(errors)' = Total(errors) /\ tally'.unmetered = tally.unmetered
                 /\ metrics'.errors = metrics.errors \/ metrics'.errors = metrics.errors + 1
              \/ /\ Total(errors)' = Total(errors) + 1 /\ tally'.unmetered = tally.unmetered
                 /\ metrics'.errors = metrics.errors + 1
              \/ /\ Total(errors)' = Total(errors) + 1 /\ tally'.unmetered = tally.unmetered + 1
                 /\ metrics'.errors = metrics.errors
          BY <2>2, <2>4, <2>5, <2>9, <3>2, <4>1, <5>1
        <5> QED
          BY <2>4, <2>5, <3>1, <5>2, ErrorsSuffice
      <4>2. CASE o.how # "raise"
        <5>1. Total(errors)' = Total(errors) /\ tally'.unmetered = tally.unmetered
          BY <2>5, <2>9, <2>10, <4>2
        <5>2. metrics'.errors = metrics.errors \/ metrics'.errors = metrics.errors + 1
          BY <3>2
        <5> QED
          BY <2>4, <2>5, <3>1, <5>1, <5>2, ErrorsSuffice
      <4> QED
        BY <4>1, <4>2
  <2> QED
    BY <2>3, <2>6, <2>7, <2>8 DEF AccountsAgree
<1> QED
  BY <1>2, <1>3, <1>4, <1>5 DEF ChainInv

(* From one middleware on to the next stop.                                *)
LEMMA DescendKeeps ==
    ASSUME ChainInv, NEW t \in Tasks, NEW r, NEW full, NEW from \in 1..Len(chain) + 1,
           Descend(t, r, from, full), chain' = chain, ~InTool(t)
    PROVE  ChainInv'
<1> DEFINE stops == {i \in from..Len(chain) : AsksGateway(i, r) \/ AsksRedis(i, r) \/ Refusal(i, r, full) # Pass}
           i == Min(stops)
           quiet == UNCHANGED <<answered, metrics, errors, log, captured, tally>>
<1>1. CountTypes /\ Placed /\ RefusedNeverRan /\ AccountsAgree /\ Len(chain) \in Nat
  BY ChainFacts DEF ChainInv
<1>2. \/ /\ stops = {} /\ place' = [place EXCEPT ![t] = Len(chain) + 1] /\ quiet
      \/ /\ stops # {} /\ Refusal(i, r, full) # Pass
         /\ Return(t, r, i - 1, Refusal(i, r, full))
      \/ /\ stops # {} /\ Refusal(i, r, full) = Pass /\ place' = [place EXCEPT ![t] = i] /\ quiet
  BY DEF Descend
<1>3. ASSUME stops # {}
      PROVE  i \in 1..Len(chain) /\ i \in stops
  <2>1. stops \subseteq Nat /\ stops \subseteq 1..Len(chain)
    BY <1>1
  <2> HIDE DEF stops
  <2> QED
    BY <1>3, <2>1, Least
<1>4. ASSUME NEW n \in 0..Len(chain) + 1, place' = [place EXCEPT ![t] = n], quiet,
             n \in 1..Len(chain) => chain[n] \in {"auth", "redis"}
      PROVE  ChainInv'
  <2>1. Placed'
    BY <1>1, <1>4 DEF Placed
  <2>2. CountTypes' /\ RefusedNeverRan' /\ AccountsAgree'
    BY <1>1, <1>4 DEF CountTypes, RefusedNeverRan, AccountsAgree, Total
  <2> QED
    BY <2>1, <2>2 DEF ChainInv
<1>5. CASE stops = {} /\ place' = [place EXCEPT ![t] = Len(chain) + 1] /\ quiet
  <2>1. Len(chain) + 1 \in 0..Len(chain) + 1 /\ Len(chain) + 1 \notin 1..Len(chain)
    BY <1>1
  <2> QED
    BY <1>4, <1>5, <2>1
<1>6. CASE /\ stops # {} /\ Refusal(i, r, full) # Pass
           /\ Return(t, r, i - 1, Refusal(i, r, full))
  <2>1. i \in 1..Len(chain)
    BY <1>3, <1>6
  <2> HIDE DEF i, stops
  <2>2. i - 1 \in 0..Len(chain) /\ (i - 1) + 1 = i
    BY <1>1, <2>1
  <2>3. Refusal(i, r, full).how = "raise" => chain[(i - 1) + 1] \in Raising
    BY <1>6, <2>2, RefusalFails
  <2> QED
    BY <1>6, <2>2, <2>3, ReturnKeeps
<1>7. CASE /\ stops # {} /\ Refusal(i, r, full) = Pass /\ place' = [place EXCEPT ![t] = i] /\ quiet
  <2>1. i \in 1..Len(chain) /\ (AsksGateway(i, r) \/ AsksRedis(i, r))
    BY <1>3, <1>7
  <2> HIDE DEF i, stops
  <2>2. i \in 0..Len(chain) + 1 /\ chain[i] \in {"auth", "redis"}
    BY <1>1, <2>1 DEF AsksGateway, AsksRedis
  <2> QED
    BY <1>4, <1>7, <2>2
<1> QED
  BY <1>2, <1>5, <1>6, <1>7

LEMMA ChainInvInit == ChainInit => ChainInv
<1> SUFFICES ASSUME ChainInit PROVE ChainInv
  OBVIOUS
<1>1. chain \in Chains /\ Len(chain) \in Nat
  BY ChainAssumption DEF ChainInit
<1>2. CountTypes
  BY DEF ChainInit, CountTypes, Counts, ErrorCounts, Logs, Tallies, NoCounts, NoErrors
<1>3. Placed
  BY <1>1 DEF ChainInit, Placed
<1>4. RefusedNeverRan
  BY DEF ChainInit, RefusedNeverRan
<1>5. AccountsAgree
  BY DEF ChainInit, AccountsAgree, NoCounts, NoErrors, Total
<1> QED
  BY <1>2, <1>3, <1>4, <1>5 DEF ChainInv

LEMMA ResetMetricsKeeps ==
    ASSUME ChainInv, ResetMetrics
    PROVE  ChainInv'
<1>1. CountTypes /\ Placed /\ RefusedNeverRan /\ AccountsAgree
  BY DEF ChainInv
<1>2. /\ metrics.requests \in Nat /\ metrics.errors \in Nat
      /\ tally \in Tallies /\ tally.requests \in Nat /\ tally.errors \in Nat
      /\ tally.refusals \in Nat /\ tally.dropped \in Nat /\ tally.told \in Nat /\ tally.softened \in Nat
      /\ tally.unseen \in Nat /\ tally.unmetered \in Nat
  BY <1>1 DEF CountTypes, Counts, Tallies
<1>3. tally' = [requests |-> tally.requests + metrics.requests, errors |-> tally.errors + metrics.errors,
                told |-> tally.told, refusals |-> tally.refusals, dropped |-> tally.dropped,
                softened |-> tally.softened, unseen |-> tally.unseen, unmetered |-> tally.unmetered]
  BY <1>2 DEF ResetMetrics, Tallies
<1>4. /\ metrics' = [requests |-> 0, errors |-> 0]
      /\ UNCHANGED <<chain, place, answered, errors, log, captured>>
  BY DEF ResetMetrics, NoCounts
<1>5. CountTypes'
  BY <1>1, <1>2, <1>3, <1>4 DEF CountTypes, Counts, Tallies
<1>6. Placed' /\ RefusedNeverRan'
  BY <1>1, <1>4 DEF Placed, RefusedNeverRan
<1>7. /\ metrics'.requests + tally'.requests = metrics.requests + tally.requests
      /\ metrics'.errors + tally'.errors = metrics.errors + tally.errors
      /\ tally'.refusals = tally.refusals /\ tally'.dropped = tally.dropped
      /\ tally'.told = tally.told /\ tally'.softened = tally.softened
      /\ tally'.unseen = tally.unseen /\ tally'.unmetered = tally.unmetered
  <2>1. metrics'.requests = 0 /\ metrics'.errors = 0
    BY <1>4
  <2>2. /\ tally'.requests = tally.requests + metrics.requests /\ tally'.errors = tally.errors + metrics.errors
        /\ tally'.refusals = tally.refusals /\ tally'.dropped = tally.dropped
        /\ tally'.told = tally.told /\ tally'.softened = tally.softened
        /\ tally'.unseen = tally.unseen /\ tally'.unmetered = tally.unmetered
    BY <1>3
  <2> QED
    BY <1>2, <2>1, <2>2
<1>8. AccountsAgree'
  BY <1>1, <1>4, <1>7 DEF AccountsAgree, Total
<1> QED
  BY <1>5, <1>6, <1>8 DEF ChainInv

LEMMA ResetStatisticsKeeps ==
    ASSUME ChainInv, ResetStatistics
    PROVE  ChainInv'
<1>1. CountTypes /\ Placed /\ RefusedNeverRan /\ AccountsAgree
  BY DEF ChainInv
<1>2. /\ Total(errors) \in Nat /\ tally \in Tallies /\ tally.told \in Nat
  BY <1>1 DEF CountTypes, ErrorCounts, Total, Tallies
<1>3. tally' = [requests |-> tally.requests, errors |-> tally.errors, told |-> tally.told + Total(errors),
                refusals |-> tally.refusals, dropped |-> tally.dropped, softened |-> tally.softened,
                unseen |-> tally.unseen, unmetered |-> tally.unmetered]
  BY <1>2 DEF ResetStatistics, Tallies
<1>4. /\ errors' = [mcp |-> 0, unexpected |-> 0]
      /\ UNCHANGED <<chain, place, answered, metrics, log, captured>>
  BY DEF ResetStatistics, NoErrors
<1>5. CountTypes'
  BY <1>1, <1>2, <1>3, <1>4 DEF CountTypes, ErrorCounts, Tallies
<1>6. Placed' /\ RefusedNeverRan'
  BY <1>1, <1>4 DEF Placed, RefusedNeverRan
<1>7. /\ Total(errors)' + tally'.told = Total(errors) + tally.told
      /\ tally'.refusals = tally.refusals /\ tally'.dropped = tally.dropped
      /\ tally'.requests = tally.requests /\ tally'.errors = tally.errors /\ tally'.softened = tally.softened
      /\ tally'.unseen = tally.unseen /\ tally'.unmetered = tally.unmetered
  <2>1. Total(errors)' = 0
    BY <1>4 DEF Total
  <2>2. tally'.told = tally.told + Total(errors)
    BY <1>3
  <2>3. /\ tally'.refusals = tally.refusals /\ tally'.dropped = tally.dropped
        /\ tally'.requests = tally.requests /\ tally'.errors = tally.errors /\ tally'.softened = tally.softened
        /\ tally'.unseen = tally.unseen /\ tally'.unmetered = tally.unmetered
    BY <1>3
  <2>4. Total(errors)' + tally'.told = Total(errors) + tally.told
    BY <1>2, <2>1, <2>2
  <2> QED
    BY <2>3, <2>4
<1>8. AccountsAgree'
  BY <1>1, <1>4, <1>7 DEF AccountsAgree
<1> QED
  BY <1>5, <1>6, <1>8 DEF ChainInv

LEMMA ChainInvStep == ChainInv /\ [Next]_vars => ChainInv'
<1> SUFFICES ASSUME ChainInv, [Next]_vars PROVE ChainInv'
  OBVIOUS
<1>1. CountTypes /\ Placed /\ RefusedNeverRan /\ AccountsAgree /\ Len(chain) \in Nat
  BY ChainFacts DEF ChainInv
<1>2. CASE UNCHANGED chainVars
  BY <1>1, <1>2 DEF chainVars, ChainInv, CountTypes, Placed, RefusedNeverRan, AccountsAgree, Total
<1>3. ASSUME NEW t \in Tasks, Arrive(t)
      PROVE  ChainInv'
  <2>1. PICK r \in Requests, full \in BOOLEAN :
           ~Busy(t) /\ Descend(t, r, 1, full) /\ chain' = chain
    BY <1>3 DEF Arrive
  <2>2. ~InTool(t) /\ 1 \in 1..Len(chain) + 1
    BY <1>1, <2>1 DEF Busy, InTool
  <2> QED
    BY <2>1, <2>2, DescendKeeps
<1>4. ASSUME NEW t \in Tasks, GatewayAnswers(t)
      PROVE  ChainInv'
  <2> DEFINE outcomes == {Answer("unauthorized"), Answer("unavailable"), Answer("internal"), Cancelled}
  <2>1. place[t] \in 1..Len(chain) /\ chain' = chain
    BY <1>4 DEF GatewayAnswers
  <2>2. /\ ~InTool(t) /\ place[t] + 1 \in 1..Len(chain) + 1 /\ place[t] - 1 \in 0..Len(chain)
    BY <1>1, <2>1 DEF InTool
  <2>3. \/ \E full \in BOOLEAN : Descend(t, request[t], place[t] + 1, full)
        \/ \E o \in outcomes : Return(t, request[t], place[t] - 1, o)
    BY <1>4 DEF GatewayAnswers
  <2>4. \A o \in outcomes : o.how # "raise"
    BY AnswerIs DEF Cancelled
  <2> HIDE DEF outcomes
  <2>5. ASSUME NEW full \in BOOLEAN, Descend(t, request[t], place[t] + 1, full)
        PROVE  ChainInv'
    BY <2>1, <2>2, <2>5, DescendKeeps
  <2>6. ASSUME NEW o \in outcomes, Return(t, request[t], place[t] - 1, o)
        PROVE  ChainInv'
    BY <2>1, <2>2, <2>4, <2>6, ReturnKeeps
  <2> QED
    BY <2>3, <2>5, <2>6
<1>6. ASSUME NEW t \in Tasks, LimiterAnswers(t)
      PROVE  ChainInv'
  <2> DEFINE outcomes == {Answer("limited"), Cancelled}
  <2>1. place[t] \in 1..Len(chain) /\ chain' = chain
    BY <1>6 DEF LimiterAnswers
  <2>2. /\ ~InTool(t) /\ place[t] + 1 \in 1..Len(chain) + 1 /\ place[t] - 1 \in 0..Len(chain)
    BY <1>1, <2>1 DEF InTool
  <2>3. \/ \E full \in BOOLEAN : Descend(t, request[t], place[t] + 1, full)
        \/ \E o \in outcomes : Return(t, request[t], place[t] - 1, o)
    BY <1>6 DEF LimiterAnswers
  <2>4. \A o \in outcomes : o.how # "raise"
    BY AnswerIs DEF Cancelled
  <2> HIDE DEF outcomes
  <2>5. ASSUME NEW full \in BOOLEAN, Descend(t, request[t], place[t] + 1, full)
        PROVE  ChainInv'
    BY <2>1, <2>2, <2>5, DescendKeeps
  <2>6. ASSUME NEW o \in outcomes, Return(t, request[t], place[t] - 1, o)
        PROVE  ChainInv'
    BY <2>1, <2>2, <2>4, <2>6, ReturnKeeps
  <2> QED
    BY <2>3, <2>5, <2>6
<1>5. ASSUME NEW t \in Tasks, ToolEnds(t)
      PROVE  ChainInv'
  <2> DEFINE outcomes == {Result, Answer("error"), Raise("http"), Raise("mcp"), Raise("other"), Cancelled}
  <2>1. PICK o \in outcomes : Return(t, request[t], Len(chain), o)
    BY <1>5 DEF ToolEnds
  <2>2. o.what \in {"result", "error", "http", "mcp", "other", "cancelled"}
    BY AnswerIs, RaiseIs DEF Result, Cancelled
  <2>4. chain' = chain
    BY <1>5 DEF ToolEnds
  <2> HIDE DEF outcomes
  <2>5. o.what \notin Refusals
    BY <2>2 DEF Refusals
  <2>3. o.what \notin Refusals /\ Len(chain) \in 0..Len(chain)
    BY <1>1, <2>5
  <2> QED
    BY <2>1, <2>3, <2>4, ReturnKeeps
<1> QED
  BY <1>2, <1>3, <1>4, <1>5, <1>6, ResetMetricsKeeps, ResetStatisticsKeeps DEF Next, vars

(* A client that is told its request was refused may send it again: its    *)
(* tool has not run, wherever in the chain the refusal came from.          *)
THEOREM RefusedRequestsNeverRan == Spec => []RefusedNeverRan
<1>1. ChainInv => RefusedNeverRan
  BY DEF ChainInv
<1> QED
  BY <1>1, ChainInvInit, ChainInvStep, PTL DEF Spec

(* The log, the metrics, the error statistics and what Sentry was given    *)
(* tell of the same requests, in every chain that is InOrder.              *)
THEOREM AccountsAlwaysAgree == Spec => []AccountsAgree
<1>1. ChainInv => AccountsAgree
  BY DEF ChainInv
<1> QED
  BY <1>1, ChainInvInit, ChainInvStep, PTL DEF Spec

-----------------------------------------------------------------------------
(* Types of the permissions and of the chain                               *)

(* What PermTypes leaves out.  At most one row is of a user and a          *)
(* resource: grant_permission updates the row it conflicts with.           *)
OneRowEach == \A r, s \in rows : r.user = s.user /\ r.key = s.key /\ r.user # Nobody => r = s
TableTypes == \A r \in DOMAIN roleTable : roleTable[r] \subseteq Permission
CallTypes == calls \in 0..MaxCalls /\ excused \subseteq Users

PermInv == Inv /\ OneRowEach /\ TableTypes /\ CallTypes /\ cache \in [Users -> Entry]

(* A request is being served exactly while it has a place in the chain.    *)
Serving ==
    /\ requireAuth \in BOOLEAN /\ request \in [Tasks -> Request \cup {NoRequest}]
    /\ \A t \in Tasks : place[t] = 0 <=> request[t] = NoRequest
    /\ answered \in [outcome : Outcome, ran : BOOLEAN]
    /\ metrics.errors <= metrics.requests

LEMMA MergeIs ==
    ASSUME NEW perms \in SUBSET Grant
    PROVE  Merge(perms) \in SUBSET [key : Types \X STRING, actions : SUBSET Actions]
<1> SUFFICES ASSUME NEW k \in {p.key : p \in perms}
             PROVE  [key |-> k, actions |-> UNION {p.actions : p \in {q \in perms : q.key = k}}]
                        \in [key : Types \X STRING, actions : SUBSET Actions]
  BY DEF Merge
<1>1. k \in Types \X STRING
  BY PermissionsAssumption DEF Grant
<1>2. \A p \in perms : p.actions \subseteq Actions
  BY DEF Grant
<1>3. UNION {p.actions : p \in {q \in perms : q.key = k}} \subseteq Actions
  BY <1>2
<1> QED
  BY <1>1, <1>3

LEMMA EmptyEntry == NoEntry \in Entry
BY DEF NoEntry, Entry

(* A change keeps the rows of a user apart.                                *)
LEMMA ChangedApart ==
    ASSUME rows \subseteq Row, OneRowEach, NEW j \in Job, rows' = Changed(j)
    PROVE  OneRowEach'
<1>1. CASE j.op # "grant"
  BY <1>1 DEF Changed, OneRowEach
<1>2. CASE j.op = "grant"
  <2> DEFINE old == {r \in rows : j.user # Nobody /\ r.user = j.user /\ r.key = j.key}
             new == [user |-> j.user, role |-> j.role, key |-> j.key, actions |-> j.actions, life |-> "open"]
             Set(r) == [r EXCEPT !.actions = j.actions]
  <2>1. rows' = IF old = {} THEN rows \cup {new} ELSE (rows \ old) \cup {Set(r) : r \in old}
    BY <1>2 DEF Changed, Granted
  <2>2. CASE old = {}
    <3>1. \A r \in rows : ~(r.user = new.user /\ r.key = new.key /\ r.user # Nobody)
      BY <2>2
    <3>2. rows' = rows \cup {new}
      BY <2>1, <2>2
    <3> HIDE DEF new
    <3> QED
      BY <3>1, <3>2 DEF OneRowEach
  <2>3. CASE old # {}
    <3>1. \A r \in rows : Set(r).user = r.user /\ Set(r).key = r.key
      BY DEF Row
    <3>2. \A r \in old, s \in rows : s.user = r.user /\ s.key = r.key => s \in old
      OBVIOUS
    <3>3. \A r \in old : r \in rows
      OBVIOUS
    <3>4. rows' = (rows \ old) \cup {Set(r) : r \in old}
      BY <2>1, <2>3
    <3> HIDE DEF old, Set
    <3> SUFFICES ASSUME NEW r \in rows', NEW s \in rows',
                        r.user = s.user, r.key = s.key, r.user # Nobody
                 PROVE  r = s
      BY DEF OneRowEach
    <3>5. CASE r \in rows \ old /\ s \in rows \ old
      BY <3>5 DEF OneRowEach
    <3>6. CASE r \in rows \ old /\ s \notin rows \ old
      <4>1. PICK b \in old : s = Set(b)
        BY <3>4, <3>6
      <4> QED
        BY <3>1, <3>2, <3>3, <3>6, <4>1
    <3>7. CASE r \notin rows \ old /\ s \in rows \ old
      <4>1. PICK a \in old : r = Set(a)
        BY <3>4, <3>7
      <4> QED
        BY <3>1, <3>2, <3>3, <3>7, <4>1
    <3>8. CASE r \notin rows \ old /\ s \notin rows \ old
      <4>1. PICK a \in old, b \in old : r = Set(a) /\ s = Set(b)
        BY <3>4, <3>8
      <4>2. a = b
        BY <3>1, <3>3, <4>1 DEF OneRowEach
      <4> QED
        BY <4>1, <4>2
    <3> QED
      BY <3>5, <3>6, <3>7, <3>8
  <2> QED
    BY <2>2, <2>3
<1> QED
  BY <1>1, <1>2

(* A change touches rows of users only.                                    *)
LEMMA BystandersAreUsers ==
    ASSUME rows \subseteq Row, NEW j \in Job
    PROVE  Bystanders(j) \subseteq Users /\ {j.user} \ {Nobody} \subseteq Users
BY DEF Bystanders, Doomed, Row, Job

LEMMA RowsStep == PermInv /\ [Next]_vars => OneRowEach'
<1> SUFFICES ASSUME PermInv, [Next]_vars PROVE OneRowEach'
  OBVIOUS
<1>1. rows \subseteq Row /\ job \in [Tasks -> Job] /\ OneRowEach
  BY DEF PermInv, Inv, PermTypes
<1>2. CASE rows' = rows
  BY <1>1, <1>2 DEF OneRowEach
<1>3. ASSUME NEW t \in Tasks, Serve(t) \/ Break(t) PROVE OneRowEach'
  <2>1. rows' = rows \/ rows' = Changed(job[t])
    BY <1>3 DEF Serve, Break
  <2> QED
    BY <1>1, <1>2, <2>1, ChangedApart
<1>4. CASE Lapse
  <2>1. PICK r \in rows : rows' = (rows \ {r}) \cup {[r EXCEPT !.life = "ended"]}
    BY <1>4 DEF Lapse
  <2>2. [r EXCEPT !.life = "ended"].user = r.user /\ [r EXCEPT !.life = "ended"].key = r.key
    BY <1>1 DEF Row
  <2> DEFINE new == [r EXCEPT !.life = "ended"]
  <2>3. rows' = (rows \ {r}) \cup {new}
    BY <2>1
  <2> HIDE DEF new
  <2>4. new.user = r.user /\ new.key = r.key
    BY <2>2 DEF new
  <2> QED
    BY <1>1, <2>3, <2>4 DEF OneRowEach
<1>5. CASE PermNext
  <2>1. CASE ChangeRole \/ ClearCache
    BY <1>2, <2>1 DEF ChangeRole, ClearCache, tables
  <2>2. ASSUME NEW t \in Tasks, \/ Look(t) \/ Give(t) \/ Take(t) \/ FetchRoles(t)
                                \/ Looked(t) \/ ChangeEnds(t)
        PROVE  OneRowEach'
    BY <1>2, <2>2 DEF Look, Give, Take, FetchRoles, Looked, Fill, ChangeEnds, tables
  <2> QED
    BY <1>3, <1>4, <1>5, <2>1, <2>2 DEF PermNext
<1> QED
  BY <1>2, <1>5 DEF Next, ResetMetrics, ResetStatistics, Arrive, GatewayAnswers, LimiterAnswers, ToolEnds,
                    vars, permVars, tables

LEMMA TableStep == TableTypes /\ [Next]_vars => TableTypes'
<1> SUFFICES ASSUME TableTypes, [Next]_vars PROVE TableTypes'
  OBVIOUS
<1>1. CASE roleTable' = roleTable
  BY <1>1 DEF TableTypes
<1>2. CASE ChangeRole
  <2>1. PICK change \in Changes :
           LET role == change[1]  p == change[2]
           IN  \/ roleTable' = [r \in DOMAIN roleTable \cup {role} |->
                                   IF r = role THEN Held(r) \cup {p} ELSE Held(r)]
               \/ role \in DOMAIN roleTable /\ roleTable' = [roleTable EXCEPT ![role] = @ \ {p}]
    BY <1>2 DEF ChangeRole
  <2>2. change[2] \in Permission
    BY PermissionsAssumption DEF Permission
  <2>3. \A r : Held(r) \subseteq Permission
    BY DEF TableTypes, Held
  <2> QED
    BY <2>1, <2>2, <2>3 DEF TableTypes
<1>3. CASE PermNext
  <2>1. ASSUME NEW t \in Tasks, \/ Look(t) \/ Give(t) \/ Take(t) \/ Serve(t) \/ Break(t)
                                \/ FetchRoles(t) \/ Looked(t) \/ ChangeEnds(t)
        PROVE  TableTypes'
    BY <1>1, <2>1 DEF Look, Give, Take, Serve, Break, FetchRoles, Looked, Fill, ChangeEnds, tables
  <2>2. CASE ClearCache \/ Lapse
    BY <1>1, <2>2 DEF ClearCache, Lapse, tables
  <2> QED
    BY <1>2, <1>3, <2>1, <2>2 DEF PermNext
<1> QED
  BY <1>1, <1>3 DEF Next, ResetMetrics, ResetStatistics, Arrive, GatewayAnswers, LimiterAnswers, ToolEnds,
                    vars, permVars, tables

LEMMA CallsStep == PermInv /\ [Next]_vars => CallTypes'
<1> SUFFICES ASSUME PermInv, [Next]_vars PROVE CallTypes'
  OBVIOUS
<1>1. rows \subseteq Row /\ job \in [Tasks -> Job] /\ CallTypes /\ MaxCalls \in Nat
  BY PermissionsAssumption DEF PermInv, Inv, PermTypes
<1>2. ASSUME calls' = calls \/ (calls < MaxCalls /\ calls' = calls + 1), excused' \subseteq Users
      PROVE  CallTypes'
  BY <1>1, <1>2 DEF CallTypes
<1>3. excused \subseteq Users
  BY <1>1 DEF CallTypes
<1>4. ASSUME NEW users, Clear(users) PROVE excused' \subseteq Users
  BY <1>3, <1>4 DEF Clear
<1>5. ASSUME NEW t \in Tasks, Serve(t) \/ Break(t) PROVE CallTypes'
  <2>1. Bystanders(job[t]) \subseteq Users /\ {job[t].user} \ {Nobody} \subseteq Users
    BY <1>1, BystandersAreUsers
  <2>2. calls' = calls
    BY <1>5 DEF Serve, Break
  <2>3. excused' \subseteq Users
    BY <1>3, <1>5, <2>1 DEF Serve, Break
  <2> QED
    BY <1>2, <2>2, <2>3
<1>6. CASE Lapse
  <2>1. PICK r \in rows : excused' = excused \cup ({r.user} \ {Nobody}) /\ calls' = calls
    BY <1>6 DEF Lapse
  <2>2. r.user \in Users \cup {Nobody}
    BY <1>1 DEF Row
  <2> QED
    BY <1>2, <1>3, <2>1, <2>2
<1>7. CASE ClearCache
  BY <1>2, <1>4, <1>7 DEF ClearCache
<1>8. ASSUME NEW t \in Tasks, ChangeEnds(t) PROVE CallTypes'
  BY <1>2, <1>4, <1>8 DEF ChangeEnds
<1>9. ASSUME NEW t \in Tasks, Look(t) \/ Give(t) \/ Take(t) \/ FetchRoles(t) \/ Looked(t) PROVE CallTypes'
  BY <1>2, <1>3, <1>9 DEF Look, Give, Take, FetchRoles, Looked, Fill
<1>10. CASE PermNext
  BY <1>2, <1>3, <1>5, <1>6, <1>7, <1>8, <1>9, <1>10 DEF PermNext, ChangeRole
<1>11. ASSUME NEW t \in Tasks, Arrive(t) PROVE CallTypes'
  BY <1>2, <1>3, <1>11 DEF Arrive
<1>12. CASE ResetMetrics \/ ResetStatistics \/ (\E t \in Tasks : GatewayAnswers(t) \/ LimiterAnswers(t) \/ ToolEnds(t))
            \/ UNCHANGED vars
  BY <1>2, <1>3, <1>12 DEF ResetMetrics, ResetStatistics, GatewayAnswers, LimiterAnswers, ToolEnds, vars, permVars
<1> QED
  BY <1>10, <1>11, <1>12 DEF Next

LEMMA CacheStep == PermInv /\ [Next]_vars => cache' \in [Users -> Entry]
<1> SUFFICES ASSUME PermInv, [Next]_vars PROVE cache' \in [Users -> Entry]
  OBVIOUS
<1>1. job \in [Tasks -> Job] /\ cache \in [Users -> Entry]
  BY DEF PermInv, Inv, PermTypes
<1>2. ASSUME NEW users, Clear(users) PROVE cache' \in [Users -> Entry]
  BY <1>1, <1>2, EmptyEntry DEF Clear
<1>3. ASSUME NEW t \in Tasks, Looked(t) PROVE cache' \in [Users -> Entry]
  <2> DEFINE entry == [filled |-> TRUE, perms |-> Merge(job[t].got), own |-> job[t].own]
  <2>1. job[t].got \in SUBSET Grant /\ job[t].own \in SUBSET Grant
    BY <1>1 DEF Job
  <2>2. entry \in Entry
    BY <2>1, MergeIs DEF Entry
  <2>3. cache' = cache \/ cache' = [cache EXCEPT ![job[t].user] = entry]
    BY <1>3 DEF Looked, Fill
  <2> HIDE DEF entry
  <2> QED
    BY <1>1, <2>2, <2>3
<1>4. CASE cache' = cache
  BY <1>1, <1>4
<1>5. CASE PermNext
  <2>1. CASE ClearCache
    BY <1>2, <2>1 DEF ClearCache
  <2>2. ASSUME NEW t \in Tasks, ChangeEnds(t) PROVE cache' \in [Users -> Entry]
    BY <1>2, <2>2 DEF ChangeEnds
  <2>3. CASE ChangeRole \/ Lapse
    BY <1>4, <2>3 DEF ChangeRole, Lapse
  <2>4. ASSUME NEW t \in Tasks, Look(t) \/ Give(t) \/ Take(t) \/ Serve(t) \/ Break(t) \/ FetchRoles(t)
        PROVE  cache' \in [Users -> Entry]
    BY <1>4, <2>4 DEF Look, Give, Take, Serve, Break, FetchRoles
  <2> QED
    BY <1>3, <1>5, <2>1, <2>2, <2>3, <2>4 DEF PermNext
<1> QED
  BY <1>4, <1>5 DEF Next, ResetMetrics, ResetStatistics, Arrive, GatewayAnswers, LimiterAnswers, ToolEnds,
                    vars, permVars

LEMMA PermInvStep == PermInv /\ [Next]_vars => PermInv'
<1> SUFFICES ASSUME PermInv, [Next]_vars PROVE PermInv'
  OBVIOUS
<1>1. Inv' /\ TableTypes'
  BY InvStep, TableStep DEF PermInv
<1> QED
  BY <1>1, RowsStep, CallsStep, CacheStep DEF PermInv

LEMMA PermInvInit == ChainInit => PermInv
<1> SUFFICES ASSUME ChainInit PROVE OneRowEach /\ TableTypes /\ CallTypes /\ cache \in [Users -> Entry]
  BY InvInit DEF PermInv
<1>1. OneRowEach
  <2> DEFINE Old(u, k) == [user |-> u, role |-> Nobody, key |-> k, actions |-> {"read"}, life |-> "ending"]
  <2>2. \A r \in rows : \E u \in Users, k \in Keys : r = Old(u, k)
    BY DEF ChainInit, PermInit
  <2>3. \A u, k : Old(u, k).user = u /\ Old(u, k).key = k
    OBVIOUS
  <2> HIDE DEF Old
  <2>1. \A r, s \in rows : r.user = s.user /\ r.key = s.key => r = s
    BY <2>2, <2>3
  <2> QED
    BY <2>1 DEF OneRowEach
<1>2. TableTypes
  BY DEF ChainInit, PermInit, TableTypes, DefaultTable, Permission, Types, Actions
<1>3. CallTypes
  BY PermissionsAssumption DEF ChainInit, PermInit, CallTypes
<1>4. cache \in [Users -> Entry]
  BY EmptyEntry DEF ChainInit, PermInit
<1> QED
  BY <1>1, <1>2, <1>3, <1>4

(* What a request comes back with is an outcome, if its end was one.       *)
LEMMA OutcomesAre ==
    /\ \A what \in Refusals : Answer(what) \in Outcome /\ Raise(what) \in Outcome
    /\ \A what \in {"unavailable", "internal", "error"} : Answer(what) \in Outcome
    /\ \A what \in {"http", "mcp", "other"} : Raise(what) \in Outcome
    /\ Result \in Outcome /\ Cancelled \in Outcome
BY DEF Answer, Raise, Result, Cancelled, Outcome, Refusals

LEMMA RefusalIs ==
    ASSUME NEW i, NEW r, NEW full
    PROVE  Refusal(i, r, full) \in Outcome
<1>1. \A what \in Refusals : Answer(what) \in Outcome /\ Raise(what) \in Outcome
  BY OutcomesAre
<1>2. Pass \in Outcome
  BY OutcomesAre DEF Pass
<1>3. RefusedByAuth(r) \in Outcome /\ RefusedByJwt(r) \in Outcome
  BY <1>1, <1>2 DEF RefusedByAuth, RefusedByJwt, Refusals
<1>4. RefusedByValidation(r, User(r, i)) \in Outcome
  BY <1>1, <1>2, OutcomesAre DEF RefusedByValidation, Refusals
<1>5. RefusedByRoles(r, User(r, i)) \in Outcome
  BY <1>1, <1>2 DEF RefusedByRoles, Refusals
<1>6. Answer("limited") \in Outcome
  BY <1>1 DEF Refusals
<1> QED
  BY <1>2, <1>3, <1>4, <1>5, <1>6 DEF Refusal

LEMMA ReturnServes ==
    ASSUME ChainInv, Serving, NEW t \in Tasks, NEW r, NEW o \in Outcome, NEW depth \in 0..Len(chain),
           Return(t, r, depth, o), requireAuth' = requireAuth
    PROVE  Serving'
<1>1. CountTypes /\ Placed /\ Len(chain) \in Nat /\ depth \in Nat
  BY ChainFacts DEF ChainInv
<1>2. /\ request' = [request EXCEPT ![t] = NoRequest] /\ place' = [place EXCEPT ![t] = 0]
      /\ answered' = [outcome |-> Seen(r, depth, o)[1], ran |-> InTool(t)]
  BY DEF Return
<1>3. Seen(r, depth, o)[1] \in Outcome
  <2>1. Seen(r, depth, o)[1] = Turned(r, 1, depth, o)
    BY <1>1, SeenIsTurned
  <2>2. Answer("unavailable") \in Outcome /\ Answer("internal") \in Outcome
    BY OutcomesAre
  <2>3. Turned(r, 1, depth, o) \in {o, Answer("unavailable"), Answer("internal")}
    BY DEF Turned, Through
  <2> QED
    BY <2>1, <2>2, <2>3
<1>4. InTool(t) \in BOOLEAN
  BY DEF InTool
<1>5. metrics'.errors <= metrics'.requests
  <2>1. \/ metrics' = metrics
        \/ metrics' = [requests |-> metrics.requests + 1, errors |-> metrics.errors + 1]
        \/ metrics' = [requests |-> metrics.requests + 1, errors |-> metrics.errors + 0]
    BY DEF Return, Counted
  <2>2. metrics.errors \in Nat /\ metrics.requests \in Nat /\ metrics.errors <= metrics.requests
    BY <1>1 DEF CountTypes, Counts, Serving
  <2> QED
    BY <2>1, <2>2
<1>6. /\ request' \in [Tasks -> Request \cup {NoRequest}]
      /\ \A u \in Tasks : place'[u] = 0 <=> request'[u] = NoRequest
  BY <1>1, <1>2 DEF Serving, Placed
<1>7. answered' \in [outcome : Outcome, ran : BOOLEAN]
  BY <1>2, <1>3, <1>4
<1> QED
  BY <1>5, <1>6, <1>7 DEF Serving

LEMMA DescendServes ==
    ASSUME ChainInv, Serving, NEW t \in Tasks, NEW r \in Request, NEW full,
           NEW from \in 1..Len(chain) + 1, Descend(t, r, from, full), requireAuth' = requireAuth
    PROVE  Serving'
<1> DEFINE stops == {i \in from..Len(chain) : AsksGateway(i, r) \/ AsksRedis(i, r) \/ Refusal(i, r, full) # Pass}
           i == Min(stops)
           stays == request' = [request EXCEPT ![t] = r] /\ UNCHANGED <<answered, metrics>>
<1>1. Placed /\ Len(chain) \in Nat
  BY ChainFacts DEF ChainInv
<1>2. \/ /\ stops = {} /\ place' = [place EXCEPT ![t] = Len(chain) + 1] /\ stays
      \/ /\ stops # {} /\ Return(t, r, i - 1, Refusal(i, r, full))
      \/ /\ stops # {} /\ place' = [place EXCEPT ![t] = i] /\ stays
  BY DEF Descend
<1>3. stops # {} => i \in 1..Len(chain)
  <2>1. stops \subseteq Nat /\ stops \subseteq 1..Len(chain)
    BY <1>1
  <2> HIDE DEF stops
  <2> QED
    BY <2>1, Least
<1>4. ASSUME NEW n \in 1..Len(chain) + 1, place' = [place EXCEPT ![t] = n], stays
      PROVE  Serving'
  <2>1. r # NoRequest /\ n # 0
    BY <1>1 DEF Request, NoRequest
  <2> QED
    BY <1>1, <1>4, <2>1 DEF Serving, Placed
<1>5. CASE stops = {} /\ place' = [place EXCEPT ![t] = Len(chain) + 1] /\ stays
  <2>1. Len(chain) + 1 \in 1..Len(chain) + 1
    BY <1>1
  <2> QED
    BY <1>4, <1>5, <2>1
<1>6. CASE stops # {} /\ Return(t, r, i - 1, Refusal(i, r, full))
  <2>1. i \in 1..Len(chain) /\ Refusal(i, r, full) \in Outcome
    BY <1>3, <1>6, RefusalIs
  <2> HIDE DEF i, stops
  <2>2. i - 1 \in 0..Len(chain)
    BY <1>1, <2>1
  <2> QED
    BY <1>6, <2>1, <2>2, ReturnServes
<1>7. CASE stops # {} /\ place' = [place EXCEPT ![t] = i] /\ stays
  <2>1. i \in 1..Len(chain) + 1
    BY <1>1, <1>3, <1>7
  <2> HIDE DEF i, stops
  <2> QED
    BY <1>4, <1>7, <2>1
<1> QED
  BY <1>2, <1>5, <1>6, <1>7

LEMMA ServingStep == ChainInv /\ Serving /\ [Next]_vars => Serving'
<1> SUFFICES ASSUME ChainInv, Serving, [Next]_vars PROVE Serving'
  OBVIOUS
<1>1. Placed /\ Len(chain) \in Nat
  BY ChainFacts DEF ChainInv
<1>2. CASE UNCHANGED chainVars
  BY <1>2 DEF chainVars, Serving
<1>3. ASSUME NEW t \in Tasks, Arrive(t) PROVE Serving'
  <2>1. PICK r \in Requests, full \in BOOLEAN : Descend(t, r, 1, full) /\ requireAuth' = requireAuth
    BY <1>3 DEF Arrive
  <2>2. r \in Request /\ 1 \in 1..Len(chain) + 1
    BY <1>1, ChainAssumption
  <2> QED
    BY <2>1, <2>2, DescendServes
<1>4. ASSUME NEW t \in Tasks, GatewayAnswers(t) PROVE Serving'
  <2>1. place[t] \in 1..Len(chain) /\ requireAuth' = requireAuth
    BY <1>4 DEF GatewayAnswers
  <2>2. /\ place[t] + 1 \in 1..Len(chain) + 1 /\ place[t] - 1 \in 0..Len(chain) /\ place[t] # 0
    BY <1>1, <2>1
  <2>3. request[t] \in Request
    BY <2>2 DEF Serving
  <2>4. {Answer("unauthorized"), Answer("unavailable"), Answer("internal"), Cancelled} \subseteq Outcome
    BY OutcomesAre DEF Refusals
  <2>5. \/ \E full \in BOOLEAN : Descend(t, request[t], place[t] + 1, full)
        \/ \E o \in {Answer("unauthorized"), Answer("unavailable"), Answer("internal"), Cancelled} :
              Return(t, request[t], place[t] - 1, o)
    BY <1>4 DEF GatewayAnswers
  <2> QED
    BY <2>1, <2>2, <2>3, <2>4, <2>5, DescendServes, ReturnServes
<1>8. ASSUME NEW t \in Tasks, LimiterAnswers(t) PROVE Serving'
  <2>1. place[t] \in 1..Len(chain) /\ requireAuth' = requireAuth
    BY <1>8 DEF LimiterAnswers
  <2>2. /\ place[t] + 1 \in 1..Len(chain) + 1 /\ place[t] - 1 \in 0..Len(chain) /\ place[t] # 0
    BY <1>1, <2>1
  <2>3. request[t] \in Request
    BY <2>2 DEF Serving
  <2>4. {Answer("limited"), Cancelled} \subseteq Outcome
    BY OutcomesAre DEF Refusals
  <2>5. \/ \E full \in BOOLEAN : Descend(t, request[t], place[t] + 1, full)
        \/ \E o \in {Answer("limited"), Cancelled} :
              Return(t, request[t], place[t] - 1, o)
    BY <1>8 DEF LimiterAnswers
  <2> QED
    BY <2>1, <2>2, <2>3, <2>4, <2>5, DescendServes, ReturnServes
<1>5. ASSUME NEW t \in Tasks, ToolEnds(t) PROVE Serving'
  <2>3. {Result, Answer("error"), Raise("http"), Raise("mcp"), Raise("other"), Cancelled} \subseteq Outcome
    BY OutcomesAre
  <2>1. PICK o \in Outcome : Return(t, request[t], Len(chain), o)
    BY <1>5, <2>3 DEF ToolEnds
  <2>2. requireAuth' = requireAuth /\ Len(chain) \in 0..Len(chain)
    BY <1>1, <1>5 DEF ToolEnds
  <2> QED
    BY <2>1, <2>2, ReturnServes
<1>6. CASE ResetMetrics
  BY <1>6 DEF ResetMetrics, NoCounts, Serving
<1>7. CASE ResetStatistics
  BY <1>7 DEF ResetStatistics, Serving
<1> QED
  BY <1>2, <1>3, <1>4, <1>5, <1>6, <1>7, <1>8 DEF Next, vars

(* Type correctness of the chain and of the permission service: among it   *)
(* that no two rows grant one user the same resource, and that a task has  *)
(* a request exactly while it has a place in the chain.                    *)
THEOREM ChainTypeCorrect == Spec => []TypeOK
<1> DEFINE Types2 == PermInv /\ ChainInv /\ Serving
<1>1. ChainInit => Types2
  <2> SUFFICES ASSUME ChainInit PROVE Serving
    BY PermInvInit, ChainInvInit
  <2>1. Result \in Outcome
    BY OutcomesAre
  <2> QED
    BY <2>1 DEF ChainInit, Serving, NoCounts
<1>2. Types2 /\ [Next]_vars => Types2'
  BY PermInvStep, ChainInvStep, ServingStep
<1>3. Types2 => TypeOK
  <2> SUFFICES ASSUME Types2 PROVE TypeOK
    OBVIOUS
  <2>1. PermTypeOK
    BY DEF PermInv, Inv, PermTypes, OneRowEach, TableTypes, CallTypes, PermTypeOK
  <2>2. chain \in Chains /\ \A t \in Tasks : place[t] \in 0..Len(chain) + 1
    BY DEF ChainInv, Placed
  <2>3. {metrics.requests, errors.mcp, errors.unexpected, log.info, log.error, captured} \subseteq Nat
    BY DEF ChainInv, CountTypes, Counts, ErrorCounts, Logs
  <2> QED
    BY <2>1, <2>2, <2>3 DEF Serving, TypeOK
<1> HIDE DEF Types2
<1> QED
  BY <1>1, <1>2, <1>3, PTL DEF Spec

--------------------------------------------------------------------------------
(* RateLimiter: what a bucket gains, and the oldest of some requests.      *)

Bucket == [tokens : 0..Cap, last : 0..now]

LEMMA CapType == Cap \in Nat
BY LimitsAssumption DEF Cap

(* What the clock lets a bucket gain is a number.                          *)
LEMMA GainType == ASSUME NEW m \in Int PROVE m * PerMinute \in Int
BY LimitsAssumption

LEMMA GainNat == ASSUME NEW m \in Nat PROVE m * PerMinute \in Nat
BY LimitsAssumption

LEMMA RefillType ==
  ASSUME now \in Nat, NEW b \in Bucket
  PROVE  /\ Refill(b) \in Bucket
         /\ Refill(b).last = now
<1> DEFINE gained == (now - b.last) * PerMinute
<1>1. now - b.last \in Nat /\ b.tokens \in 0..Cap /\ b.last \in 0..now
  BY DEF Bucket
<1>2. gained \in Nat
  BY <1>1, GainNat
<1>3. CASE gained <= 0
  <2>1. now = b.last
    <3>1. SUFFICES ASSUME now - b.last >= 1 PROVE FALSE
      BY <1>1
    <3>2. gained >= PerMinute
      BY <3>1, <1>1, LimitsAssumption
    <3> QED
      BY <3>2, <1>2, <1>3, LimitsAssumption
  <2> QED
    BY <2>1, <1>3 DEF Refill
<1>4. CASE gained > 0
  <2> DEFINE t == IF b.tokens + gained > Cap THEN Cap ELSE b.tokens + gained
  <2>1. Refill(b) = [tokens |-> t, last |-> now]
    BY <1>4, <1>2 DEF Refill
  <2>2. t \in 0..Cap
    BY <1>1, <1>2, CapType
  <2> HIDE DEF t
  <2> QED
    BY <2>1, <2>2 DEF Bucket
<1> QED
  BY <1>2, <1>3, <1>4

LEMMA BucketType ==
  ASSUME LimiterTypeOK, NEW u \in Clients
  PROVE  /\ GetTokenBucket(u) \in Bucket
         /\ GetTokenBucket(u).last = now
<1>1. now \in Nat /\ now \in 0..now
  BY LimitsAssumption DEF LimiterTypeOK
<1>2. CASE bucket[u] = NoBucket
  BY <1>1, <1>2, CapType DEF GetTokenBucket, Bucket
<1>3. CASE bucket[u] /= NoBucket
  <2>1. bucket[u] \in Bucket
    BY <1>3 DEF LimiterTypeOK, Bucket
  <2> QED
    BY <2>1, <1>1, <1>3, RefillType DEF GetTokenBucket
<1> QED
  BY <1>2, <1>3

----------------------------------------------------------------------------
(* Types.                                                                  *)

LEMMA WholeType == ASSUME NEW t \in Int PROVE Whole(t) \in Int
BY LimitsAssumption DEF Whole

(* A set of requests that is not empty has an oldest one.                  *)
LEMMA OldestIn ==
  ASSUME NEW rs, rs /= {}, \A r \in rs : r.at \in Nat
  PROVE  Oldest(rs) \in rs /\ \A s \in rs : Oldest(rs).at <= s.at
<1> DEFINE T == {r.at : r \in rs}
           R == OpToRel(<, Nat)
<1>1. T \subseteq Nat /\ T /= {}
  OBVIOUS
<1>2. PICK t \in T : \A y \in T : ~(<<y, t>> \in R)
  BY <1>1, WFMin, NatLessThanWellFounded, Zenon
<1>3. \A y \in T : t <= y
  <2> SUFFICES ASSUME NEW y \in T PROVE t <= y
    OBVIOUS
  <2>1. ~(<<y, t>> \in R)
    BY <1>2
  <2>2. y \in Nat /\ t \in Nat
    BY <1>1
  <2>3. ~(y < t)
    BY <2>1, <2>2 DEF OpToRel
  <2> QED
    BY <2>2, <2>3
<1>4. \E r \in rs : \A s \in rs : r.at <= s.at
  BY <1>2, <1>3
<1> QED
  BY <1>4 DEF Oldest

TypeInv == LimiterTypeOK /\ \A u \in Clients : IsFiniteSet(requests[u])

LEMMA TypeInit == LimiterInit => TypeInv
<1> SUFFICES ASSUME LimiterInit PROVE TypeInv
  OBVIOUS
<1>1. promise \in [Clients -> [at : Int, why : {"none", "minute", "hour", "burst"}]]
  BY DEF LimiterInit, None
<1>2. \A u \in Clients : IsFiniteSet(requests[u])
  BY FS_EmptySet DEF LimiterInit
<1> QED
  BY <1>1, <1>2, LimitsAssumption DEF LimiterInit, TypeInv, LimiterTypeOK

RequestsOK == /\ requests \in [Clients -> SUBSET [id : 1..lastId, at : 0..now]]
              /\ \A u \in Clients : IsFiniteSet(requests[u])
BucketsOK == bucket \in [Clients -> {NoBucket} \cup [tokens : 0..Cap, last : 0..now]]
PromisesOK == promise \in [Clients -> [at : Int, why : {"none", "minute", "hour", "burst"}]]

LEMMA TypeParts ==
  TypeInv <=> /\ now \in 0..MaxTime /\ lastId \in 0..MaxRequests
              /\ RequestsOK /\ BucketsOK /\ PromisesOK
BY DEF TypeInv, LimiterTypeOK, RequestsOK, BucketsOK, PromisesOK

LEMMA TypePartsNext ==
  /\ now' \in 0..MaxTime /\ lastId' \in 0..MaxRequests
  /\ RequestsOK' /\ BucketsOK' /\ PromisesOK'
  => TypeInv'
BY DEF TypeInv, LimiterTypeOK, RequestsOK, BucketsOK, PromisesOK

(* Dropping old requests keeps the types.                                  *)
LEMMA ForgetType ==
  ASSUME TypeInv, NEW u \in Clients, UNCHANGED <<now, lastId>>, Forget(u)
  PROVE  RequestsOK'
<1>1. requests' = [requests EXCEPT ![u] = Recent(u, Hour)]
  BY DEF Forget
<1>2. Recent(u, Hour) \subseteq requests[u]
  BY DEF Recent
<1>3. IsFiniteSet(Recent(u, Hour))
  BY <1>2, FS_Subset DEF TypeInv
<1> QED
  BY <1>1, <1>2, <1>3 DEF TypeInv, LimiterTypeOK, RequestsOK

LEMMA DenyType ==
  ASSUME TypeInv, NEW u \in Clients, NEW why \in {"minute", "hour", "burst"}, NEW after \in Int,
         Deny(u, why, after)
  PROVE  PromisesOK'
<1>1. now + after \in Int
  BY LimitsAssumption DEF TypeInv, LimiterTypeOK
<1> QED
  BY <1>1 DEF Deny, TypeInv, LimiterTypeOK, PromisesOK

(* A full window has an oldest request, so its retry_after is a number.    *)
LEMMA WindowRetryType ==
  ASSUME TypeInv, NEW u \in Clients, NEW span \in Nat, Cardinality(Recent(u, span)) > 0
  PROVE  WindowRetry(u, span) \in Int
<1>1. Recent(u, span) /= {}
  BY FS_EmptySet
<1>2. \A r \in Recent(u, span) : r.at \in Nat
  BY DEF Recent, TypeInv, LimiterTypeOK
<1>3. Oldest(Recent(u, span)).at \in Nat
  BY <1>1, <1>2, OldestIn
<1>4. now \in Nat
  BY LimitsAssumption DEF TypeInv, LimiterTypeOK
<1> DEFINE o == Oldest(Recent(u, span)).at
<1> HIDE DEF o
<1>5. Whole(o + span - now) \in Int
  BY <1>3, <1>4, WholeType DEF o
<1> QED
  BY <1>5, LimitsAssumption DEF WindowRetry, o

LEMMA BucketRetryType ==
  ASSUME now \in Nat, NEW b \in Bucket PROVE BucketRetry(b) \in Int
<1> DEFINE g == (now - b.last) * PerMinute
<1>1. now - b.last \in Int
  BY DEF Bucket
<1>2. g \in Int
  BY <1>1, GainType
<1>3. PerMinute * Second \in Nat /\ PerMinute * Second > 0
  BY LimitsAssumption
<1> DEFINE w == (Minute - g) \div (PerMinute * Second)
<1>4. w \in Int
  <2> HIDE DEF g
  <2> DEFINE d == PerMinute * Second
  <2>1. d \in Nat /\ d > 0
    BY <1>3
  <2> HIDE DEF d
  <2>2. (Minute - g) \div d \in Int
    BY <1>2, <2>1, LimitsAssumption
  <2> QED
    BY <2>2 DEF d
<1>5. BucketRetry(b) = IF w < 1 THEN Second ELSE w * Second
  BY DEF BucketRetry
<1> HIDE DEF w
<1> QED
  BY <1>4, <1>5, LimitsAssumption

LEMMA TypeStep == TypeInv /\ [LimiterNext]_limiterVars => TypeInv'
<1> SUFFICES ASSUME TypeInv, [LimiterNext]_limiterVars PROVE TypeInv'
  OBVIOUS
<1>0. /\ now \in 0..MaxTime /\ now \in Nat /\ lastId \in 0..MaxRequests
      /\ RequestsOK /\ BucketsOK /\ PromisesOK
  BY TypeParts, LimitsAssumption
<1>1. CASE UNCHANGED limiterVars
  BY <1>1 DEF limiterVars, TypeInv, LimiterTypeOK
<1>2. CASE Tick
  <2>1. now' \in 0..MaxTime /\ now' = now + 1
    BY <1>2, <1>0, LimitsAssumption DEF Tick
  <2>2. RequestsOK'
    BY <1>0, <1>2, <2>1 DEF Tick, RequestsOK
  <2>3. BucketsOK'
    BY <1>0, <1>2, <2>1 DEF Tick, BucketsOK
  <2> QED
    BY <1>0, <1>2, <2>1, <2>2, <2>3, TypePartsNext DEF Tick, PromisesOK
<1>3. ASSUME NEW u \in Clients, DenyMinute(u) PROVE TypeInv'
  <2>1. RequestsOK' /\ BucketsOK' /\ UNCHANGED <<now, lastId>>
    BY <1>0, <1>3, ForgetType DEF DenyMinute, BucketsOK
  <2>2. Cardinality(Recent(u, Minute)) > 0
    <3>1. IsFiniteSet(Recent(u, Minute))
      BY FS_Subset DEF TypeInv, Recent
    <3> QED
      BY <1>3, <3>1, FS_CardinalityType, LimitsAssumption DEF DenyMinute, MinuteFull
  <2>3. WindowRetry(u, Minute) \in Int
    BY <2>2, WindowRetryType, LimitsAssumption
  <2>4. PromisesOK'
    BY <1>3, <2>3, DenyType DEF DenyMinute
  <2> QED
    BY <1>0, <2>1, <2>4, TypePartsNext
<1>4. ASSUME NEW u \in Clients, DenyHour(u) PROVE TypeInv'
  <2>1. RequestsOK' /\ BucketsOK' /\ UNCHANGED <<now, lastId>>
    BY <1>0, <1>4, ForgetType DEF DenyHour, BucketsOK
  <2>2. Cardinality(Recent(u, Hour)) > 0
    <3>1. IsFiniteSet(Recent(u, Hour))
      BY FS_Subset DEF TypeInv, Recent
    <3> QED
      BY <1>4, <3>1, FS_CardinalityType, LimitsAssumption DEF DenyHour, HourFull
  <2>3. WindowRetry(u, Hour) \in Int
    BY <2>2, WindowRetryType, LimitsAssumption
  <2>4. PromisesOK'
    BY <1>4, <2>3, DenyType DEF DenyHour
  <2> QED
    BY <1>0, <2>1, <2>4, TypePartsNext
<1>5. ASSUME NEW u \in Clients, DenyBurst(u) PROVE TypeInv'
  <2> DEFINE b == GetTokenBucket(u)
  <2>1. b \in Bucket
    BY BucketType DEF TypeInv
  <2> HIDE DEF b
  <2>2. RequestsOK' /\ UNCHANGED <<now, lastId>>
    BY <1>5, ForgetType DEF DenyBurst
  <2>3. bucket' = [bucket EXCEPT ![u] = b]
    BY <1>5 DEF DenyBurst, b
  <2>4. BucketsOK'
    BY <1>0, <2>1, <2>2, <2>3 DEF BucketsOK, Bucket
  <2>5. PromisesOK'
    BY <1>0, <1>5, <2>1, BucketRetryType, DenyType DEF DenyBurst, b
  <2> QED
    BY <1>0, <2>2, <2>4, <2>5, TypePartsNext
<1>6. ASSUME NEW u \in Clients, Admit(u) PROVE TypeInv'
  <2> DEFINE b == GetTokenBucket(u)
             new == [id |-> lastId + 1, at |-> now]
  <2>1. b \in Bucket /\ b.tokens >= Minute
    BY <1>6, BucketType DEF TypeInv, Admit
  <2>2. /\ now' = now /\ lastId' = lastId + 1 /\ lastId' \in 0..MaxRequests
        /\ requests' = [requests EXCEPT ![u] = Recent(u, Hour) \cup {new}]
        /\ bucket' = [bucket EXCEPT ![u] = [b EXCEPT !.tokens = @ - Minute]]
        /\ promise' = [promise EXCEPT ![u] = None]
    BY <1>0, <1>6, LimitsAssumption DEF Admit
  <2> HIDE DEF b
  <2>3. [b EXCEPT !.tokens = @ - Minute] \in Bucket
    BY <2>1, LimitsAssumption, CapType DEF Bucket
  <2>4. BucketsOK'
    BY <1>0, <2>2, <2>3 DEF BucketsOK, Bucket
  <2>5. new \in [id : 1..lastId', at : 0..now']
    BY <1>0, <2>2, LimitsAssumption
  <2>6. Recent(u, Hour) \subseteq requests[u]
    BY DEF Recent
  <2>7. IsFiniteSet(Recent(u, Hour) \cup {new})
    BY <1>0, <2>6, FS_Subset, FS_AddElement DEF RequestsOK
  <2>8. \A v \in Clients : requests[v] \subseteq [id : 1..lastId', at : 0..now']
    BY <1>0, <2>2 DEF RequestsOK
  <2> HIDE DEF new
  <2>9. RequestsOK'
    BY <1>0, <2>2, <2>5, <2>6, <2>7, <2>8 DEF RequestsOK
  <2>10. PromisesOK'
    BY <1>0, <2>2 DEF PromisesOK, None
  <2> QED
    BY <1>0, <2>2, <2>4, <2>9, <2>10, TypePartsNext
<1>7. ASSUME NEW u \in Clients, UsageStats(u) PROVE TypeInv'
  <2>1. GetTokenBucket(u) \in Bucket
    BY BucketType DEF TypeInv
  <2>2. BucketsOK'
    BY <1>0, <1>7, <2>1 DEF UsageStats, BucketsOK, Bucket
  <2> QED
    BY <1>0, <1>7, <2>2, TypePartsNext DEF UsageStats, RequestsOK, PromisesOK
<1> QED
  BY <1>1, <1>2, <1>3, <1>4, <1>5, <1>6, <1>7 DEF LimiterNext

(* LimiterTypeOK holds in every reachable state of the limiter.                   *)
THEOREM LimiterTypeCorrect == LimiterSpec => []LimiterTypeOK
<1>1. TypeInv => LimiterTypeOK
  BY DEF TypeInv
<1> QED
  BY <1>1, TypeInit, TypeStep, PTL DEF LimiterSpec

----------------------------------------------------------------------------
(* The sliding windows.                                                    *)

WindowsOf(u) == /\ Cardinality(Recent(u, Minute)) <= PerMinute
                /\ Cardinality(Recent(u, Hour)) <= PerHour

LEMMA RecentFinite ==
  ASSUME TypeInv, NEW u \in Clients, NEW span \in Nat
  PROVE  IsFiniteSet(Recent(u, span)) /\ Cardinality(Recent(u, span)) \in Nat
<1>1. Recent(u, span) \subseteq requests[u] /\ IsFiniteSet(requests[u])
  BY DEF TypeInv, Recent
<1> QED
  BY <1>1, FS_Subset, FS_CardinalityType

(* A window that has lost requests or stayed as it was is within its limit.*)
LEMMA ShrunkWindows ==
  ASSUME TypeInv, NEW u \in Clients, WindowsOf(u),
         Recent(u, Minute)' \subseteq Recent(u, Minute),
         Recent(u, Hour)' \subseteq Recent(u, Hour)
  PROVE  WindowsOf(u)'
<1>1. /\ Cardinality(Recent(u, Minute)') <= Cardinality(Recent(u, Minute))
      /\ Cardinality(Recent(u, Hour)') <= Cardinality(Recent(u, Hour))
      /\ Cardinality(Recent(u, Minute)') \in Nat /\ Cardinality(Recent(u, Hour)') \in Nat
  BY RecentFinite, FS_Subset, FS_CardinalityType, LimitsAssumption
<1>2. Cardinality(Recent(u, Minute)) \in Nat /\ Cardinality(Recent(u, Hour)) \in Nat
  BY RecentFinite, LimitsAssumption
<1> QED
  BY <1>1, <1>2, LimitsAssumption DEF WindowsOf

LEMMA WindowsInit == LimiterInit => WindowLimits
<1> SUFFICES ASSUME LimiterInit, NEW u \in Clients PROVE WindowsOf(u)
  BY DEF WindowLimits, WindowsOf
<1>1. Recent(u, Minute) = {} /\ Recent(u, Hour) = {}
  BY DEF LimiterInit, Recent
<1> QED
  BY <1>1, FS_EmptySet, LimitsAssumption DEF WindowsOf

(* Steps that let nothing through: the windows only move on or lose.       *)
LEMMA WindowsQuiet ==
  ASSUME TypeInv, NEW v \in Clients, WindowsOf(v),
         now' \in Nat, now' >= now, requests'[v] \subseteq requests[v]
  PROVE  WindowsOf(v)'
<1>1. now \in Nat /\ \A r \in requests[v] : r.at \in Nat
  BY LimitsAssumption DEF TypeInv, LimiterTypeOK
<1>2. /\ Recent(v, Minute)' \subseteq Recent(v, Minute)
      /\ Recent(v, Hour)' \subseteq Recent(v, Hour)
  BY <1>1, LimitsAssumption DEF Recent
<1> QED
  BY <1>2, ShrunkWindows

LEMMA WindowsAdmit ==
  ASSUME TypeInv, NEW u \in Clients, WindowsOf(u), Admit(u)
  PROVE  WindowsOf(u)'
<1> DEFINE new == [id |-> lastId + 1, at |-> now]
<1>1. /\ requests'[u] = Recent(u, Hour) \cup {new} /\ now' = now
      /\ ~MinuteFull(u) /\ ~HourFull(u)
  BY DEF Admit, TypeInv, LimiterTypeOK
<1>2. now \in Nat /\ \A r \in requests[u] : r.at \in Nat
  BY LimitsAssumption DEF TypeInv, LimiterTypeOK
<1> HIDE DEF new
<1>3. Recent(u, Minute)' \subseteq Recent(u, Minute) \cup {new}
  BY <1>1, <1>2, LimitsAssumption DEF Recent
<1>4. Recent(u, Hour)' \subseteq Recent(u, Hour) \cup {new}
  BY <1>1, <1>2, LimitsAssumption DEF Recent
<1>5. ASSUME NEW S, NEW T, IsFiniteSet(S), T \subseteq S \cup {new}
      PROVE  /\ Cardinality(T) \in Nat /\ Cardinality(S) \in Nat
             /\ Cardinality(T) <= Cardinality(S) + 1
  <2>1. IsFiniteSet(S \cup {new}) /\ Cardinality(S) \in Nat
        /\ Cardinality(S \cup {new}) <= Cardinality(S) + 1
    BY <1>5, FS_AddElement, FS_CardinalityType
  <2>2. IsFiniteSet(T) /\ Cardinality(T) <= Cardinality(S \cup {new})
    BY <1>5, <2>1, FS_Subset
  <2> QED
    BY <2>1, <2>2, FS_CardinalityType
<1>6. Cardinality(Recent(u, Minute)') <= Cardinality(Recent(u, Minute)) + 1
      /\ Cardinality(Recent(u, Minute)) \in Nat /\ Cardinality(Recent(u, Minute)') \in Nat
  BY <1>3, <1>5, RecentFinite, LimitsAssumption
<1>7. Cardinality(Recent(u, Hour)') <= Cardinality(Recent(u, Hour)) + 1
      /\ Cardinality(Recent(u, Hour)) \in Nat /\ Cardinality(Recent(u, Hour)') \in Nat
  BY <1>4, <1>5, RecentFinite, LimitsAssumption
<1> QED
  BY <1>1, <1>6, <1>7, LimitsAssumption DEF WindowsOf, MinuteFull, HourFull

(* Every step but Admit lets nothing through; Admit leaves other users alone. *)
LEMMA NothingThrough ==
  ASSUME TypeInv, [LimiterNext]_limiterVars, NEW v \in Clients, ~Admit(v)
  PROVE  now' \in Nat /\ now' >= now /\ requests'[v] \subseteq requests[v]
<1>1. now \in Nat
  BY LimitsAssumption DEF TypeInv, LimiterTypeOK
<1>2. CASE UNCHANGED limiterVars
  BY <1>1, <1>2 DEF limiterVars
<1>3. CASE Tick
  BY <1>1, <1>3 DEF Tick
<1>4. ASSUME NEW u \in Clients, Forget(u), now' = now
      PROVE  now' \in Nat /\ now' >= now /\ requests'[v] \subseteq requests[v]
  BY <1>1, <1>4 DEF Forget, Recent, TypeInv, LimiterTypeOK
<1>5. ASSUME NEW u \in Clients, DenyMinute(u) \/ DenyHour(u) \/ DenyBurst(u)
      PROVE  now' \in Nat /\ now' >= now /\ requests'[v] \subseteq requests[v]
  BY <1>4, <1>5 DEF DenyMinute, DenyHour, DenyBurst
<1>6. ASSUME NEW u \in Clients, u /= v, Admit(u)
      PROVE  now' \in Nat /\ now' >= now /\ requests'[v] \subseteq requests[v]
  BY <1>1, <1>6 DEF Admit, TypeInv, LimiterTypeOK
<1>7. ASSUME NEW u \in Clients, UsageStats(u)
      PROVE  now' \in Nat /\ now' >= now /\ requests'[v] \subseteq requests[v]
  BY <1>1, <1>7 DEF UsageStats
<1> QED
  BY <1>2, <1>3, <1>5, <1>6, <1>7 DEF LimiterNext

LEMMA WindowsStep == TypeInv /\ WindowLimits /\ [LimiterNext]_limiterVars => WindowLimits'
<1> SUFFICES ASSUME TypeInv, WindowLimits, [LimiterNext]_limiterVars, NEW v \in Clients PROVE WindowsOf(v)'
  BY DEF WindowLimits, WindowsOf
<1>1. WindowsOf(v)
  BY DEF WindowLimits, WindowsOf
<1>2. CASE Admit(v)
  BY <1>1, <1>2, WindowsAdmit
<1>3. CASE ~Admit(v)
  BY <1>1, <1>3, NothingThrough, WindowsQuiet
<1> QED
  BY <1>2, <1>3

(* However the calls fall, no minute and no hour up to now lets through    *)
(* more than its limit.                                                    *)
THEOREM WindowsHold == LimiterSpec => []WindowLimits
BY WindowsInit, WindowsStep, TypeInit, TypeStep, PTL DEF LimiterSpec

----------------------------------------------------------------------------
(* The token bucket.  BurstBound speaks of the requests of a user and of   *)
(* the clock only; what makes it inductive is the content of the bucket:   *)
(* whatever has been spent since a is no longer in it.                     *)

Since(rs, a) == {r \in rs : r.at >= a}

BudgetOf(rs, b) ==
    /\ \A r \in rs : r.at \in Nat /\ r.at <= b.last
    /\ \A a \in 0..b.last :
           Cardinality(Since(rs, a)) * Minute + b.tokens <= Cap + PerMinute * (b.last - a)

Budget(u) == /\ bucket[u] = NoBucket => requests[u] = {}
             /\ bucket[u] /= NoBucket => BudgetOf(requests[u], bucket[u])

LEMMA SinceFinite ==
  ASSUME NEW rs, IsFiniteSet(rs), NEW a
  PROVE  IsFiniteSet(Since(rs, a)) /\ Cardinality(Since(rs, a)) \in Nat
BY FS_Subset, FS_CardinalityType DEF Since

LEMMA Distribute ==
  ASSUME NEW x \in Int, NEW y \in Int, NEW z \in Int
  PROVE  PerMinute * (z - x) = PerMinute * (y - x) + (z - y) * PerMinute
BY LimitsAssumption

LEMMA Times == ASSUME NEW m \in Nat, NEW n \in Nat PROVE m * n \in Nat
OBVIOUS

LEMMA TimesMonotone ==
  ASSUME NEW m \in Nat, NEW n \in Nat, NEW k \in Nat, m <= n
  PROVE  m * k <= n * k
OBVIOUS

(* An unused bucket pays for no requests.                                  *)
LEMMA FreshBudget ==
  ASSUME now \in Nat PROVE BudgetOf({}, [tokens |-> Cap, last |-> now])
<1>1. \A a : Since({}, a) = {}
  BY DEF Since
<1>2. ASSUME NEW a \in 0..now PROVE Cap <= Cap + PerMinute * (now - a)
  <2>1. now - a \in Nat
    OBVIOUS
  <2>2. PerMinute * (now - a) \in Nat
    BY <2>1, Times, LimitsAssumption
  <2> QED
    BY <2>2, CapType
<1> QED
  BY <1>1, <1>2, FS_EmptySet, CapType, LimitsAssumption DEF BudgetOf

(* Forgetting requests does not make the budget tighter.                   *)
LEMMA DropBudget ==
  ASSUME NEW rs, IsFiniteSet(rs), NEW qs, qs \subseteq rs, now \in Nat, NEW b \in Bucket,
         BudgetOf(rs, b)
  PROVE  BudgetOf(qs, b)
<1>1. ASSUME NEW a \in 0..b.last
      PROVE  Cardinality(Since(qs, a)) * Minute + b.tokens <= Cap + PerMinute * (b.last - a)
  <2>1. Since(qs, a) \subseteq Since(rs, a)
    BY DEF Since
  <2>2. IsFiniteSet(qs)
    BY FS_Subset
  <2>3. /\ Cardinality(Since(qs, a)) \in Nat /\ Cardinality(Since(rs, a)) \in Nat
        /\ Cardinality(Since(qs, a)) <= Cardinality(Since(rs, a))
    BY <2>1, <2>2, SinceFinite, FS_Subset
  <2> DEFINE m == Cardinality(Since(qs, a)) * Minute
             n == Cardinality(Since(rs, a)) * Minute
             p == PerMinute * (b.last - a)
  <2>4. m <= n /\ m \in Nat /\ n \in Nat
    BY <2>3, Times, TimesMonotone, LimitsAssumption
  <2>5. n + b.tokens <= Cap + p
    BY DEF BudgetOf
  <2>6. b.tokens \in Nat /\ b.last - a \in Nat
    BY CapType DEF Bucket
  <2>7. p \in Nat
    BY <2>6, Times, LimitsAssumption
  <2> HIDE DEF m, n, p
  <2>8. m + b.tokens <= Cap + p
    BY <2>4, <2>5, <2>6, <2>7, CapType
  <2> QED
    BY <2>8 DEF m, p
<1> QED
  BY <1>1 DEF BudgetOf

(* A refill adds what the rate yields in the time it makes up for.         *)
LEMMA RefillBudget ==
  ASSUME NEW rs, IsFiniteSet(rs), now \in Nat, NEW b \in Bucket, BudgetOf(rs, b)
  PROVE  BudgetOf(rs, Refill(b))
<1> DEFINE c == Refill(b)
           gained == (now - b.last) * PerMinute
<1>1. c \in Bucket /\ c.last = now
  BY RefillType
<1>2. b.tokens \in 0..Cap /\ b.last \in 0..now /\ now - b.last \in Nat
  BY DEF Bucket
<1>3. gained \in Nat
  BY <1>2, GainNat
<1>4. c.tokens \in Nat /\ c.tokens <= b.tokens + gained /\ c.tokens <= Cap
  <2>1. c.tokens \in 0..Cap
    BY <1>1 DEF Bucket
  <2>2. CASE gained <= 0
    BY <2>1, <2>2, <1>2, <1>3, CapType DEF Refill
  <2>3. CASE gained > 0
    <3> DEFINE t == IF b.tokens + gained > Cap THEN Cap ELSE b.tokens + gained
    <3>0. c = [tokens |-> t, last |-> now]
      BY <2>3, <1>3 DEF Refill
    <3>1. c.tokens = IF b.tokens + gained > Cap THEN Cap ELSE b.tokens + gained
      BY <3>0
    <3> HIDE DEF c, gained
    <3> QED
      BY <2>1, <3>1, <1>2, <1>3, CapType
  <2> QED
    BY <1>3, <2>2, <2>3
<1> HIDE DEF c
<1>5. \A r \in rs : r.at \in Nat /\ r.at <= b.last
  BY DEF BudgetOf
<1>6. ASSUME NEW a \in 0..now
      PROVE  Cardinality(Since(rs, a)) * Minute + c.tokens <= Cap + PerMinute * (now - a)
  <2> DEFINE n == Cardinality(Since(rs, a)) * Minute
             p == PerMinute * (b.last - a)
             q == PerMinute * (now - a)
  <2>1. n \in Nat /\ q \in Nat
    <3>1. Cardinality(Since(rs, a)) \in Nat /\ now - a \in Nat
      BY SinceFinite
    <3> QED
      BY <3>1, Times, LimitsAssumption
  <2>2. CASE a <= b.last
    <3>1. n + b.tokens <= Cap + p
      BY <2>2, <1>2 DEF BudgetOf
    <3>2. q = p + gained
      <4>1. a \in Int /\ b.last \in Int /\ now \in Int
        BY <1>2
      <4> QED
        BY <4>1, Distribute, Zenon
    <3>3. p \in Int
      BY <1>2, LimitsAssumption
    <3> HIDE DEF n, p, q, gained
    <3>4. n + c.tokens <= Cap + q
      BY <3>1, <3>2, <3>3, <2>1, <1>2, <1>3, <1>4, CapType
    <3> QED
      BY <3>4 DEF n, q
  <2>3. CASE a > b.last
    <3>1. ASSUME NEW r \in Since(rs, a) PROVE FALSE
      BY <3>1, <2>3, <1>2, <1>5 DEF Since
    <3>2. Since(rs, a) = {}
      BY <3>1
    <3>3. n = 0
      BY <3>2, FS_EmptySet, LimitsAssumption
    <3> HIDE DEF n, q
    <3>4. n + c.tokens <= Cap + q
      BY <3>3, <2>1, <1>4, CapType
    <3> QED
      BY <3>4 DEF n, q
  <2> QED
    BY <1>2, <2>2, <2>3
<1>7. \A r \in rs : r.at \in Nat /\ r.at <= c.last
  <2> SUFFICES ASSUME NEW r \in rs PROVE r.at \in Nat /\ r.at <= c.last
    OBVIOUS
  <2> QED
    BY <1>1, <1>2, <1>5
<1>8. BudgetOf(rs, c)
  BY <1>1, <1>6, <1>7 DEF BudgetOf
<1> QED
  BY <1>8 DEF c

(* A request let through costs a token.                                    *)
LEMMA SpendBudget ==
  ASSUME NEW rs, IsFiniteSet(rs), now \in Nat, NEW b \in Bucket, b.last = now,
         b.tokens >= Minute, NEW new, new.at = now, BudgetOf(rs, b)
  PROVE  BudgetOf(rs \cup {new}, [b EXCEPT !.tokens = @ - Minute])
<1> DEFINE c == [b EXCEPT !.tokens = @ - Minute]
<1>1. c.last = now /\ c.tokens = b.tokens - Minute /\ b.tokens \in Nat
  BY CapType DEF Bucket
<1> HIDE DEF c
<1>2. ASSUME NEW a \in 0..now
      PROVE  Cardinality(Since(rs \cup {new}, a)) * Minute + c.tokens
                 <= Cap + PerMinute * (now - a)
  <2> DEFINE k == Cardinality(Since(rs, a))
             l == Cardinality(Since(rs \cup {new}, a))
             p == PerMinute * (now - a)
  <2>1. Since(rs \cup {new}, a) = Since(rs, a) \cup {new}
    BY DEF Since
  <2>2. k \in Nat /\ l \in Nat /\ l <= k + 1
    <3> DEFINE S == Since(rs, a)
    <3>1. IsFiniteSet(S) /\ k \in Nat
      BY SinceFinite
    <3> HIDE DEF S
    <3>2. IsFiniteSet(S \cup {new})
          /\ Cardinality(S \cup {new}) = IF new \in S THEN Cardinality(S) ELSE Cardinality(S) + 1
      BY <3>1, FS_AddElement
    <3>3. l = Cardinality(S \cup {new}) /\ k = Cardinality(S)
      BY <2>1 DEF S
    <3> HIDE DEF k, l
    <3> QED
      BY <3>1, <3>2, <3>3
  <2>3. k * Minute + b.tokens <= Cap + p
    BY DEF BudgetOf
  <2>4. p \in Nat
    <3>1. now - a \in Nat
      OBVIOUS
    <3> QED
      BY <3>1, Times, LimitsAssumption
  <2> HIDE DEF k, l, p
  <2>5. l * Minute <= (k + 1) * Minute
    BY <2>2, TimesMonotone, LimitsAssumption
  <2>6. (k + 1) * Minute = k * Minute + Minute
    BY <2>2, LimitsAssumption
  <2>7. k * Minute \in Nat /\ l * Minute \in Nat
    BY <2>2, Times, LimitsAssumption
  <2> DEFINE x == k * Minute
             y == l * Minute
  <2>8. x \in Nat /\ y \in Nat /\ y <= x + Minute /\ x + b.tokens <= Cap + p
    BY <2>3, <2>5, <2>6, <2>7
  <2> HIDE DEF x, y
  <2>9. y + c.tokens <= Cap + p
    BY <2>4, <2>8, <1>1, CapType, LimitsAssumption
  <2> QED
    BY <2>9 DEF y, l, p
<1>3. \A r \in rs \cup {new} : r.at \in Nat /\ r.at <= c.last
  BY <1>1 DEF BudgetOf
<1>4. BudgetOf(rs \cup {new}, c)
  BY <1>1, <1>2, <1>3 DEF BudgetOf
<1> QED
  BY <1>4 DEF c

Budgets == \A u \in Clients : Budget(u)

(* What a check or get_usage_stats finds in the bucket covers what the     *)
(* user has already got.                                                   *)
LEMMA GotBudget ==
  ASSUME TypeInv, NEW u \in Clients, Budget(u)
  PROVE  BudgetOf(requests[u], GetTokenBucket(u))
<1>1. now \in Nat /\ IsFiniteSet(requests[u])
  BY LimitsAssumption DEF TypeInv, LimiterTypeOK
<1>2. CASE bucket[u] = NoBucket
  BY <1>1, <1>2, FreshBudget DEF Budget, GetTokenBucket
<1>3. CASE bucket[u] /= NoBucket
  <2>1. bucket[u] \in Bucket
    BY <1>3 DEF TypeInv, LimiterTypeOK, Bucket
  <2> QED
    BY <1>1, <1>3, <2>1, RefillBudget DEF Budget, GetTokenBucket
<1> QED
  BY <1>2, <1>3

LEMMA NotFresh == ASSUME NEW b \in Bucket PROVE b /= NoBucket
BY CapType DEF Bucket, NoBucket

LEMMA BudgetsInit == LimiterInit => Budgets
BY DEF LimiterInit, Budgets, Budget

(* BudgetOf does not depend on the state; Budget(v) only on v's own part.  *)
LEMMA BudgetUnchanged ==
  ASSUME NEW v \in Clients, Budget(v), bucket'[v] = bucket[v], requests'[v] = requests[v]
  PROVE  Budget(v)'
BY DEF Budget, BudgetOf, Since, Cap, NoBucket

LEMMA BudgetSet ==
  ASSUME NEW v \in Clients, NEW b \in Bucket, NEW rs, bucket'[v] = b, requests'[v] = rs,
         BudgetOf(rs, b)
  PROVE  Budget(v)'
BY NotFresh DEF Budget, BudgetOf, Since, Cap, NoBucket

LEMMA BudgetDropped ==
  ASSUME TypeInv, NEW v \in Clients, Budget(v), bucket'[v] = bucket[v],
         requests'[v] \subseteq requests[v]
  PROVE  Budget(v)'
<1>1. CASE bucket[v] = NoBucket
  BY <1>1 DEF Budget, NoBucket
<1>2. CASE bucket[v] /= NoBucket
  <2>1. bucket[v] \in Bucket /\ now \in Nat /\ IsFiniteSet(requests[v])
    BY <1>2, LimitsAssumption DEF TypeInv, LimiterTypeOK, Bucket
  <2>2. BudgetOf(requests'[v], bucket[v])
    BY <2>1, <1>2, DropBudget DEF Budget
  <2> QED
    BY <2>1, <2>2, BudgetSet
<1> QED
  BY <1>1, <1>2

LEMMA BudgetsStep == TypeInv /\ Budgets /\ [LimiterNext]_limiterVars => Budgets'
<1> SUFFICES ASSUME TypeInv, Budgets, [LimiterNext]_limiterVars, NEW v \in Clients PROVE Budget(v)'
  BY DEF Budgets
<1>0. /\ Budget(v) /\ now \in Nat /\ IsFiniteSet(requests[v])
      /\ requests \in [Clients -> SUBSET [id : 1..lastId, at : 0..now]]
      /\ DOMAIN bucket = Clients
  BY LimitsAssumption DEF Budgets, TypeInv, LimiterTypeOK
<1> DEFINE b == GetTokenBucket(v)
           kept == Recent(v, Hour)
<1>b. b \in Bucket /\ b.last = now /\ BudgetOf(requests[v], b)
  BY <1>0, BucketType, GotBudget DEF TypeInv
<1>k. kept \subseteq requests[v] /\ IsFiniteSet(kept) /\ BudgetOf(kept, b)
  <2>1. kept \subseteq requests[v]
    BY DEF Recent
  <2> QED
    BY <2>1, <1>0, <1>b, FS_Subset, DropBudget
<1>1. CASE UNCHANGED limiterVars \/ Tick
  BY <1>0, <1>1, BudgetUnchanged DEF limiterVars, Tick
<1>2. ASSUME NEW u \in Clients, u /= v,
             DenyMinute(u) \/ DenyHour(u) \/ DenyBurst(u) \/ Admit(u) \/ UsageStats(u)
      PROVE  Budget(v)'
  <2>1. bucket'[v] = bucket[v] /\ requests'[v] = requests[v]
    BY <1>0, <1>2 DEF DenyMinute, DenyHour, DenyBurst, Admit, UsageStats, Forget
  <2> QED
    BY <1>0, <2>1, BudgetUnchanged
<1>3. CASE DenyMinute(v) \/ DenyHour(v)
  <2>1. bucket'[v] = bucket[v] /\ requests'[v] = kept
    BY <1>0, <1>3 DEF DenyMinute, DenyHour, Forget
  <2> QED
    BY <1>0, <1>k, <2>1, BudgetDropped
<1>4. CASE DenyBurst(v)
  <2>1. bucket'[v] = b /\ requests'[v] = kept
    BY <1>0, <1>4 DEF DenyBurst, Forget
  <2> HIDE DEF b, kept
  <2> QED
    BY <1>b, <1>k, <2>1, BudgetSet
<1>5. CASE Admit(v)
  <2> DEFINE new == [id |-> lastId + 1, at |-> now]
             c == [b EXCEPT !.tokens = @ - Minute]
  <2>1. bucket'[v] = c /\ requests'[v] = kept \cup {new} /\ b.tokens >= Minute
    BY <1>0, <1>5 DEF Admit
  <2>2. BudgetOf(kept \cup {new}, c)
    <3>1. new.at = now
      OBVIOUS
    <3> HIDE DEF b, kept, new
    <3> QED
      BY <3>1, <1>0, <1>b, <1>k, <2>1, SpendBudget
  <2>3. c \in Bucket
    <3> HIDE DEF b
    <3> QED
      BY <1>b, <2>1, CapType, LimitsAssumption DEF Bucket
  <2> HIDE DEF c, kept, new
  <2> QED
    BY <2>1, <2>2, <2>3, BudgetSet
<1>6. CASE UsageStats(v)
  <2>1. CASE bucket[v] = NoBucket
    BY <1>0, <1>6, <2>1, BudgetUnchanged DEF UsageStats
  <2>2. CASE bucket[v] /= NoBucket
    <3>1. bucket'[v] = b /\ requests'[v] = requests[v]
      BY <1>0, <1>6, <2>2 DEF UsageStats
    <3> HIDE DEF b
    <3> QED
      BY <1>b, <3>1, BudgetSet
  <2> QED
    BY <2>1, <2>2
<1> QED
  BY <1>1, <1>2, <1>3, <1>4, <1>5, <1>6 DEF LimiterNext

LEMMA BudgetsBound == TypeInv /\ Budgets => BurstBound
<1> SUFFICES ASSUME TypeInv, Budgets, NEW u \in Clients, NEW a \in 0..now
             PROVE  Cardinality(Since(requests[u], a)) * Minute <= Cap + PerMinute * (now - a)
  BY DEF BurstBound, Since
<1> DEFINE b == GetTokenBucket(u)
<1>1. b \in Bucket /\ b.last = now /\ BudgetOf(requests[u], b)
  BY BucketType, GotBudget DEF TypeInv, Budgets
<1> HIDE DEF b
<1>2. Cardinality(Since(requests[u], a)) * Minute + b.tokens <= Cap + PerMinute * (now - a)
  BY <1>1 DEF BudgetOf
<1> DEFINE n == Cardinality(Since(requests[u], a)) * Minute
           p == PerMinute * (now - a)
<1>3. n \in Nat /\ p \in Nat
  <2>1. Cardinality(Since(requests[u], a)) \in Nat
    BY SinceFinite DEF TypeInv
  <2>2. now - a \in Nat
    BY LimitsAssumption DEF TypeInv, LimiterTypeOK
  <2> QED
    BY <2>1, <2>2, Times, LimitsAssumption
<1>4. b.tokens \in Nat
  BY <1>1, CapType DEF Bucket
<1> HIDE DEF n, p
<1>5. n <= Cap + p
  BY <1>2, <1>3, <1>4, CapType DEF n, p
<1> QED
  BY <1>5 DEF n, p

(* The token bucket holds its bound for every rate, burst and arrival.     *)
THEOREM BurstHolds == LimiterSpec => []BurstBound
BY BudgetsInit, BudgetsStep, BudgetsBound, TypeInit, TypeStep, PTL DEF LimiterSpec
----------------------------------------------------------------------------
(* retry_after of a full window.                                           *)

(* What will be left of a window when the client may come back.            *)
LeftOf(rs, span, at) == {r \in rs : r.at > at - span}

(* At least one request of the full window will have left it by then.      *)
Promised(u) ==
    /\ promise[u].why = "minute" => Cardinality(LeftOf(requests[u], Minute, promise[u].at)) < PerMinute
    /\ promise[u].why = "hour" => Cardinality(LeftOf(requests[u], Hour, promise[u].at)) < PerHour

(* A second more than the whole seconds of a time is more than the time.   *)
LEMMA SecondMore == ASSUME NEW t \in Int PROVE Whole(t) + Second > t
<1>1. \A q, s \in Int : s > 0 => q \div s \in Int /\ (q \div s) * s + s > q
  OBVIOUS
<1> QED
  BY <1>1, LimitsAssumption DEF Whole

LEMMA LeftSmaller ==
  ASSUME NEW S, IsFiniteSet(S), NEW T, T \subseteq S
  PROVE  /\ Cardinality(T) \in Nat /\ Cardinality(S) \in Nat
         /\ Cardinality(T) <= Cardinality(S)
         /\ T # S => Cardinality(T) < Cardinality(S)
<1>1. IsFiniteSet(T) /\ Cardinality(T) <= Cardinality(S)
  BY FS_Subset
<1>2. Cardinality(T) \in Nat /\ Cardinality(S) \in Nat
  BY <1>1, FS_CardinalityType
<1>3. T # S => Cardinality(T) # Cardinality(S)
  BY FS_Subset
<1> QED
  BY <1>1, <1>2, <1>3

(* The oldest request of a window has left it when retry_after is over.    *)
LEMMA RetryLeaves ==
  ASSUME TypeInv, NEW u \in Clients, NEW span \in Nat \ {0}, span <= Hour,
         NEW limit \in Nat \ {0}, Cardinality(Recent(u, span)) = limit
  PROVE  Cardinality(LeftOf(Recent(u, Hour), span, now + WindowRetry(u, span))) < limit
<1> DEFINE window == Recent(u, span)
           oldest == Oldest(window)
           left == LeftOf(Recent(u, Hour), span, now + WindowRetry(u, span))
<1>1. now \in Nat /\ \A r \in requests[u] : r.at \in Nat
  BY LimitsAssumption DEF TypeInv, LimiterTypeOK
<1>2. window # {} /\ window \subseteq requests[u] /\ IsFiniteSet(window)
  <2>1. window \subseteq requests[u] /\ IsFiniteSet(window)
    BY RecentFinite DEF Recent
  <2> QED
    BY <2>1, FS_EmptySet
<1>3. oldest \in window /\ (\A r \in window : oldest.at <= r.at) /\ oldest.at \in Nat
  BY <1>1, <1>2, OldestIn
<1>4. oldest.at > now - span
  BY <1>3 DEF Recent
<1> DEFINE end == now + WindowRetry(u, span)
<1>5. end \in Int /\ end > oldest.at + span
  <2> HIDE DEF oldest
  <2>1. WindowRetry(u, span) = Whole(oldest.at + span - now) + Second
    BY DEF WindowRetry, oldest
  <2> DEFINE wait == oldest.at + span - now
  <2>2. wait \in Int /\ now + wait = oldest.at + span
    BY <1>1, <1>3
  <2>3. Whole(wait) \in Int /\ Whole(wait) + Second > wait
    BY <2>2, WholeType, SecondMore
  <2>4. end = now + (Whole(wait) + Second)
    BY <2>1
  <2> HIDE DEF wait, end
  <2> QED
    BY <1>1, <2>2, <2>3, <2>4, LimitsAssumption
<1> HIDE DEF end
<1>6. left = LeftOf(Recent(u, Hour), span, end)
  BY DEF end
<1>7. \A r \in left : r \in requests[u] /\ r.at > end - span
  BY <1>6 DEF LeftOf, Recent
<1> HIDE DEF left, window, oldest
<1>8. \A r \in left : r.at > oldest.at
  BY <1>1, <1>3, <1>5, <1>7
<1>9. \A r \in left : r \in window
  BY <1>1, <1>3, <1>4, <1>7, <1>8 DEF window, Recent
<1>10. oldest \notin left
  BY <1>3, <1>8
<1>11. Cardinality(left) < Cardinality(window)
  BY <1>2, <1>3, <1>9, <1>10, LeftSmaller
<1> QED
  BY <1>11 DEF left, window

(* As long as nothing is let through, what will be left only shrinks.      *)
LEMMA PromiseKept ==
  ASSUME TypeInv, NEW u \in Clients, Promised(u), requests'[u] \subseteq requests[u], promise'[u] = promise[u]
  PROVE  Promised(u)'
<1>1. IsFiniteSet(requests[u])
  BY DEF TypeInv
<1>2. ASSUME NEW span
      PROVE  /\ Cardinality(LeftOf(requests'[u], span, promise[u].at)) \in Nat
             /\ Cardinality(LeftOf(requests[u], span, promise[u].at)) \in Nat
             /\ Cardinality(LeftOf(requests'[u], span, promise[u].at))
                  <= Cardinality(LeftOf(requests[u], span, promise[u].at))
  <2> DEFINE S == LeftOf(requests[u], span, promise[u].at)
             T == LeftOf(requests'[u], span, promise[u].at)
  <2>1. T \subseteq S /\ S \subseteq requests[u]
    BY DEF LeftOf
  <2> HIDE DEF S, T
  <2>2. IsFiniteSet(S)
    BY <1>1, <2>1, FS_Subset
  <2>3. Cardinality(T) \in Nat /\ Cardinality(S) \in Nat /\ Cardinality(T) <= Cardinality(S)
    BY <2>1, <2>2, LeftSmaller
  <2> QED
    BY <2>3 DEF S, T
<1>3. /\ Cardinality(LeftOf(requests'[u], Minute, promise[u].at)) \in Nat
      /\ Cardinality(LeftOf(requests[u], Minute, promise[u].at)) \in Nat
      /\ Cardinality(LeftOf(requests'[u], Minute, promise[u].at))
           <= Cardinality(LeftOf(requests[u], Minute, promise[u].at))
  BY <1>2
<1>4. /\ Cardinality(LeftOf(requests'[u], Hour, promise[u].at)) \in Nat
      /\ Cardinality(LeftOf(requests[u], Hour, promise[u].at)) \in Nat
      /\ Cardinality(LeftOf(requests'[u], Hour, promise[u].at))
           <= Cardinality(LeftOf(requests[u], Hour, promise[u].at))
  BY <1>2
<1>5. promise'[u].why = "minute" =>
          Cardinality(LeftOf(requests'[u], Minute, promise'[u].at)) < PerMinute
  BY <1>3, LimitsAssumption DEF Promised
<1>6. promise'[u].why = "hour" =>
          Cardinality(LeftOf(requests'[u], Hour, promise'[u].at)) < PerHour
  BY <1>4, LimitsAssumption DEF Promised
<1> QED
  BY <1>5, <1>6 DEF Promised

Promises == \A u \in Clients : Promised(u)

LEMMA PromisesInit == LimiterInit => Promises
BY DEF LimiterInit, None, Promises, Promised

LEMMA PromisesStep == TypeInv /\ WindowLimits /\ Promises /\ [LimiterNext]_limiterVars => Promises'
<1> SUFFICES ASSUME TypeInv, WindowLimits, Promises, [LimiterNext]_limiterVars, NEW v \in Clients PROVE Promised(v)'
  BY DEF Promises
<1>1. Promised(v) /\ promise \in [Clients -> [at : Int, why : {"none", "minute", "hour", "burst"}]]
  BY DEF Promises, TypeInv, LimiterTypeOK
<1>2. /\ Cardinality(Recent(v, Minute)) <= PerMinute /\ Cardinality(Recent(v, Minute)) \in Nat
      /\ Cardinality(Recent(v, Hour)) <= PerHour /\ Cardinality(Recent(v, Hour)) \in Nat
  BY RecentFinite, LimitsAssumption DEF WindowLimits
<1>3. CASE DenyMinute(v)
  <2>1. promise'[v] = [at |-> now + WindowRetry(v, Minute), why |-> "minute"]
        /\ requests'[v] = Recent(v, Hour)
    BY <1>1, <1>3 DEF DenyMinute, Deny, Forget, TypeInv, LimiterTypeOK
  <2>2. Cardinality(Recent(v, Minute)) = PerMinute
    BY <1>2, <1>3, LimitsAssumption DEF DenyMinute, MinuteFull
  <2>3. Cardinality(LeftOf(Recent(v, Hour), Minute, now + WindowRetry(v, Minute))) < PerMinute
    BY <2>2, RetryLeaves, LimitsAssumption
  <2> QED
    BY <2>1, <2>3 DEF Promised
<1>4. CASE DenyHour(v)
  <2>1. promise'[v] = [at |-> now + WindowRetry(v, Hour), why |-> "hour"]
        /\ requests'[v] = Recent(v, Hour)
    BY <1>1, <1>4 DEF DenyHour, Deny, Forget, TypeInv, LimiterTypeOK
  <2>2. Cardinality(Recent(v, Hour)) = PerHour
    BY <1>2, <1>4, LimitsAssumption DEF DenyHour, HourFull
  <2>3. Hour \in Nat \ {0} /\ Hour <= Hour
    BY LimitsAssumption
  <2>4. Cardinality(LeftOf(Recent(v, Hour), Hour, now + WindowRetry(v, Hour))) < PerHour
    BY <2>2, <2>3, RetryLeaves, LimitsAssumption
  <2> QED
    BY <2>1, <2>4 DEF Promised
<1>5. CASE DenyBurst(v) \/ Admit(v)
  BY <1>1, <1>5 DEF DenyBurst, Deny, Admit, None, Promised
<1>6. CASE ~ (DenyMinute(v) \/ DenyHour(v) \/ DenyBurst(v) \/ Admit(v))
  <2>1. promise'[v] = promise[v]
    BY <1>1, <1>6 DEF LimiterNext, limiterVars, Tick, DenyMinute, DenyHour, DenyBurst, Deny, Admit, UsageStats
  <2> QED
    BY <1>1, <1>6, <2>1, NothingThrough, PromiseKept
<1> QED
  BY <1>3, <1>4, <1>5, <1>6

(* A window that would be full after the promised time is not.             *)
LEMMA NotFullAgain ==
  ASSUME TypeInv, NEW u \in Clients, NEW span \in Nat, NEW at \in Int, at <= now, NEW limit \in Nat,
         Cardinality(LeftOf(requests[u], span, at)) < limit
  PROVE  ~ (Cardinality(Recent(u, span)) >= limit)
<1> DEFINE S == LeftOf(requests[u], span, at)
           T == Recent(u, span)
<1>1. now \in Nat /\ (\A r \in requests[u] : r.at \in Nat) /\ IsFiniteSet(requests[u])
  BY LimitsAssumption DEF TypeInv, LimiterTypeOK
<1>2. T \subseteq S /\ S \subseteq requests[u]
  BY <1>1 DEF LeftOf, Recent
<1> HIDE DEF S, T
<1>3. IsFiniteSet(S)
  BY <1>1, <1>2, FS_Subset
<1>4. Cardinality(T) \in Nat /\ Cardinality(S) \in Nat /\ Cardinality(T) <= Cardinality(S)
  BY <1>2, <1>3, LeftSmaller
<1>5. ~ (Cardinality(T) >= limit)
  BY <1>4 DEF S
<1> QED
  BY <1>5 DEF T

LEMMA PromisesHonoured ==
  TypeInv /\ Promises /\ [LimiterNext]_limiterVars => [~BreaksPromise("minute") /\ ~BreaksPromise("hour")]_limiterVars
<1> SUFFICES ASSUME TypeInv, Promises, LimiterNext, NEW u \in Clients, NEW why \in {"minute", "hour"},
                    promise[u].why = why, now >= promise[u].at,
                    promise'[u] # promise[u], promise'[u].why = why
             PROVE  FALSE
  BY DEF BreaksPromise
<1>1. promise \in [Clients -> [at : Int, why : {"none", "minute", "hour", "burst"}]]
      /\ promise[u].at \in Int /\ now \in Nat /\ Promised(u)
  BY LimitsAssumption DEF TypeInv, LimiterTypeOK, Promises
<1>2. DenyMinute(u) \/ DenyHour(u) \/ DenyBurst(u) \/ Admit(u)
  BY <1>1 DEF LimiterNext, Tick, DenyMinute, DenyHour, DenyBurst, Deny, Admit, UsageStats
<1>3. CASE DenyMinute(u)
  <2>1. why = "minute"
    BY <1>1, <1>3 DEF DenyMinute, Deny
  <2>2. ~ (Cardinality(Recent(u, Minute)) >= PerMinute)
    BY <1>1, <2>1, NotFullAgain, LimitsAssumption DEF Promised
  <2> QED
    BY <1>3, <2>2 DEF DenyMinute, MinuteFull
<1>4. CASE DenyHour(u)
  <2>1. why = "hour"
    BY <1>1, <1>4 DEF DenyHour, Deny
  <2>2. ~ (Cardinality(Recent(u, Hour)) >= PerHour)
    BY <1>1, <2>1, NotFullAgain, LimitsAssumption DEF Promised
  <2> QED
    BY <1>4, <2>2 DEF DenyHour, HourFull
<1>5. CASE DenyBurst(u) \/ Admit(u)
  BY <1>1, <1>5 DEF DenyBurst, Deny, Admit, None
<1> QED
  BY <1>2, <1>3, <1>4, <1>5

(* A client that waits as long as a full minute or a full hour told it to, *)
(* and had nothing let through in between, is not turned away by the same  *)
(* limit again, for every limit, window and length of a second.            *)
THEOREM WindowRetriesHonoured == LimiterSpec => WindowRetryHonoured
<1>1. LimiterSpec => [](TypeInv /\ WindowLimits /\ Promises)
  <2>1. LimiterInit => TypeInv /\ WindowLimits /\ Promises
    BY TypeInit, WindowsInit, PromisesInit
  <2>2. TypeInv /\ WindowLimits /\ Promises /\ [LimiterNext]_limiterVars => (TypeInv /\ WindowLimits /\ Promises)'
    BY TypeStep, WindowsStep, PromisesStep
  <2> QED
    BY <2>1, <2>2, PTL DEF LimiterSpec
<1> QED
  BY <1>1, PromisesHonoured, PTL DEF LimiterSpec, WindowRetryHonoured
================================================================================
