----------------------------- MODULE UnifiedServer -----------------------------
(***************************************************************************)
(* UnifiedMCPServer of src/src/server_unified.py: the lifespan that opens  *)
(* and closes the retrievers, and the search and health tools that use the *)
(* one dictionary of retrievers across their awaits.  FastMCP enters the   *)
(* lifespan once per process or once per client session, according to its  *)
(* version; a process that enters it once is the case of one session.  A   *)
(* step ends where the code awaits something that can suspend.             *)
(***************************************************************************)
EXTENDS Naturals, Sequences, FiniteSets

CONSTANTS Sessions,   \* entries of the lifespan
          Requests,   \* tool calls
          Web, Vectors, Database,   \* "tavily", "qdrant", "postgres"
          Sources     \* the sources init_retrievers tries, in its order

Names == {Sources[i] : i \in DOMAIN Sources}

ASSUME SourcesAssumption ==
    /\ Sources \in Seq({Web, Vectors, Database}) /\ Sources # <<>>
    /\ \A i, j \in DOMAIN Sources : Sources[i] = Sources[j] => i = j
    /\ \A n \in Names : n \notin {"all", "health", "none"}

VARIABLES
    \* of the server
    registry,   \* self.retrievers, in the order of insertion
    open,       \* the retrievers with _connected
    contexts,   \* the requests that have an entry in context_store
    \* of a session
    phase,      \* where its lifespan is
    step,       \* the source being opened, or the item being closed
    closing,    \* the retriever cleanup is disconnecting
    size,       \* the size of the dictionary when cleanup began to iterate
    lost,       \* sessions whose stream refuses notifications for now
    met,        \* history: the sessions alive at the same time
    stuck,      \* history: retrievers whose disconnect raised
    \* of a request
    pc, kind, ses,
    targets,    \* the retrievers it works on
    child,      \* what each of its searches is doing
    at, length, \* health_check: the item, and the size when it began to iterate
    out,        \* how it ended
    hurt        \* history: requests that had a notification refused

sessionVars == <<phase, step, closing, size, met, stuck>>
serverVars == <<registry, open, contexts>>
callVars == <<kind, ses, targets, child, at, length>>
vars == <<serverVars, sessionVars, lost, pc, callVars, out, hurt>>

Retriever == [by : Sessions, src : Names]
Kinds == {"all", "health"} \cup Names

Running == {"told", "fetching", "reporting"}
Settled == {"ok", "error", "raised", "cancelled"}

TypeOK ==
    /\ registry \in Seq(Retriever) /\ open \subseteq Retriever
    /\ contexts \subseteq Requests
    /\ phase \in [Sessions -> {"new", "starting", "serving", "stopping", "stopped"}]
    /\ closing \in [Sessions -> SUBSET Retriever]
    /\ step \in [Sessions -> Nat] /\ size \in [Sessions -> Nat]
    /\ lost \subseteq Sessions /\ met \in [Sessions -> SUBSET Sessions]
    /\ stuck \subseteq Retriever
    /\ pc \in [Requests -> {"new", "greeting", "warning", "announcing", "gathering",
                            "routing", "searching", "probing", "closing", "blaming",
                            "regretting", "ended"}]
    /\ kind \in [Requests -> Kinds \cup {"none"}]
    /\ ses \in [Requests -> Sessions \cup {"none"}]
    /\ targets \in [Requests -> SUBSET Retriever]
    /\ child \in [Requests -> [Retriever -> {"none"} \cup Running \cup Settled]]
    /\ at \in [Requests -> Nat] /\ length \in [Requests -> Nat]
    /\ out \in [Requests -> {"none", "answered", "taskgroup", "toolerror", "raised", "cancelled"}]
    /\ hurt \subseteq Requests
    /\ \A i, j \in DOMAIN registry : registry[i].src = registry[j].src => i = j

Init ==
    /\ registry = <<>> /\ open = {} /\ contexts = {}
    /\ phase = [s \in Sessions |-> "new"]
    /\ closing = [s \in Sessions |-> {}]
    /\ step = [s \in Sessions |-> 0] /\ size = [s \in Sessions |-> 0]
    /\ lost = {} /\ met = [s \in Sessions |-> {}] /\ stuck = {}
    /\ pc = [r \in Requests |-> "new"]
    /\ kind = [r \in Requests |-> "none"] /\ ses = [r \in Requests |-> "none"]
    /\ targets = [r \in Requests |-> {}]
    /\ child = [r \in Requests |-> [o \in Retriever |-> "none"]]
    /\ at = [r \in Requests |-> 0] /\ length = [r \in Requests |-> 0]
    /\ out = [r \in Requests |-> "none"] /\ hurt = {}

Entries == {registry[i] : i \in DOMAIN registry}
Active(r) == pc[r] \notin {"new", "ended"}
Alive(s) == phase[s] \in {"starting", "serving", "stopping"}

-----------------------------------------------------------------------------
(* The lifespan of a session *)

EnterLifespan(s) ==
    /\ phase[s] = "new"
    /\ phase' = [phase EXCEPT ![s] = "starting"]
    /\ step' = [step EXCEPT ![s] = 1]
    /\ met' = [x \in Sessions |->
                 IF x = s THEN {y \in Sessions : Alive(y)}
                          ELSE IF Alive(x) THEN met[x] \cup {s} ELSE met[x]]
    /\ UNCHANGED <<serverVars, closing, size, stuck, lost, pc, callVars, out, hurt>>

(* self.retrievers[name] = retriever *)
Put(o) == IF \E i \in DOMAIN registry : registry[i].src = o.src
          THEN [i \in DOMAIN registry |-> IF registry[i].src = o.src THEN o ELSE registry[i]]
          ELSE Append(registry, o)

Opened(s) == [by |-> s, src |-> Sources[step[s]]]

(* One of the three blocks of init_retrievers.  A connect that raises, or  *)
(* no API key, leaves the source out.                                      *)
InitSource(s) ==
    /\ phase[s] = "starting" /\ step[s] <= Len(Sources)
    /\ \/ open' = open \cup {Opened(s)} /\ registry' = Put(Opened(s))
       \/ UNCHANGED <<open, registry>>
    /\ step' = [step EXCEPT ![s] = @ + 1]
    /\ phase' = [phase EXCEPT ![s] = IF step[s] = Len(Sources) THEN "serving" ELSE @]
    /\ UNCHANGED <<contexts, closing, size, met, stuck, lost, pc, callVars, out, hurt>>

(* The for loop of cleanup asks the dictionary, of size n when it began,   *)
(* for item i: it raises when the size changed, and the rest is skipped;   *)
(* past the last item the contexts and the dictionary are cleared.         *)
CleanupItem(s, n, i) ==
    IF Len(registry) = n /\ i <= n
    THEN /\ phase' = [phase EXCEPT ![s] = "stopping"]
         /\ closing' = [closing EXCEPT ![s] = {registry[i]}]
         /\ size' = [size EXCEPT ![s] = n]
         /\ step' = [step EXCEPT ![s] = i]
         /\ UNCHANGED <<contexts, registry>>
    ELSE /\ phase' = [phase EXCEPT ![s] = "stopped"]
         /\ closing' = [closing EXCEPT ![s] = {}]
         /\ size' = [size EXCEPT ![s] = 0]
         /\ step' = [step EXCEPT ![s] = 0]
         /\ IF Len(registry) = n THEN contexts' = {} /\ registry' = <<>>
                                 ELSE UNCHANGED <<contexts, registry>>

(* FastMCP leaves the lifespan when the handlers of the session are done.  *)
LeaveLifespan(s) ==
    /\ phase[s] = "serving"
    /\ \A r \in Requests : ses[r] = s => ~Active(r)
    /\ CleanupItem(s, Len(registry), 1)
    /\ UNCHANGED <<open, met, stuck, lost, pc, callVars, out, hurt>>

(* Mutant: the error of a disconnect ends the loop. *)
CleanupGivesUp(s) ==
    /\ phase[s] = "stopping"
    /\ \/ /\ open' = open \ closing[s] /\ stuck' = stuck
          /\ CleanupItem(s, size[s], step[s] + 1)
       \/ /\ stuck' = stuck \cup closing[s] /\ open' = open
          /\ CleanupItem(s, size[s], Len(registry) + 1)
    /\ UNCHANGED <<met, lost, pc, callVars, out, hurt>>

(* await retriever.disconnect(), which may raise: the error is logged.     *)
CleanupStep(s) ==
    /\ phase[s] = "stopping"
    /\ \/ open' = open \ closing[s] /\ stuck' = stuck
       \/ stuck' = stuck \cup closing[s] /\ open' = open
    /\ CleanupItem(s, size[s], step[s] + 1)
    /\ UNCHANGED <<met, lost, pc, callVars, out, hurt>>

-----------------------------------------------------------------------------
(* What every tool does: it awaits ctx.info, and that raises when the      *)
(* client's stream is gone.                                                *)

StreamBreaks(s) ==
    /\ s \notin lost /\ \E r \in Requests : Active(r) /\ ses[r] = s
    /\ lost' = lost \cup {s}
    /\ UNCHANGED <<serverVars, sessionVars, pc, callVars, out, hurt>>

StreamResumes(s) ==
    /\ s \in lost
    /\ lost' = lost \ {s}
    /\ UNCHANGED <<serverVars, sessionVars, pc, callVars, out, hurt>>

Heard(r) == ses[r] \notin lost

Goto(r, where) == pc' = [pc EXCEPT ![r] = where] /\ UNCHANGED out

Finish(r, how) ==
    /\ pc' = [pc EXCEPT ![r] = "ended"]
    /\ out' = [out EXCEPT ![r] = how]

(* A notification that raises where no handler catches it.                 *)
Unheard(r) ==
    /\ ~Heard(r)
    /\ hurt' = hurt \cup {r}
    /\ Finish(r, "raised")

(* A tool call begins: _get_or_create_user_context, then ctx.info.  The    *)
(* id of the context is a new one, so _record_tool_usage finds none later. *)
Call(r, s, k) ==
    /\ pc[r] = "new" /\ phase[s] = "serving"
    /\ kind' = [kind EXCEPT ![r] = k]
    /\ ses' = [ses EXCEPT ![r] = s]
    /\ contexts' = contexts \cup {r}
    /\ Goto(r, "greeting")
    /\ UNCHANGED <<registry, open, sessionVars, lost, targets, child, at, length, hurt>>

(* The notification before any work, or between two parts of it, raises.   *)
NotHeard(r) ==
    /\ pc[r] \in {"greeting", "warning", "announcing", "routing", "blaming", "regretting"}
    /\ Unheard(r)
    /\ UNCHANGED <<serverVars, sessionVars, lost, callVars>>

(* The last notification.  search_web and health_check catch what it raises. *)
Close(r) ==
    /\ pc[r] = "closing"
    /\ \/ Heard(r) /\ Finish(r, "answered") /\ UNCHANGED hurt
       \/ kind[r] \notin {Web, "health"} /\ Unheard(r)
       \/ /\ kind[r] \in {Web, "health"} /\ ~Heard(r)
          /\ hurt' = hurt \cup {r}
          /\ Goto(r, "regretting")
    /\ UNCHANGED <<serverVars, sessionVars, lost, callVars>>

(* ctx.error, then raise ToolError *)
Regret(r) ==
    /\ pc[r] = "regretting" /\ Heard(r)
    /\ Finish(r, "toolerror")
    /\ UNCHANGED <<serverVars, sessionVars, lost, callVars, hurt>>

(* Mutant: the searches are tasks of their own, not children of the call. *)
NotCancelled(c) == c

(* The task is cancelled at its await; a TaskGroup cancels its children.   *)
Cancelled(c) == [o \in Retriever |-> IF c[o] \in Running THEN "cancelled" ELSE c[o]]

Cancel(r) ==
    /\ Active(r)
    /\ child' = [child EXCEPT ![r] = Cancelled(@)]
    /\ Finish(r, "cancelled")
    /\ UNCHANGED <<serverVars, sessionVars, lost, kind, ses, targets, at, length, hurt>>

-----------------------------------------------------------------------------
(* search_all *)

SearchAllCollect(r) ==
    /\ pc[r] = "greeting" /\ kind[r] = "all" /\ Heard(r)
    /\ targets' = [targets EXCEPT ![r] = Entries \cap open]
    /\ Goto(r, IF Entries \cap open = {} THEN "warning" ELSE "announcing")
    /\ UNCHANGED <<serverVars, sessionVars, lost, kind, ses, child, at, length, hurt>>

SearchAllNoSource(r) ==
    /\ pc[r] = "warning" /\ Heard(r)
    /\ Finish(r, "answered")
    /\ UNCHANGED <<serverVars, sessionVars, lost, callVars, hurt>>

SearchAllFork(r) ==
    /\ pc[r] = "announcing" /\ Heard(r)
    /\ child' = [child EXCEPT ![r] =
                   [o \in Retriever |-> IF o \in targets[r] THEN "told" ELSE @[o]]]
    /\ Goto(r, "gathering")
    /\ UNCHANGED <<serverVars, sessionVars, lost, kind, ses, targets, at, length, hurt>>

ChildTo(r, o, where) == child' = [child EXCEPT ![r][o] = where]

(* _search_single_source: its ctx.info is heard, and retrieve begins.      *)
SourceStart(r, o) ==
    /\ child[r][o] = "told" /\ kind[r] = "all"
    /\ ChildTo(r, o, IF Heard(r) /\ o \in open THEN "fetching" ELSE "reporting")
    /\ hurt' = IF Heard(r) THEN hurt ELSE hurt \cup {r}
    /\ UNCHANGED <<serverVars, sessionVars, lost, pc, kind, ses, targets, at, length, out>>

(* Mutant: only the error of a query is caught. *)
SourceFetchedOrRaised(r, o) ==
    /\ child[r][o] = "fetching" /\ kind[r] = "all"
    /\ \/ ChildTo(r, o, "ok")
       \/ ChildTo(r, o, "reporting")
       \/ child' = [child EXCEPT ![r] = [Cancelled(@) EXCEPT ![o] = "raised"]]
    /\ UNCHANGED <<serverVars, sessionVars, lost, pc, kind, ses, targets, at, length, out, hurt>>

SourceFetched(r, o) ==
    /\ child[r][o] = "fetching" /\ kind[r] = "all"
    /\ \/ ChildTo(r, o, "ok")
       \/ ChildTo(r, o, "reporting")
    /\ UNCHANGED <<serverVars, sessionVars, lost, pc, kind, ses, targets, at, length, out, hurt>>

(* ctx.error of the handler.  If it raises the task fails, and the         *)
(* TaskGroup cancels the others.                                           *)
SourceReports(r, o) ==
    /\ child[r][o] = "reporting"
    /\ \/ Heard(r) /\ ChildTo(r, o, "error") /\ UNCHANGED hurt
       \/ /\ ~Heard(r)
          /\ child' = [child EXCEPT ![r] = [Cancelled(@) EXCEPT ![o] = "raised"]]
          /\ hurt' = hurt \cup {r}
    /\ UNCHANGED <<serverVars, sessionVars, lost, pc, kind, ses, targets, at, length, out>>

(* Mutant: the call waits for an answer of each source, and a failed task has none. *)
JoinOnAnswers(r) ==
    /\ pc[r] = "gathering"
    /\ \A o \in targets[r] : child[r][o] \in {"ok", "error"}
    /\ Goto(r, "closing")
    /\ UNCHANGED <<serverVars, sessionVars, lost, callVars, hurt>>

SearchAllJoin(r) ==
    /\ pc[r] = "gathering"
    /\ \A o \in targets[r] : child[r][o] \in Settled
    /\ Goto(r, IF \E o \in targets[r] : child[r][o] = "raised" THEN "blaming" ELSE "closing")
    /\ UNCHANGED <<serverVars, sessionVars, lost, callVars, hurt>>

SearchAllGroupFailed(r) ==
    /\ pc[r] = "blaming" /\ Heard(r)
    /\ Finish(r, "taskgroup")
    /\ UNCHANGED <<serverVars, sessionVars, lost, callVars, hurt>>

-----------------------------------------------------------------------------
(* search_web, search_vectors and search_database *)

Ready(n) == {o \in Entries \cap open : o.src = n}

SearchOneLookup(r) ==
    /\ pc[r] = "greeting" /\ kind[r] \in Names /\ Heard(r)
    /\ targets' = [targets EXCEPT ![r] = Ready(kind[r])]
    /\ IF Ready(kind[r]) = {}
       THEN Finish(r, "toolerror")
       ELSE Goto(r, IF kind[r] = Database THEN "routing" ELSE "searching")
    /\ UNCHANGED <<serverVars, sessionVars, lost, kind, ses, child, at, length, hurt>>

(* search_database says what it runs; the retriever checks that it is      *)
(* connected, and its ConnectionError is not caught.                       *)
SearchOneRoute(r) ==
    /\ pc[r] = "routing" /\ Heard(r)
    /\ IF targets[r] \subseteq open THEN Goto(r, "searching") ELSE Finish(r, "raised")
    /\ UNCHANGED <<serverVars, sessionVars, lost, callVars, hurt>>

(* Results, a QueryError, or another exception: search_web catches all.    *)
SearchOneFetched(r) ==
    /\ pc[r] = "searching"
    /\ \/ Goto(r, "closing")
       \/ Goto(r, "regretting")
       \/ kind[r] # Web /\ Finish(r, "raised")
    /\ UNCHANGED <<serverVars, sessionVars, lost, callVars, hurt>>

-----------------------------------------------------------------------------
(* health_check *)

(* The for loop over self.retrievers.items() asks for item i.              *)
HealthItem(r, n, i) ==
    IF Len(registry) = n /\ i <= n
    THEN /\ length' = [length EXCEPT ![r] = n]
         /\ at' = [at EXCEPT ![r] = i]
         /\ Goto(r, "probing")
    ELSE /\ length' = [length EXCEPT ![r] = 0]
         /\ at' = [at EXCEPT ![r] = 0]
         /\ Goto(r, IF Len(registry) = n THEN "closing" ELSE "regretting")

HealthBegin(r) ==
    /\ pc[r] = "greeting" /\ kind[r] = "health" /\ Heard(r)
    /\ HealthItem(r, Len(registry), 1)
    /\ UNCHANGED <<serverVars, sessionVars, lost, kind, ses, targets, child, hurt>>

(* Mutant: what a retriever's health_check raises is the answer. *)
HealthProbedOrRaised(r) ==
    /\ pc[r] = "probing"
    /\ \/ HealthItem(r, length[r], at[r] + 1)
       \/ Goto(r, "regretting") /\ UNCHANGED <<at, length>>
    /\ UNCHANGED <<serverVars, sessionVars, lost, kind, ses, targets, child, hurt>>

(* await retriever.health_check(); what it raises only marks the source.   *)
HealthProbed(r) ==
    /\ pc[r] = "probing"
    /\ HealthItem(r, length[r], at[r] + 1)
    /\ UNCHANGED <<serverVars, sessionVars, lost, kind, ses, targets, child, hurt>>

-----------------------------------------------------------------------------

(* The steps that follow a notification: nothing says when a client takes it. *)
NoticeStep(r) ==
    \/ NotHeard(r) \/ Close(r) \/ Regret(r)
    \/ SearchAllCollect(r) \/ SearchAllNoSource(r) \/ SearchAllFork(r)
    \/ SearchAllGroupFailed(r)
    \/ \E o \in Retriever : SourceStart(r, o) \/ SourceReports(r, o)
    \/ SearchOneLookup(r) \/ SearchOneRoute(r)
    \/ HealthBegin(r)

(* The steps that follow a retrieve or a health_check of a retriever: the  *)
(* tools set them no timeout.                                              *)
SourceStep(r) ==
    \/ \E o \in Retriever : SourceFetched(r, o)
    \/ SearchOneFetched(r) \/ HealthProbed(r)

RequestStep(r) == NoticeStep(r) \/ SourceStep(r) \/ SearchAllJoin(r)

SessionStep(s) == InitSource(s) \/ CleanupStep(s)

Next ==
    \/ \E s \in Sessions :
         EnterLifespan(s) \/ LeaveLifespan(s) \/ SessionStep(s)
         \/ StreamBreaks(s) \/ StreamResumes(s)
    \/ \E r \in Requests :
         \/ \E s \in Sessions, k \in Kinds : Call(r, s, k)
         \/ RequestStep(r) \/ Cancel(r)

(* The event loop goes on with a search_all whose searches are all over.   *)
(* Nothing else ends by itself: connect and disconnect, notifications and  *)
(* queries may take for ever.                                              *)
Fairness == \A r \in Requests : WF_vars(SearchAllJoin(r))

Spec == Init /\ [][Next]_vars /\ Fairness

-----------------------------------------------------------------------------
(* Properties *)

(* What search_all answers covers every source it started, each with its   *)
(* results or its error, and the group fails as a whole only when a        *)
(* notification was refused: no failing source costs the others' results.  *)
FailureIsContained ==
    \A r \in Requests : kind[r] = "all" =>
        /\ out[r] = "answered" =>
             \A o \in targets[r] : child[r][o] \in {"ok", "error"}
        /\ out[r] \in {"taskgroup", "raised"} => r \in hurt

(* No search goes on behind the back of a call that is over, however it    *)
(* ended: the stream would get notifications of a request it has answered. *)
NoSearchOutlivesItsCall ==
    \A r \in Requests : pc[r] = "ended" =>
        \A o \in Retriever : child[r][o] \notin Running

(* A session whose life no other session overlapped leaves no retriever    *)
(* connected but those whose disconnect raised.                            *)
AloneLeavesNothingOpen ==
    \A s \in Sessions : phase[s] = "stopped" /\ met[s] = {} =>
        \A o \in open : o.by = s => o \in stuck

(* While no other session overlaps, the dictionary health_check iterates   *)
(* does not change under it: it fails only with its notifications.         *)
HealthCheckAnswers ==
    \A r \in Requests :
        kind[r] = "health" /\ out[r] \in {"toolerror", "raised"} =>
            r \in hurt \/ met[ses[r]] # {}

(* A call whose own notifications and queries all return or raise, in      *)
(* whatever way, ends: it waits for nothing else, no failed search of its  *)
(* group, no other call, and no session that opens or closes retrievers    *)
(* meanwhile, even one that hangs there.  One of them that never returns,  *)
(* a slow source of search_all say, keeps its call for ever.               *)
CallsEnd ==
    \A r \in Requests :
        WF_vars(NoticeStep(r)) /\ WF_vars(SourceStep(r)) => (Active(r) ~> pc[r] = "ended")
=============================================================================
