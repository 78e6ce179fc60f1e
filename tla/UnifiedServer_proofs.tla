------------------------- MODULE UnifiedServer_proofs -------------------------
(***************************************************************************)
(* Proofs about UnifiedServer, for any number of sessions, calls and       *)
(* sources: the searches of a call never outlive it, a source that fails   *)
(* never costs the results of another, and a session that meets no other   *)
(* leaves nothing open and has its health checks answered.                 *)
(***************************************************************************)
EXTENDS UnifiedServer, TLAPS

States == {"new", "greeting", "warning", "announcing", "gathering", "routing",
           "searching", "probing", "closing", "blaming", "regretting", "ended"}
Outs == {"none", "answered", "taskgroup", "toolerror", "raised", "cancelled"}
ChildStates == {"none"} \cup Running \cup Settled

(* TypeOK in two parts: the sessions with the dictionary, and the calls.   *)
ServerType ==
    /\ registry \in Seq(Retriever) /\ open \subseteq Retriever
    /\ contexts \subseteq Requests
    /\ phase \in [Sessions -> {"new", "starting", "serving", "stopping", "stopped"}]
    /\ closing \in [Sessions -> SUBSET Retriever]
    /\ step \in [Sessions -> Nat] /\ size \in [Sessions -> Nat]
    /\ lost \subseteq Sessions /\ met \in [Sessions -> SUBSET Sessions]
    /\ stuck \subseteq Retriever
    /\ \A i, j \in DOMAIN registry : registry[i].src = registry[j].src => i = j

UniqueNames(q) == \A i, j \in DOMAIN q : q[i].src = q[j].src => i = j

CallType ==
    /\ pc \in [Requests -> States]
    /\ kind \in [Requests -> Kinds \cup {"none"}]
    /\ ses \in [Requests -> Sessions \cup {"none"}]
    /\ targets \in [Requests -> SUBSET Retriever]
    /\ child \in [Requests -> [Retriever -> ChildStates]]
    /\ at \in [Requests -> Nat] /\ length \in [Requests -> Nat]
    /\ out \in [Requests -> Outs]
    /\ hurt \subseteq Requests

(* A session that opens its sources is past the beginning of the list.     *)
StepsFromOne == \A s \in Sessions : phase[s] = "starting" => step[s] >= 1

TypeInv == ServerType /\ CallType /\ StepsFromOne

LEMMA TypeParts == TypeInv => TypeOK
  BY DEF TypeInv, ServerType, CallType, TypeOK, States, Outs, ChildStates

(* What Put leaves in the dictionary is a sequence of retrievers with one  *)
(* entry for each name.                                                    *)
LEMMA PutType ==
  ASSUME ServerType, NEW o \in Retriever
  PROVE  /\ Put(o) \in Seq(Retriever)
         /\ \A i, j \in DOMAIN Put(o) : Put(o)[i].src = Put(o)[j].src => i = j
<1>1. CASE \E i \in DOMAIN registry : registry[i].src = o.src
  <2>1. Put(o) = [i \in DOMAIN registry |-> IF registry[i].src = o.src THEN o ELSE registry[i]]
    BY <1>1 DEF Put
  <2>2. DOMAIN registry = 1..Len(registry) /\ Len(registry) \in Nat
    BY DEF ServerType
  <2>3. \A i \in DOMAIN registry : registry[i] \in Retriever
    BY DEF ServerType
  <2>4. Put(o) \in Seq(Retriever)
    BY <2>1, <2>2, <2>3
  <2>5. \A i \in DOMAIN registry : Put(o)[i].src = registry[i].src
    BY <2>1
  <2>6. DOMAIN Put(o) = DOMAIN registry
    BY <2>1
  <2> QED
    BY <2>4, <2>5, <2>6 DEF ServerType
<1>2. CASE ~\E i \in DOMAIN registry : registry[i].src = o.src
  <2>1. Put(o) = Append(registry, o)
    BY <1>2 DEF Put
  <2>2. registry \in Seq(Retriever) /\ DOMAIN registry = 1..Len(registry) /\ Len(registry) \in Nat
    BY DEF ServerType
  <2>3. Put(o) \in Seq(Retriever)
    BY <2>1, <2>2
  <2>4. DOMAIN Put(o) = 1..(Len(registry) + 1)
    BY <2>1, <2>2
  <2>5. \A i \in DOMAIN registry : Put(o)[i] = registry[i]
    BY <2>1, <2>2
  <2>6. Put(o)[Len(registry) + 1] = o
    BY <2>1, <2>2
  <2>7. \A i \in DOMAIN Put(o) : i \in DOMAIN registry \/ i = Len(registry) + 1
    BY <2>2, <2>4
  <2> QED
    BY <2>3, <2>5, <2>6, <2>7, <1>2 DEF ServerType
<1> QED
  BY <1>1, <1>2

-----------------------------------------------------------------------------
(* Type correctness *)

(* What a step that leaves the sessions and the dictionary alone keeps.    *)
LEMMA ServerKept ==
  ASSUME ServerType, StepsFromOne, UNCHANGED <<registry, open, sessionVars>>,
         contexts' \subseteq Requests, lost' \subseteq Sessions
  PROVE  ServerType' /\ StepsFromOne'
  BY DEF ServerType, StepsFromOne, sessionVars

LEMMA CallsKept ==
  ASSUME CallType, UNCHANGED <<pc, callVars, out, hurt>>
  PROVE  CallType'
  BY DEF CallType, callVars

LEMMA CleanupItemType ==
  ASSUME TypeInv, NEW s \in Sessions, NEW n \in Nat, NEW i \in Nat \ {0},
         CleanupItem(s, n, i), open' \subseteq Retriever, stuck' \subseteq Retriever,
         UNCHANGED <<met, lost>>
  PROVE  ServerType' /\ StepsFromOne'
<1> USE DEF TypeInv
<1>0. UniqueNames(registry) /\ registry \in Seq(Retriever) /\ contexts \subseteq Requests
  BY DEF ServerType, UniqueNames
<1>1. /\ registry' \in Seq(Retriever) /\ contexts' \subseteq Requests
      /\ UniqueNames(registry')
  <2>1. CASE contexts' = {} /\ registry' = <<>>
    <3>1. DOMAIN registry' = {}
      BY <2>1
    <3> QED
      BY <2>1, <3>1 DEF UniqueNames
  <2>2. CASE UNCHANGED <<contexts, registry>>
    BY <2>2, <1>0
  <2> QED
    BY <2>1, <2>2 DEF CleanupItem
<1>2. /\ phase \in [Sessions -> {"new", "starting", "serving", "stopping", "stopped"}]
      /\ closing \in [Sessions -> SUBSET Retriever]
      /\ step \in [Sessions -> Nat] /\ size \in [Sessions -> Nat]
  BY DEF ServerType
<1>3. /\ phase' \in [Sessions -> {"new", "starting", "serving", "stopping", "stopped"}]
      /\ closing' \in [Sessions -> SUBSET Retriever]
      /\ step' \in [Sessions -> Nat] /\ size' \in [Sessions -> Nat]
  <2>1. CASE Len(registry) = n /\ i <= n
    <3>1. i \in DOMAIN registry
      BY <2>1, <1>0
    <3>2. registry[i] \in Retriever
      BY <3>1, <1>0
    <3>3. /\ phase' = [phase EXCEPT ![s] = "stopping"]
          /\ closing' = [closing EXCEPT ![s] = {registry[i]}]
          /\ size' = [size EXCEPT ![s] = n]
          /\ step' = [step EXCEPT ![s] = i]
      BY <2>1 DEF CleanupItem
    <3> QED
      BY <3>2, <3>3, <1>2
  <2>2. CASE ~(Len(registry) = n /\ i <= n)
    <3>1. /\ phase' = [phase EXCEPT ![s] = "stopped"]
          /\ closing' = [closing EXCEPT ![s] = {}]
          /\ size' = [size EXCEPT ![s] = 0]
          /\ step' = [step EXCEPT ![s] = 0]
      BY <2>2 DEF CleanupItem
    <3> QED
      BY <3>1, <1>2
  <2> QED
    BY <2>1, <2>2
<1>4. StepsFromOne'
  BY DEF CleanupItem, StepsFromOne, ServerType
<1> QED
  BY <1>1, <1>3, <1>4 DEF ServerType, UniqueNames

LEMMA SessionType ==
  ASSUME TypeInv, NEW s \in Sessions,
         \/ EnterLifespan(s) \/ LeaveLifespan(s) \/ SessionStep(s)
         \/ StreamBreaks(s) \/ StreamResumes(s)
  PROVE  TypeInv'
<1> USE DEF TypeInv
<1>1. CASE EnterLifespan(s)
  <2>1. CallType'
    BY <1>1, CallsKept DEF EnterLifespan
  <2>2. ServerType' /\ StepsFromOne'
    BY <1>1 DEF EnterLifespan, ServerType, StepsFromOne, serverVars
  <2> QED
    BY <2>1, <2>2
<1>2. CASE InitSource(s)
  <2>1. CallType'
    BY <1>2, CallsKept DEF InitSource
  <2>2. step[s] \in DOMAIN Sources
    BY <1>2, SourcesAssumption DEF InitSource, ServerType, StepsFromOne
  <2>3. Opened(s) \in Retriever
    BY <2>2 DEF Opened, Retriever, Names
  <2>4. /\ registry' \in Seq(Retriever) /\ open' \subseteq Retriever
        /\ \A i, j \in DOMAIN registry' : registry'[i].src = registry'[j].src => i = j
    <3>1. CASE open' = open \cup {Opened(s)} /\ registry' = Put(Opened(s))
      BY <3>1, <2>3, PutType DEF ServerType
    <3>2. CASE UNCHANGED <<open, registry>>
      BY <3>2 DEF ServerType
    <3> QED
      BY <3>1, <3>2, <1>2 DEF InitSource
  <2>5. ServerType' /\ StepsFromOne'
    BY <2>4, <1>2 DEF InitSource, ServerType, StepsFromOne
  <2> QED
    BY <2>1, <2>5
<1>3. CASE LeaveLifespan(s)
  <2>1. CallType'
    BY <1>3, CallsKept DEF LeaveLifespan
  <2>2. Len(registry) \in Nat /\ CleanupItem(s, Len(registry), 1)
    BY <1>3 DEF LeaveLifespan, ServerType
  <2>3. /\ open' \subseteq Retriever /\ stuck' \subseteq Retriever
        /\ UNCHANGED <<met, lost>> /\ 1 \in Nat \ {0}
    BY <1>3 DEF LeaveLifespan, ServerType
  <2>4. ServerType' /\ StepsFromOne'
    BY <2>2, <2>3, CleanupItemType
  <2> QED
    BY <2>1, <2>4
<1>4. CASE CleanupStep(s)
  <2>1. CallType'
    BY <1>4, CallsKept DEF CleanupStep
  <2>2. open' \subseteq Retriever /\ stuck' \subseteq Retriever
    BY <1>4 DEF CleanupStep, ServerType
  <2>3. size[s] \in Nat /\ step[s] + 1 \in Nat \ {0}
    BY DEF ServerType
  <2>4. CleanupItem(s, size[s], step[s] + 1) /\ UNCHANGED <<met, lost>>
    BY <1>4 DEF CleanupStep
  <2>5. ServerType' /\ StepsFromOne'
    BY <2>2, <2>3, <2>4, CleanupItemType
  <2> QED
    BY <2>1, <2>5
<1>5. CASE StreamBreaks(s)
  BY <1>5, CallsKept, ServerKept DEF StreamBreaks, serverVars, ServerType
<1>6. CASE StreamResumes(s)
  BY <1>6, CallsKept, ServerKept DEF StreamResumes, serverVars, ServerType
<1> QED
  BY <1>1, <1>2, <1>3, <1>4, <1>5, <1>6 DEF SessionStep

(* The parts of a call that change one at a time.                          *)
LEMMA GotoType ==
  ASSUME CallType, NEW r \in Requests, NEW where \in States, Goto(r, where)
  PROVE  pc' \in [Requests -> States] /\ out' \in [Requests -> Outs]
  BY DEF CallType, Goto

LEMMA FinishType ==
  ASSUME CallType, NEW r \in Requests, NEW how \in Outs, Finish(r, how)
  PROVE  pc' \in [Requests -> States] /\ out' \in [Requests -> Outs]
  BY DEF CallType, Finish, States

LEMMA CancelledType ==
  ASSUME NEW c \in [Retriever -> ChildStates]
  PROVE  Cancelled(c) \in [Retriever -> ChildStates]
  BY DEF Cancelled, ChildStates, Settled

Moved(r) ==
    \/ \E where \in States : Goto(r, where)
    \/ \E how \in Outs : Finish(r, how)

LEMMA MovedType ==
  ASSUME CallType, NEW r \in Requests, Moved(r)
  PROVE  pc' \in [Requests -> States] /\ out' \in [Requests -> Outs]
  BY GotoType, FinishType DEF Moved

(* A step of a call that changes where it is and what was refused.         *)
LEMMA MovedKeeps ==
  ASSUME CallType, NEW r \in Requests, Moved(r), hurt' \subseteq Requests, UNCHANGED callVars
  PROVE  CallType'
<1>1. pc' \in [Requests -> States] /\ out' \in [Requests -> Outs]
  BY MovedType
<1> QED
  BY <1>1 DEF CallType, callVars

LEMMA RequestType ==
  ASSUME TypeInv, NEW r \in Requests,
         \/ \E s \in Sessions, k \in Kinds : Call(r, s, k)
         \/ RequestStep(r) \/ Cancel(r)
  PROVE  TypeInv'
<1>0. ServerType /\ CallType /\ StepsFromOne
  BY DEF TypeInv
<1>s. /\ UNCHANGED <<registry, open, sessionVars, lost>>
      /\ contexts' \subseteq Requests
  BY <1>0 DEF ServerType, Call, RequestStep, NoticeStep, SourceStep, Cancel, NotHeard, Close, Regret, SearchAllCollect,
     SearchAllNoSource, SearchAllFork, SourceStart, SourceFetched, SourceReports, SearchAllJoin,
     SearchAllGroupFailed, SearchOneLookup, SearchOneRoute, SearchOneFetched, HealthBegin,
     HealthProbed, serverVars
<1>t. ServerType' /\ StepsFromOne'
  <2>1. lost' \subseteq Sessions
    BY <1>0, <1>s DEF ServerType
  <2> QED
    BY <1>0, <1>s, <2>1, ServerKept
<1> SUFFICES CallType'
  BY <1>t DEF TypeInv
<1>h. hurt \subseteq Requests /\ hurt \cup {r} \subseteq Requests
  BY <1>0 DEF CallType
<1>1. ASSUME NEW s \in Sessions, NEW k \in Kinds, Call(r, s, k) PROVE CallType'
  <2>1. pc' \in [Requests -> States] /\ out' \in [Requests -> Outs]
    BY <1>0, <1>1, GotoType DEF Call, States
  <2> QED
    BY <1>0, <1>1, <2>1 DEF Call, CallType
<1>2. CASE NotHeard(r) \/ Close(r) \/ Regret(r)
  <2>1. Moved(r)
    BY <1>2 DEF NotHeard, Close, Regret, Unheard, Moved, States, Outs
  <2>2. hurt' \subseteq Requests /\ UNCHANGED callVars
    BY <1>2, <1>h DEF NotHeard, Close, Regret, Unheard
  <2> QED
    BY <1>0, <2>1, <2>2, MovedKeeps
<1>3. CASE SearchAllNoSource(r) \/ SearchAllJoin(r) \/ SearchAllGroupFailed(r)
           \/ SearchOneRoute(r) \/ SearchOneFetched(r)
  <2>1. Moved(r)
    BY <1>3 DEF SearchAllNoSource, SearchAllJoin, SearchAllGroupFailed, SearchOneRoute,
       SearchOneFetched, Moved, States, Outs
  <2>2. hurt' \subseteq Requests /\ UNCHANGED callVars
    BY <1>3, <1>h DEF SearchAllNoSource, SearchAllJoin, SearchAllGroupFailed, SearchOneRoute,
       SearchOneFetched
  <2> QED
    BY <1>0, <2>1, <2>2, MovedKeeps
<1>4. CASE Cancel(r)
  <2>1. pc' \in [Requests -> States] /\ out' \in [Requests -> Outs]
    BY <1>0, <1>4, FinishType DEF Cancel, Outs
  <2>2. child[r] \in [Retriever -> ChildStates]
    BY <1>0 DEF CallType
  <2>3. child' \in [Requests -> [Retriever -> ChildStates]]
    BY <1>0, <1>4, <2>2, CancelledType DEF Cancel, CallType
  <2> QED
    BY <1>0, <1>4, <2>1, <2>3 DEF Cancel, CallType
<1>5. CASE SearchAllCollect(r) \/ SearchOneLookup(r)
  <2>1. Moved(r)
    BY <1>5 DEF SearchAllCollect, SearchOneLookup, Moved, States, Outs
  <2>2. pc' \in [Requests -> States] /\ out' \in [Requests -> Outs]
    BY <1>0, <2>1, MovedType
  <2>3. Entries \cap open \subseteq Retriever /\ Ready(kind[r]) \subseteq Retriever
    BY <1>0 DEF ServerType, Ready
  <2> QED
    BY <1>0, <1>5, <2>2, <2>3 DEF SearchAllCollect, SearchOneLookup, CallType
<1>6. CASE SearchAllFork(r)
  <2>1. pc' \in [Requests -> States] /\ out' \in [Requests -> Outs]
    BY <1>0, <1>6, GotoType DEF SearchAllFork, States
  <2>2. child' \in [Requests -> [Retriever -> ChildStates]]
    <3> DEFINE forked == [o \in Retriever |-> IF o \in targets[r] THEN "told" ELSE child[r][o]]
    <3>1. forked \in [Retriever -> ChildStates]
      BY <1>0 DEF CallType, ChildStates, Running
    <3>2. child' = [child EXCEPT ![r] = forked]
      BY <1>6 DEF SearchAllFork
    <3> HIDE DEF forked
    <3> QED
      BY <1>0, <3>1, <3>2 DEF CallType
  <2> QED
    BY <1>0, <1>6, <2>1, <2>2 DEF SearchAllFork, CallType
<1>7. ASSUME NEW o \in Retriever, SourceStart(r, o) \/ SourceFetched(r, o) \/ SourceReports(r, o)
      PROVE  CallType'
  <2>1. child[r] \in [Retriever -> ChildStates] /\ Cancelled(child[r]) \in [Retriever -> ChildStates]
    BY <1>0, CancelledType DEF CallType
  <2>2. hurt' \subseteq Requests
    BY <1>7, <1>h DEF SourceStart, SourceFetched, SourceReports
  <2>3. UNCHANGED <<pc, kind, ses, targets, at, length, out>>
    BY <1>7 DEF SourceStart, SourceFetched, SourceReports
  <2>4. child' \in [Requests -> [Retriever -> ChildStates]]
    <3>1. CASE \E where \in {"fetching", "reporting", "ok", "error"} : ChildTo(r, o, where)
      BY <1>0, <2>1, <3>1 DEF ChildTo, CallType, ChildStates, Running, Settled
    <3>2. CASE child' = [child EXCEPT ![r] = [Cancelled(@) EXCEPT ![o] = "raised"]]
      <4> DEFINE c == [Cancelled(child[r]) EXCEPT ![o] = "raised"]
      <4>1. c \in [Retriever -> ChildStates]
        BY <2>1 DEF ChildStates, Settled
      <4>2. child' = [child EXCEPT ![r] = c]
        BY <3>2
      <4> HIDE DEF c
      <4> QED
        BY <1>0, <4>1, <4>2 DEF CallType
    <3> QED
      BY <1>7, <3>1, <3>2 DEF SourceStart, SourceFetched, SourceReports
  <2> QED
    BY <1>0, <2>2, <2>3, <2>4 DEF CallType
<1>8. CASE HealthBegin(r) \/ HealthProbed(r)
  <2>1. PICK n \in Nat, i \in Nat : HealthItem(r, n, i)
    BY <1>0, <1>8 DEF HealthBegin, HealthProbed, ServerType, CallType
  <2>2. Moved(r)
    BY <2>1 DEF HealthItem, Moved, States
  <2>3. pc' \in [Requests -> States] /\ out' \in [Requests -> Outs]
    BY <1>0, <2>2, MovedType
  <2>4. at' \in [Requests -> Nat] /\ length' \in [Requests -> Nat]
    <3>1. \E a, b \in Nat : at' = [at EXCEPT ![r] = a] /\ length' = [length EXCEPT ![r] = b]
      BY <2>1 DEF HealthItem
    <3> QED
      BY <1>0, <3>1 DEF CallType
  <2> QED
    BY <1>0, <1>8, <2>3, <2>4 DEF HealthBegin, HealthProbed, CallType
<1> QED
  BY <1>1, <1>2, <1>3, <1>4, <1>5, <1>6, <1>7, <1>8 DEF RequestStep, NoticeStep, SourceStep

LEMMA TypeInit == Init => TypeInv
  BY SourcesAssumption DEF Init, TypeInv, ServerType, CallType, StepsFromOne, Retriever, States,
     Outs, ChildStates

LEMMA TypeStep == TypeInv /\ [Next]_vars => TypeInv'
<1> SUFFICES ASSUME TypeInv, [Next]_vars PROVE TypeInv'
  OBVIOUS
<1>1. CASE Next
  BY <1>1, SessionType, RequestType DEF Next
<1>2. CASE UNCHANGED vars
  BY <1>2 DEF vars, serverVars, sessionVars, callVars, TypeInv, ServerType, CallType, StepsFromOne
<1> QED
  BY <1>1, <1>2

(* The dictionary holds one entry per name, and every variable its type,   *)
(* however many sessions open and close their retrievers at the same time. *)
THEOREM ServerTypeCorrect == Spec => []TypeOK
<1>1. Init => TypeInv
  BY TypeInit
<1>2. TypeInv /\ [Next]_vars => TypeInv'
  BY TypeStep
<1>3. TypeInv => TypeOK
  BY TypeParts
<1> QED
  BY <1>1, <1>2, <1>3, PTL DEF Spec

-----------------------------------------------------------------------------
(* The searches of a call *)

Before == {"new", "greeting", "warning", "announcing"}

(* The inductive invariant of one call r: nothing is started before the    *)
(* group is, nothing runs outside of it, only its own sources are          *)
(* searched, a search that failed had a notification refused and one       *)
(* cancelled while the group still waits was cancelled by one that failed. *)
CallInv(r) ==
    /\ pc[r] \in Before => \A o \in Retriever : child[r][o] = "none"
    /\ pc[r] # "gathering" => \A o \in Retriever : child[r][o] \notin Running
    /\ \A o \in Retriever : child[r][o] # "none" => o \in targets[r]
    /\ pc[r] = "gathering" =>
         /\ \A o \in targets[r] : child[r][o] # "none"
         /\ \A o \in targets[r] : child[r][o] = "cancelled" =>
              \E x \in targets[r] : child[r][x] = "raised"
    /\ \A o \in targets[r] : child[r][o] = "raised" => r \in hurt
    /\ pc[r] \in {"new", "greeting", "warning"} => targets[r] = {}
    /\ pc[r] \in {"announcing", "gathering"} => kind[r] = "all"
    /\ pc[r] = "blaming" => r \in hurt
    /\ pc[r] \in {"routing", "searching"} => kind[r] # "all"
    /\ pc[r] = "probing" => kind[r] # "all"
    /\ kind[r] = "all" /\ (pc[r] = "closing" \/ out[r] = "answered") =>
         \A o \in targets[r] : child[r][o] \in {"ok", "error"}
    /\ kind[r] = "all" /\ out[r] \in {"taskgroup", "raised"} => r \in hurt
    /\ pc[r] # "ended" => out[r] = "none"

AllCallsInv == \A r \in Requests : CallInv(r)

LEMMA CallInvImplies == TypeInv /\ AllCallsInv => FailureIsContained /\ NoSearchOutlivesItsCall
  BY DEF TypeInv, CallType, AllCallsInv, CallInv, FailureIsContained, NoSearchOutlivesItsCall

(* What a step does to another call: nothing, but that it may be refused.  *)
Untouched(q) ==
    /\ UNCHANGED <<pc[q], kind[q], targets[q], child[q], out[q]>>
    /\ q \in hurt <=> q \in hurt'

LEMMA UntouchedKeeps ==
  ASSUME NEW q \in Requests, CallInv(q), Untouched(q)
  PROVE  CallInv(q)'
  BY DEF CallInv, Untouched, Before, Running

LEMMA OthersUntouched ==
  ASSUME CallType, NEW r \in Requests, NEW q \in Requests, q # r,
         \/ \E s \in Sessions, k \in Kinds : Call(r, s, k)
         \/ RequestStep(r) \/ Cancel(r)
  PROVE  Untouched(q)
<1> USE DEF CallType, Untouched
<1>1. CASE \/ \E s \in Sessions, k \in Kinds : Call(r, s, k)
           \/ NotHeard(r) \/ Close(r) \/ Regret(r) \/ Cancel(r)
  BY <1>1 DEF Call, NotHeard, Close, Regret, Cancel, Unheard, Goto, Finish, callVars
<1>2. CASE \/ SearchAllCollect(r) \/ SearchAllNoSource(r) \/ SearchAllFork(r)
           \/ SearchAllJoin(r) \/ SearchAllGroupFailed(r)
  BY <1>2 DEF SearchAllCollect, SearchAllNoSource, SearchAllFork, SearchAllJoin,
     SearchAllGroupFailed, Goto, Finish, callVars
<1>3. CASE \E o \in Retriever : SourceStart(r, o) \/ SourceFetched(r, o) \/ SourceReports(r, o)
  BY <1>3 DEF SourceStart, SourceFetched, SourceReports, ChildTo
<1>4. CASE SearchOneLookup(r) \/ SearchOneRoute(r) \/ SearchOneFetched(r)
  BY <1>4 DEF SearchOneLookup, SearchOneRoute, SearchOneFetched, Goto, Finish, callVars
<1>5. CASE HealthBegin(r) \/ HealthProbed(r)
  BY <1>5 DEF HealthBegin, HealthProbed, HealthItem, Goto
<1> QED
  BY <1>1, <1>2, <1>3, <1>4, <1>5 DEF RequestStep, NoticeStep, SourceStep

LEMMA CallStep ==
  ASSUME TypeInv, NEW r \in Requests, CallInv(r),
         \/ \E s \in Sessions, k \in Kinds : Call(r, s, k)
         \/ RequestStep(r) \/ Cancel(r)
  PROVE  CallInv(r)'
<1>0. CallType
  BY DEF TypeInv
<1> USE DEF CallInv, Before
<1>k. "all" \notin Names
  BY SourcesAssumption
<1>1. ASSUME NEW s \in Sessions, NEW k \in Kinds, Call(r, s, k) PROVE CallInv(r)'
  BY <1>0, <1>1 DEF Call, Goto, CallType, Running
<1>2. CASE NotHeard(r)
  BY <1>0, <1>2 DEF NotHeard, Unheard, Finish, CallType, callVars
<1>3. CASE Close(r)
  BY <1>0, <1>3 DEF Close, Unheard, Goto, Finish, CallType, callVars
<1>4. CASE Regret(r)
  BY <1>0, <1>4 DEF Regret, Finish, CallType, callVars
<1>5. CASE Cancel(r)
  <2>1. /\ pc'[r] = "ended" /\ out'[r] = "cancelled" /\ kind'[r] = kind[r]
        /\ targets'[r] = targets[r] /\ hurt' = hurt
        /\ child'[r] = [o \in Retriever |-> IF child[r][o] \in Running THEN "cancelled" ELSE child[r][o]]
    BY <1>0, <1>5 DEF Cancel, Finish, Cancelled, CallType
  <2>2. \A o \in Retriever : /\ child[r][o] \in Running => child'[r][o] = "cancelled"
                             /\ child[r][o] \notin Running => child'[r][o] = child[r][o]
    BY <2>1
  <2>3. \A o \in Retriever : child'[r][o] \notin Running
    BY <2>2 DEF Running
  <2>4. targets[r] \subseteq Retriever
    BY <1>0 DEF CallType
  <2> QED
    BY <2>1, <2>2, <2>3, <2>4 DEF Running
<1>6. CASE SearchAllCollect(r)
  <2>1. /\ pc[r] = "greeting" /\ kind[r] = "all" /\ kind'[r] = kind[r]
        /\ out'[r] = out[r] /\ hurt' = hurt
        /\ child' = child /\ pc'[r] \in {"warning", "announcing"}
        /\ pc'[r] = "warning" => targets'[r] = {}
    BY <1>0, <1>6 DEF SearchAllCollect, Goto, CallType
  <2>2. targets'[r] \subseteq Retriever
    BY <1>0, RequestType, <1>6 DEF TypeInv, CallType, RequestStep, NoticeStep, SourceStep
  <2> QED
    BY <2>1, <2>2 DEF Running
<1>7. CASE SearchAllNoSource(r)
  BY <1>0, <1>7 DEF SearchAllNoSource, Finish, CallType, callVars
<1>8. CASE SearchAllFork(r)
  <2>1. /\ pc'[r] = "gathering" /\ out'[r] = out[r] /\ kind'[r] = kind[r]
        /\ targets'[r] = targets[r] /\ hurt' = hurt /\ pc[r] = "announcing"
        /\ child'[r] = [o \in Retriever |-> IF o \in targets[r] THEN "told" ELSE child[r][o]]
    BY <1>0, <1>8 DEF SearchAllFork, Goto, CallType
  <2>2. targets[r] \subseteq Retriever
    BY <1>0 DEF CallType
  <2>3. \A o \in Retriever : child'[r][o] = IF o \in targets[r] THEN "told" ELSE "none"
    BY <2>1
  <2> QED
    BY <2>1, <2>2, <2>3
<1>9. ASSUME NEW o \in Retriever, SourceStart(r, o) \/ SourceFetched(r, o)
      PROVE  CallInv(r)'
  <2>1. /\ child[r][o] \in Running
        /\ UNCHANGED <<pc[r], out[r], kind[r], targets[r]>>
        /\ hurt \subseteq hurt'
    BY <1>9 DEF SourceStart, SourceFetched, Running
  <2>2. PICK where \in {"fetching", "reporting", "ok"} : child'[r] = [child[r] EXCEPT ![o] = where]
    BY <1>0, <1>9 DEF SourceStart, SourceFetched, ChildTo, CallType
  <2>3. pc[r] = "gathering" /\ o \in targets[r]
    BY <2>1 DEF Running
  <2>4. \A x \in Retriever : child'[r][x] = IF x = o THEN where ELSE child[r][x]
    BY <1>0, <2>2 DEF CallType
  <2>5. targets[r] \subseteq Retriever
    BY <1>0 DEF CallType
  <2> QED
    BY <2>1, <2>2, <2>3, <2>4, <2>5 DEF Running
<1>10. ASSUME NEW o \in Retriever, SourceReports(r, o)
       PROVE  CallInv(r)'
  <2>1. /\ child[r][o] \in Running
        /\ UNCHANGED <<pc[r], out[r], kind[r], targets[r]>>
        /\ hurt \subseteq hurt'
    BY <1>10 DEF SourceReports, Running
  <2>2. pc[r] = "gathering" /\ o \in targets[r] /\ targets[r] \subseteq Retriever
    BY <1>0, <2>1 DEF Running, CallType
  <2>3. CASE child'[r] = [child[r] EXCEPT ![o] = "error"]
    <3>1. \A x \in Retriever : child'[r][x] = IF x = o THEN "error" ELSE child[r][x]
      BY <1>0, <2>3 DEF CallType
    <3> QED
      BY <2>1, <2>2, <3>1 DEF Running
  <2>4. CASE r \in hurt' /\ child'[r] = [Cancelled(child[r]) EXCEPT ![o] = "raised"]
    <3>1. \A x \in Retriever : child'[r][x] = IF x = o THEN "raised"
                                              ELSE IF child[r][x] \in Running THEN "cancelled"
                                              ELSE child[r][x]
      BY <2>4 DEF Cancelled
    <3> QED
      BY <2>1, <2>2, <2>4, <3>1 DEF Running
  <2> QED
    BY <1>0, <1>10, <2>3, <2>4 DEF SourceReports, ChildTo, CallType
<1>11. CASE SearchAllJoin(r)
  <2>1. \A o \in targets[r] : child[r][o] \in Settled
    BY <1>11 DEF SearchAllJoin
  <2>2. \A o \in Retriever : child[r][o] \notin Running
    BY <2>1, <1>11 DEF SearchAllJoin, Settled, Running
  <2> QED
    BY <1>0, <1>11, <2>1, <2>2 DEF SearchAllJoin, Goto, CallType, callVars, Settled
<1>12. CASE SearchAllGroupFailed(r)
  BY <1>0, <1>12 DEF SearchAllGroupFailed, Finish, CallType, callVars
<1>13. CASE SearchOneLookup(r)
  <2>1. /\ pc[r] = "greeting" /\ kind'[r] = kind[r] /\ kind[r] # "all" /\ hurt' = hurt
        /\ child' = child
        /\ \/ pc'[r] \in {"routing", "searching"} /\ out'[r] = out[r]
           \/ pc'[r] = "ended" /\ out'[r] = "toolerror"
    BY <1>0, <1>13, <1>k DEF SearchOneLookup, Goto, Finish, CallType
  <2>2. targets'[r] \subseteq Retriever
    BY <1>0, RequestType, <1>13 DEF TypeInv, CallType, RequestStep, NoticeStep, SourceStep
  <2> QED
    BY <2>1, <2>2 DEF Running
<1>14. CASE SearchOneRoute(r) \/ SearchOneFetched(r)
  BY <1>0, <1>14 DEF SearchOneRoute, SearchOneFetched, Goto, Finish, CallType, callVars
<1>15. CASE HealthBegin(r) \/ HealthProbed(r)
  BY <1>0, <1>15 DEF HealthBegin, HealthProbed, HealthItem, Goto, CallType
<1> QED
  BY <1>1, <1>2, <1>3, <1>4, <1>5, <1>6, <1>7, <1>8, <1>9, <1>10, <1>11, <1>12, <1>13, <1>14,
     <1>15 DEF RequestStep, NoticeStep, SourceStep

LEMMA AllCallsInit == Init => AllCallsInv
  BY DEF Init, AllCallsInv, CallInv, Before, Running

LEMMA AllCallsStep == TypeInv /\ AllCallsInv /\ [Next]_vars => AllCallsInv'
<1> SUFFICES ASSUME TypeInv, AllCallsInv, [Next]_vars, NEW q \in Requests PROVE CallInv(q)'
  BY DEF AllCallsInv
<1>0. CallInv(q) /\ CallType
  BY DEF AllCallsInv, TypeInv
<1>1. CASE UNCHANGED <<pc, callVars, out, hurt>>
  <2>1. Untouched(q)
    BY <1>1 DEF Untouched, callVars
  <2> QED
    BY <1>0, <2>1, UntouchedKeeps
<1>2. ASSUME NEW r \in Requests,
             \/ \E s \in Sessions, k \in Kinds : Call(r, s, k)
             \/ RequestStep(r) \/ Cancel(r)
      PROVE  CallInv(q)'
  <2>1. CASE q = r
    BY <1>0, <1>2, <2>1, CallStep
  <2>2. CASE q # r
    BY <1>0, <1>2, <2>2, OthersUntouched, UntouchedKeeps
  <2> QED
    BY <2>1, <2>2
<1>3. ASSUME NEW s \in Sessions,
             \/ EnterLifespan(s) \/ LeaveLifespan(s) \/ SessionStep(s)
             \/ StreamBreaks(s) \/ StreamResumes(s)
      PROVE  CallInv(q)'
  BY <1>1, <1>3 DEF EnterLifespan, LeaveLifespan, SessionStep, InitSource, CleanupStep,
     StreamBreaks, StreamResumes
<1> QED
  BY <1>1, <1>2, <1>3 DEF Next, vars

LEMMA CallsInvariant == Spec => [](TypeInv /\ AllCallsInv)
<1>1. Init => TypeInv /\ AllCallsInv
  BY TypeInit, AllCallsInit
<1>2. TypeInv /\ AllCallsInv /\ [Next]_vars => (TypeInv /\ AllCallsInv)'
  BY TypeStep, AllCallsStep
<1> QED
  BY <1>1, <1>2, PTL DEF Spec

(* Whatever the sources, the client's stream and the other sessions do,    *)
(* an answer of search_all covers every source it started, and the call    *)
(* fails as a whole only if a notification was refused.                    *)
THEOREM ContainmentHolds == Spec => []FailureIsContained
  BY CallsInvariant, CallInvImplies, PTL

(* However a call ends, by its answer, an error or its cancellation, none  *)
(* of its searches is still running.                                       *)
THEOREM NoSearchOutlives == Spec => []NoSearchOutlivesItsCall
  BY CallsInvariant, CallInvImplies, PTL
-----------------------------------------------------------------------------
(* A session that meets no other *)

(* Two sessions that are alive have met.                                   *)
AliveMeet == \A x, y \in Sessions : x # y /\ Alive(x) /\ Alive(y) => y \in met[x]

(* Only a session that has begun has anything open.                        *)
OpenedLater == \A o \in open : phase[o.by] # "new"

(* What a session has open is in the dictionary until its cleanup reaches  *)
(* it, if nobody else has touched the dictionary.                          *)
LoneInv(s) ==
    /\ phase[s] \in {"starting", "serving"} => \A o \in open : o.by = s => o \in Entries
    /\ phase[s] = "stopping" =>
         /\ size[s] = Len(registry) /\ step[s] \in 1..Len(registry)
         /\ closing[s] = {registry[step[s]]}
         /\ \A o \in open : o.by = s => \/ o \in stuck
                                        \/ \E i \in step[s]..Len(registry) : registry[i] = o
    /\ phase[s] = "stopped" => \A o \in open : o.by = s => o \in stuck

SessionsInv == AliveMeet /\ OpenedLater /\ \A s \in Sessions : met[s] = {} => LoneInv(s)

(* What Put leaves in the dictionary: the new retriever, and every other   *)
(* but one of the same name.                                               *)
LEMMA PutEntries ==
  ASSUME ServerType, NEW o \in Retriever
  PROVE  LET entries == {Put(o)[i] : i \in DOMAIN Put(o)}
         IN  o \in entries /\ \A e \in Entries : e.src # o.src => e \in entries
<1>1. DOMAIN registry = 1..Len(registry) /\ Len(registry) \in Nat /\ registry \in Seq(Retriever)
  BY DEF ServerType
<1>2. CASE \E i \in DOMAIN registry : registry[i].src = o.src
  <2>1. Put(o) = [i \in DOMAIN registry |-> IF registry[i].src = o.src THEN o ELSE registry[i]]
    BY <1>2 DEF Put
  <2>2. /\ DOMAIN Put(o) = DOMAIN registry
        /\ \A i \in DOMAIN registry : Put(o)[i] = IF registry[i].src = o.src THEN o ELSE registry[i]
    BY <2>1
  <2>3. \E i \in DOMAIN Put(o) : Put(o)[i] = o
    BY <1>2, <2>2
  <2>4. \A e \in Entries : e.src # o.src => \E i \in DOMAIN Put(o) : Put(o)[i] = e
    BY <2>2 DEF Entries
  <2> QED
    BY <2>3, <2>4
<1>3. CASE ~\E i \in DOMAIN registry : registry[i].src = o.src
  <2>1. Put(o) = Append(registry, o)
    BY <1>3 DEF Put
  <2>2. /\ DOMAIN Put(o) = 1..(Len(registry) + 1) /\ Put(o)[Len(registry) + 1] = o
        /\ \A i \in DOMAIN registry : Put(o)[i] = registry[i] /\ i \in DOMAIN Put(o)
    BY <1>1, <2>1
  <2>3. \E i \in DOMAIN Put(o) : Put(o)[i] = o
    BY <1>1, <2>2
  <2>4. \A e \in Entries : \E i \in DOMAIN Put(o) : Put(o)[i] = e
    BY <2>2 DEF Entries
  <2> QED
    BY <2>3, <2>4
<1> QED
  BY <1>2, <1>3

LEMMA SessionsInit == Init => SessionsInv
  BY DEF Init, SessionsInv, AliveMeet, OpenedLater, LoneInv, Alive

(* What a step that touches neither the sessions nor the dictionary keeps. *)
LEMMA SessionsKept ==
  ASSUME SessionsInv, UNCHANGED <<registry, open, sessionVars>>
  PROVE  SessionsInv'
  BY DEF SessionsInv, AliveMeet, OpenedLater, LoneInv, Alive, Entries, sessionVars

LEMMA EnterKeeps ==
  ASSUME ServerType, SessionsInv, NEW s \in Sessions, EnterLifespan(s)
  PROVE  SessionsInv'
<1> USE DEF SessionsInv, Alive
<1>1. /\ phase[s] = "new" /\ phase'[s] = "starting"
      /\ \A x \in Sessions : x # s => phase'[x] = phase[x]
      /\ \A x \in Sessions : met'[x] = IF x = s THEN {y \in Sessions : Alive(y)}
                                       ELSE IF Alive(x) THEN met[x] \cup {s} ELSE met[x]
      /\ \A x \in Sessions : x # s => step'[x] = step[x]
      /\ UNCHANGED <<registry, open, closing, size, stuck>>
  BY DEF EnterLifespan, ServerType, serverVars
<1>2. AliveMeet'
  BY <1>1 DEF AliveMeet
<1>3. OpenedLater'
  BY <1>1 DEF OpenedLater, ServerType, Retriever
<1>4. \A o \in open : o.by # s
  BY <1>1 DEF OpenedLater
<1>5. ASSUME NEW x \in Sessions, met'[x] = {}
      PROVE  LoneInv(x)'
  <2>1. CASE x = s
    BY <1>1, <1>4, <2>1 DEF LoneInv
  <2>2. CASE x # s
    <3>1. met[x] = {}
      BY <1>1, <1>5, <2>2
    <3> QED
      BY <1>1, <2>2, <3>1 DEF LoneInv, Entries
  <2> QED
    BY <2>1, <2>2
<1> QED
  BY <1>2, <1>3, <1>5

(* While a session opens or closes its sources, every other that has met   *)
(* nobody is over or has not begun.                                        *)
LEMMA AloneIsOver ==
  ASSUME ServerType, AliveMeet, NEW s \in Sessions, Alive(s), NEW x \in Sessions, x # s, met[x] = {}
  PROVE  phase[x] \in {"new", "stopped"}
  BY DEF AliveMeet, Alive, ServerType

LEMMA InitKeeps ==
  ASSUME TypeInv, SessionsInv, NEW s \in Sessions, InitSource(s)
  PROVE  SessionsInv'
<1> USE DEF SessionsInv, Alive
<1>0. ServerType
  BY DEF TypeInv
<1>1. /\ phase[s] = "starting" /\ phase'[s] \in {"starting", "serving"}
      /\ \A x \in Sessions : x # s => phase'[x] = phase[x]
      /\ UNCHANGED <<closing, size, met, stuck>>
  BY <1>0 DEF InitSource, ServerType
<1>2. Opened(s) \in Retriever /\ Opened(s).by = s
  <2>1. step[s] \in DOMAIN Sources
    BY SourcesAssumption DEF InitSource, TypeInv, ServerType, StepsFromOne
  <2> QED
    BY <2>1 DEF Opened, Retriever, Names
<1>3. \A o \in open' : o \in open \/ o = Opened(s)
  BY DEF InitSource
<1>4. AliveMeet'
  BY <1>1 DEF AliveMeet
<1>5. OpenedLater'
  BY <1>0, <1>1, <1>2, <1>3 DEF OpenedLater, ServerType, Retriever
<1>6. ASSUME NEW x \in Sessions, met[x] = {}
      PROVE  LoneInv(x)'
  <2>1. CASE x # s
    <3>1. phase[x] \in {"new", "stopped"}
      BY <1>0, <1>1, <1>6, <2>1, AloneIsOver
    <3> QED
      BY <1>1, <1>2, <1>3, <1>6, <2>1, <3>1 DEF LoneInv
  <2>2. CASE x = s
    <3>1. \A o \in open : o.by = s => o \in Entries
      BY <1>1, <1>6, <2>2 DEF LoneInv
    <3>2. ASSUME NEW o \in open', o.by = s
          PROVE  o \in Entries'
      <4>1. CASE UNCHANGED <<open, registry>>
        BY <3>1, <3>2, <4>1 DEF Entries
      <4>2. CASE registry' = Put(Opened(s))
        <5>1. o \in Retriever
          BY <1>0, <1>2, <1>3 DEF ServerType
        <5>2. o = Opened(s) \/ (o \in Entries /\ o.src # Opened(s).src)
          BY <1>2, <1>3, <3>1, <3>2, <5>1 DEF Retriever
        <5>3. Entries' = {Put(Opened(s))[i] : i \in DOMAIN Put(Opened(s))}
          BY <4>2 DEF Entries
        <5> QED
          BY <1>0, <1>2, <5>2, <5>3, PutEntries
      <4> QED
        BY <4>1, <4>2 DEF InitSource
    <3> QED
      BY <1>1, <2>2, <3>2 DEF LoneInv
  <2> QED
    BY <2>1, <2>2
<1> QED
  BY <1>1, <1>4, <1>5, <1>6

(* A step of cleanup, of item i of n: what was closed so far, closed, is   *)
(* open no longer or did not let itself be closed.                         *)
LEMMA ItemKeeps ==
  ASSUME TypeInv, SessionsInv, NEW s \in Sessions, phase[s] \in {"serving", "stopping"},
         NEW n \in Nat, NEW i \in Nat \ {0}, CleanupItem(s, n, i),
         open' \subseteq open, stuck \subseteq stuck', met' = met,
         met[s] = {} => /\ n = Len(registry)
                        /\ \A o \in open' : o.by = s => \/ o \in stuck'
                                                        \/ \E k \in i..n : registry[k] = o
  PROVE  SessionsInv'
<1> USE DEF SessionsInv, Alive
<1>0. ServerType /\ Len(registry) \in Nat
  BY DEF TypeInv, ServerType
<1>1. /\ phase'[s] \in {"stopping", "stopped"}
      /\ \A x \in Sessions : x # s => phase'[x] = phase[x]
  BY <1>0 DEF CleanupItem, ServerType
<1>2. AliveMeet'
  BY <1>1 DEF AliveMeet
<1>3. OpenedLater'
  BY <1>0, <1>1 DEF OpenedLater, ServerType, Retriever
<1>4. ASSUME NEW x \in Sessions, met[x] = {}
      PROVE  LoneInv(x)'
  <2>1. CASE x # s
    <3>1. phase[x] \in {"new", "stopped"}
      BY <1>0, <1>4, <2>1, AloneIsOver
    <3> QED
      BY <1>1, <1>4, <2>1, <3>1 DEF LoneInv
  <2>2. CASE x = s /\ i <= n
    <3>1. /\ phase' = [phase EXCEPT ![s] = "stopping"] /\ closing' = [closing EXCEPT ![s] = {registry[i]}]
          /\ size' = [size EXCEPT ![s] = n] /\ step' = [step EXCEPT ![s] = i] /\ registry' = registry
      BY <1>4, <2>2 DEF CleanupItem
    <3>2. /\ phase'[s] = "stopping" /\ closing'[s] = {registry[i]} /\ size'[s] = n /\ step'[s] = i
      BY <1>0, <3>1 DEF ServerType
    <3>3. /\ n = Len(registry) /\ i \in 1..n
          /\ \A o \in open' : o.by = s => o \in stuck' \/ \E k \in i..n : registry[k] = o
      BY <1>4, <2>2
    <3> QED
      BY <2>2, <3>1, <3>2, <3>3 DEF LoneInv
  <2>3. CASE x = s /\ ~ (i <= n)
    <3>1. phase'[s] = "stopped"
      BY <1>0, <2>3 DEF CleanupItem, ServerType
    <3>2. i..n = {}
      BY <2>3
    <3>3. \A o \in open' : o.by = s => o \in stuck'
      BY <1>4, <2>3, <3>2
    <3> QED
      BY <2>3, <3>1, <3>3 DEF LoneInv
  <2> QED
    BY <2>1, <2>2, <2>3
<1> QED
  BY <1>2, <1>3, <1>4

LEMMA SessionsStep == TypeInv /\ SessionsInv /\ [Next]_vars => SessionsInv'
<1> SUFFICES ASSUME TypeInv, SessionsInv, [Next]_vars PROVE SessionsInv'
  OBVIOUS
<1>0. ServerType /\ Len(registry) \in Nat
  BY DEF TypeInv, ServerType
<1>1. CASE UNCHANGED <<registry, open, sessionVars>>
  BY <1>1, SessionsKept
<1>2. ASSUME NEW s \in Sessions, LeaveLifespan(s)
      PROVE  SessionsInv'
  <2>1. /\ phase[s] = "serving" /\ CleanupItem(s, Len(registry), 1) /\ UNCHANGED <<open, met, stuck>>
    BY <1>2 DEF LeaveLifespan
  <2>2. ASSUME met[s] = {}, NEW o \in open, o.by = s
        PROVE  \E k \in 1..Len(registry) : registry[k] = o
    <3>1. o \in Entries
      BY <2>1, <2>2 DEF SessionsInv, LoneInv
    <3> QED
      BY <1>0, <3>1 DEF Entries, ServerType
  <2> QED
    BY <1>0, <2>1, <2>2, ItemKeeps
<1>3. ASSUME NEW s \in Sessions, CleanupStep(s)
      PROVE  SessionsInv'
  <2>1. /\ phase[s] = "stopping" /\ CleanupItem(s, size[s], step[s] + 1) /\ met' = met
        /\ \/ open' = open \ closing[s] /\ stuck' = stuck
           \/ stuck' = stuck \cup closing[s] /\ open' = open
    BY <1>3 DEF CleanupStep
  <2>2. size[s] \in Nat /\ step[s] + 1 \in Nat \ {0} /\ step[s] \in Nat
    BY <1>0 DEF ServerType
  <2>3. ASSUME met[s] = {}
        PROVE  /\ size[s] = Len(registry)
               /\ \A o \in open' : o.by = s => \/ o \in stuck'
                                               \/ \E k \in step[s] + 1..size[s] : registry[k] = o
    <3>1. /\ size[s] = Len(registry) /\ closing[s] = {registry[step[s]]}
          /\ \A o \in open : o.by = s => o \in stuck \/ \E k \in step[s]..Len(registry) : registry[k] = o
      BY <2>1, <2>3 DEF SessionsInv, LoneInv
    <3>2. ASSUME NEW o \in open', o.by = s, o \notin stuck'
          PROVE  \E k \in step[s] + 1..size[s] : registry[k] = o
      <4>1. o \in open /\ o \notin stuck /\ o \notin closing[s]
        BY <2>1, <3>2
      <4>2. PICK k \in step[s]..Len(registry) : registry[k] = o
        BY <3>1, <3>2, <4>1
      <4>3. k # step[s]
        BY <3>1, <4>1, <4>2
      <4>4. k \in step[s] + 1..size[s]
        BY <1>0, <2>2, <3>1, <4>2, <4>3
      <4> QED
        BY <4>2, <4>4
    <3> QED
      BY <3>1, <3>2
  <2>4. open' \subseteq open /\ stuck \subseteq stuck'
    BY <2>1
  <2> QED
    BY <2>1, <2>2, <2>3, <2>4, ItemKeeps
<1>4. ASSUME NEW r \in Requests,
             \/ \E s \in Sessions, k \in Kinds : Call(r, s, k)
             \/ RequestStep(r) \/ Cancel(r)
      PROVE  SessionsInv'
  BY <1>1, <1>4 DEF Call, RequestStep, NoticeStep, SourceStep, Cancel, NotHeard, Close, Regret, SearchAllCollect,
     SearchAllNoSource, SearchAllFork, SourceStart, SourceFetched, SourceReports, SearchAllJoin,
     SearchAllGroupFailed, SearchOneLookup, SearchOneRoute, SearchOneFetched, HealthBegin,
     HealthProbed, serverVars
<1>5. ASSUME NEW s \in Sessions, StreamBreaks(s) \/ StreamResumes(s)
      PROVE  SessionsInv'
  BY <1>1, <1>5 DEF StreamBreaks, StreamResumes, serverVars
<1> QED
  BY <1>0, <1>1, <1>2, <1>3, <1>4, <1>5, EnterKeeps, InitKeeps DEF Next, SessionStep, vars, serverVars

LEMMA SessionsInvariant == Spec => [](TypeInv /\ SessionsInv)
<1>1. TypeInv /\ SessionsInv /\ [Next]_vars => (TypeInv /\ SessionsInv)'
  BY TypeStep, SessionsStep
<1> QED
  BY <1>1, TypeInit, SessionsInit, PTL DEF Spec

(* A session that no other overlapped leaves no retriever connected but    *)
(* those whose disconnect raised, whatever sessions before it left behind  *)
(* in the dictionary.                                                      *)
THEOREM AloneClosesItsOwn == Spec => []AloneLeavesNothingOpen
<1>1. SessionsInv => AloneLeavesNothingOpen
  BY DEF SessionsInv, LoneInv, AloneLeavesNothingOpen
<1> QED
  BY <1>1, SessionsInvariant, PTL

-----------------------------------------------------------------------------
(* Health checks *)

(* A call is served by a session that has begun, and that waits for it.    *)
CallsServed ==
    \A r \in Requests :
        /\ pc[r] # "new" => ses[r] \in Sessions /\ phase[ses[r]] # "new"
        /\ Active(r) => phase[ses[r]] = "serving"

(* A health check goes to its regrets for a refused notification, or       *)
(* because somebody else has changed the dictionary under it.              *)
HealthInv(r) ==
    kind[r] = "health" =>
        /\ pc[r] \in {"greeting", "probing", "closing", "regretting", "ended"}
        /\ pc[r] = "probing" => met[ses[r]] # {} \/ length[r] = Len(registry)
        /\ pc[r] = "regretting" => r \in hurt \/ met[ses[r]] # {}
        /\ out[r] \in {"toolerror", "raised"} => r \in hurt \/ met[ses[r]] # {}

HealthsInv == CallsServed /\ \A r \in Requests : HealthInv(r)

LEMMA HealthsInit == Init => HealthsInv
  BY DEF Init, HealthsInv, CallsServed, HealthInv, Active

(* What the step of a session does to the calls: a session that has met    *)
(* another has met it for good, and one that serves a call is left alone   *)
(* by all that it has not met.                                             *)
LEMMA SessionKeepsHealths ==
  ASSUME TypeInv, SessionsInv, HealthsInv, NEW s \in Sessions,
         \/ EnterLifespan(s) \/ LeaveLifespan(s) \/ SessionStep(s)
         \/ StreamBreaks(s) \/ StreamResumes(s)
  PROVE  HealthsInv'
<1>0. ServerType /\ CallType /\ AliveMeet
  BY DEF TypeInv, SessionsInv
<1>1. UNCHANGED <<pc, callVars, out, hurt>>
  BY DEF EnterLifespan, LeaveLifespan, SessionStep, InitSource, CleanupStep, StreamBreaks, StreamResumes
<1>2. \A x \in Sessions : phase[x] # "new" => phase'[x] # "new" /\ (met[x] # {} => met'[x] # {})
  <2>1. CASE EnterLifespan(s)
    BY <1>0, <2>1 DEF EnterLifespan, ServerType
  <2>2. CASE ~ EnterLifespan(s)
    BY <1>0, <2>2 DEF LeaveLifespan, SessionStep, InitSource, CleanupStep, CleanupItem, StreamBreaks,
       StreamResumes, ServerType, sessionVars
  <2> QED
    BY <2>1, <2>2
<1>3. ASSUME NEW r \in Requests, Active(r)
      PROVE  /\ phase'[ses[r]] = "serving"
             /\ met[ses[r]] = {} => registry' = registry
  <2> DEFINE x == ses[r]
  <2>1. x \in Sessions /\ phase[x] = "serving"
    BY <1>3 DEF HealthsInv, CallsServed, Active
  <2>2. CASE EnterLifespan(s)
    BY <1>0, <2>1, <2>2 DEF EnterLifespan, ServerType, serverVars
  <2>3. CASE LeaveLifespan(s)
    <3>1. x # s
      BY <1>3, <2>3 DEF LeaveLifespan
    <3>2. met[x] # {}
      BY <1>0, <2>1, <2>3, <3>1 DEF LeaveLifespan, AliveMeet, Alive
    <3> QED
      BY <1>0, <2>1, <2>3, <3>1, <3>2 DEF LeaveLifespan, CleanupItem, ServerType
  <2>4. CASE SessionStep(s)
    <3>1. x # s /\ Alive(s)
      BY <2>1, <2>4 DEF SessionStep, InitSource, CleanupStep, Alive
    <3>2. met[x] # {}
      BY <1>0, <2>1, <3>1 DEF AliveMeet, Alive
    <3> QED
      BY <1>0, <2>1, <2>4, <3>1, <3>2 DEF SessionStep, InitSource, CleanupStep, CleanupItem, ServerType
  <2>5. CASE StreamBreaks(s) \/ StreamResumes(s)
    BY <2>1, <2>5 DEF StreamBreaks, StreamResumes, serverVars, sessionVars
  <2> QED
    BY <2>2, <2>3, <2>4, <2>5
<1>4. CallsServed'
  BY <1>0, <1>1, <1>2, <1>3 DEF HealthsInv, CallsServed, Active, callVars
<1>5. ASSUME NEW r \in Requests, kind[r] = "health"
      PROVE  HealthInv(r)'
  <2>1. HealthInv(r) /\ pc[r] # "new" /\ ses[r] \in Sessions /\ phase[ses[r]] # "new"
    BY <1>5 DEF HealthsInv, CallsServed, HealthInv
  <2>2. met[ses[r]] # {} => met'[ses[r]] # {}
    BY <1>2, <2>1
  <2>3. pc[r] = "probing" => met'[ses[r]] # {} \/ length[r] = Len(registry')
    BY <1>3, <1>5, <2>1, <2>2 DEF Active, HealthInv
  <2>4. UNCHANGED <<pc, kind, ses, length, out, hurt>>
    BY <1>1 DEF callVars
  <2> QED
    BY <1>5, <2>1, <2>2, <2>3, <2>4 DEF HealthInv
<1> QED
  BY <1>1, <1>4, <1>5 DEF HealthsInv, HealthInv, callVars

(* A step of a call is a step of no health check but its own.              *)
LEMMA CallKeepsHealths ==
  ASSUME TypeInv, AllCallsInv, HealthsInv, NEW r \in Requests,
         \/ \E s \in Sessions, k \in Kinds : Call(r, s, k)
         \/ RequestStep(r) \/ Cancel(r)
  PROVE  HealthsInv'
<1>0. CallType /\ ServerType /\ CallInv(r)
  BY DEF TypeInv, AllCallsInv
<1>k. "health" \notin Names
  BY SourcesAssumption
<1>1. UNCHANGED <<registry, phase, met>>
  BY DEF Call, RequestStep, NoticeStep, SourceStep, Cancel, NotHeard, Close, Regret, SearchAllCollect,
     SearchAllNoSource, SearchAllFork, SourceStart, SourceFetched, SourceReports, SearchAllJoin,
     SearchAllGroupFailed, SearchOneLookup, SearchOneRoute, SearchOneFetched, HealthBegin,
     HealthProbed, serverVars, sessionVars
<1>2. ASSUME NEW q \in Requests, q # r
      PROVE  /\ UNCHANGED <<pc[q], kind[q], ses[q], length[q], out[q]>>
             /\ q \in hurt => q \in hurt'
  <2>1. UNCHANGED <<pc[q], kind[q], out[q]>> /\ (q \in hurt => q \in hurt')
    BY <1>0, <1>2, OthersUntouched DEF Untouched
  <2>2. UNCHANGED <<ses[q], length[q]>>
    BY <1>0, <1>2 DEF Call, RequestStep, NoticeStep, SourceStep, Cancel, NotHeard, Close, Regret, SearchAllCollect,
     SearchAllNoSource, SearchAllFork, SourceStart, SourceFetched, SourceReports, SearchAllJoin,
     SearchAllGroupFailed, SearchOneLookup, SearchOneRoute, SearchOneFetched, HealthBegin,
     HealthProbed, HealthItem, callVars, CallType
  <2> QED
    BY <2>1, <2>2
<1>3. \/ Active(r) /\ ses'[r] = ses[r] /\ kind'[r] = kind[r]
      \/ ses'[r] \in Sessions /\ phase[ses'[r]] = "serving" /\ pc'[r] = "greeting" /\ out'[r] = "none"
  <2>1. ASSUME NEW s \in Sessions, NEW k \in Kinds, Call(r, s, k)
        PROVE  /\ ses'[r] \in Sessions /\ phase[ses'[r]] = "serving" /\ pc'[r] = "greeting"
               /\ out'[r] = "none"
    BY <1>0, <2>1 DEF Call, Goto, CallType, CallInv
  <2>2. CASE RequestStep(r) \/ Cancel(r)
    <3>1. UNCHANGED <<ses, kind>>
      BY <2>2 DEF RequestStep, NoticeStep, SourceStep, Cancel, NotHeard, Close, Regret, SearchAllCollect,
         SearchAllNoSource, SearchAllFork, SourceStart, SourceFetched, SourceReports, SearchAllJoin,
         SearchAllGroupFailed, SearchOneLookup, SearchOneRoute, SearchOneFetched, HealthBegin,
         HealthProbed, callVars
    <3>2. ASSUME NEW o \in Retriever, SourceStart(r, o) \/ SourceFetched(r, o) \/ SourceReports(r, o)
          PROVE  pc[r] = "gathering"
      BY <1>0, <3>2 DEF CallInv, SourceStart, SourceFetched, SourceReports, Running
    <3>3. Active(r)
      BY <2>2, <3>2 DEF Active, RequestStep, NoticeStep, SourceStep, Cancel, NotHeard, Close, Regret, SearchAllCollect,
         SearchAllNoSource, SearchAllFork, SearchAllJoin,
         SearchAllGroupFailed, SearchOneLookup, SearchOneRoute, SearchOneFetched, HealthBegin,
         HealthProbed
    <3> QED
      BY <3>1, <3>3
  <2> QED
    BY <2>1, <2>2
<1>4. CallsServed'
  BY <1>1, <1>2, <1>3 DEF HealthsInv, CallsServed, Active
<1>5. ASSUME kind'[r] = "health"
      PROVE  HealthInv(r)'
  <2>1. CASE pc'[r] = "greeting" /\ out'[r] = "none"
    BY <2>1 DEF HealthInv
  <2>2. ASSUME Active(r), ses'[r] = ses[r], kind[r] = "health", RequestStep(r) \/ Cancel(r)
        PROVE  HealthInv(r)'
    <3>1. /\ pc[r] \in {"greeting", "probing", "closing", "regretting"}
          /\ pc[r] = "probing" => met[ses[r]] # {} \/ length[r] = Len(registry)
          /\ pc[r] = "regretting" => r \in hurt \/ met[ses[r]] # {}
          /\ out[r] = "none"
      BY <1>0, <2>2 DEF HealthsInv, HealthInv, Active, CallInv
    <3>2. CASE NotHeard(r) \/ Close(r) \/ Regret(r) \/ Cancel(r)
      BY <1>0, <1>1, <2>2, <3>1, <3>2 DEF HealthInv, NotHeard, Close, Regret, Cancel, Unheard, Goto,
         Finish, CallType, callVars
    <3>3. ASSUME NEW n \in Nat, NEW i \in Nat, HealthItem(r, n, i), UNCHANGED hurt,
                 n = Len(registry) \/ met[ses[r]] # {}
          PROVE  HealthInv(r)'
      BY <1>0, <1>1, <2>2, <3>1, <3>3 DEF HealthInv, HealthItem, Goto, CallType
    <3>4. CASE HealthBegin(r) \/ HealthProbed(r)
      <4>1. Len(registry) \in Nat /\ length[r] \in Nat /\ at[r] + 1 \in Nat
        BY <1>0 DEF ServerType, CallType
      <4> QED
        BY <3>1, <3>3, <3>4, <4>1 DEF HealthBegin, HealthProbed
    <3>5. ~ \E o \in Retriever : SourceStart(r, o) \/ SourceFetched(r, o) \/ SourceReports(r, o)
      BY <1>0, <3>1 DEF CallInv, SourceStart, SourceFetched, SourceReports, Running
    <3> QED
      BY <1>k, <2>2, <3>1, <3>2, <3>4, <3>5 DEF RequestStep, NoticeStep, SourceStep, SearchAllCollect, SearchAllNoSource,
         SearchAllFork, SearchAllJoin, SearchAllGroupFailed, SearchOneLookup, SearchOneRoute,
         SearchOneFetched
  <2>3. ASSUME NEW s \in Sessions, NEW k \in Kinds, Call(r, s, k)
        PROVE  pc'[r] = "greeting" /\ out'[r] = "none"
    BY <1>0, <2>3 DEF Call, Goto, CallType, CallInv
  <2> QED
    BY <1>0, <1>3, <1>5, <2>1, <2>2, <2>3
<1>6. ASSUME NEW q \in Requests, q # r
      PROVE  HealthInv(q)'
  BY <1>1, <1>2, <1>6 DEF HealthsInv, HealthInv
<1> QED
  BY <1>4, <1>5, <1>6 DEF HealthsInv, HealthInv

LEMMA HealthsStep == TypeInv /\ AllCallsInv /\ SessionsInv /\ HealthsInv /\ [Next]_vars => HealthsInv'
<1> SUFFICES ASSUME TypeInv, AllCallsInv, SessionsInv, HealthsInv, [Next]_vars PROVE HealthsInv'
  OBVIOUS
<1>1. CASE UNCHANGED vars
  BY <1>1 DEF vars, serverVars, sessionVars, callVars, HealthsInv, CallsServed, HealthInv, Active
<1> QED
  BY <1>1, SessionKeepsHealths, CallKeepsHealths DEF Next

(* While no other session overlaps its own, a health check fails only with *)
(* its notifications, never for a retriever or for the dictionary.         *)
THEOREM HealthChecksAreAnswered == Spec => []HealthCheckAnswers
<1>1. TypeInv /\ AllCallsInv /\ SessionsInv /\ HealthsInv /\ [Next]_vars
        => (TypeInv /\ AllCallsInv /\ SessionsInv /\ HealthsInv)'
  BY TypeStep, AllCallsStep, SessionsStep, HealthsStep
<1>2. HealthsInv => HealthCheckAnswers
  BY DEF HealthsInv, HealthInv, HealthCheckAnswers
<1> QED
  BY <1>1, <1>2, TypeInit, AllCallsInit, SessionsInit, HealthsInit, PTL DEF Spec
=============================================================================
