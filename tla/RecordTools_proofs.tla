--------------------------- MODULE RecordTools_proofs ---------------------------
(***************************************************************************)
(* Theorems about RecordTools, for any calls, records and documents and    *)
(* any size of the pool: a call that reports an error has changed nothing, *)
(* and one that reports success has changed what it was asked for, with    *)
(* the exceptions the properties name.                                     *)
(***************************************************************************)
EXTENDS RecordTools, FiniteSetTheorems, TLAPS

-----------------------------------------------------------------------------
(* The statements *)

(* The one placeholder of the condition comes after those of the columns.  *)
LEMMA RenumberedOnce ==
    ASSUME NEW n \in Nat
    PROVE  Renumbered(<<1>>, 1, n) = <<1 + n>>
<1> DEFINE Body(f) == [k \in 0..1 |->
                          IF k = 0 THEN <<1>>
                          ELSE [j \in DOMAIN <<1>> |-> IF f[k - 1][j] = k THEN k + n ELSE f[k - 1][j]]]
           first == [k \in 0..1 |-> IF k = 0 THEN <<1>> ELSE <<1 + n>>]
           after == CHOOSE f : f = Body(f)
<1>1. first = Body(first)
    <2>1. first[0] = <<1>> /\ DOMAIN <<1>> = {1} /\ <<1>>[1] = 1
        OBVIOUS
    <2>2. [j \in DOMAIN <<1>> |-> IF first[0][j] = 1 THEN 1 + n ELSE first[0][j]] = [j \in {1} |-> 1 + n]
        BY <2>1
    <2>3. <<1 + n>> = [j \in {1} |-> 1 + n]
        OBVIOUS
    <2>4. \A k \in 0..1 : k = 0 \/ k = 1
        OBVIOUS
    <2> QED BY <2>1, <2>2, <2>3, <2>4
<1>2. after = Body(after)
    BY <1>1
<1>3. Renumbered(<<1>>, 1, n) = after[1]
    BY DEF Renumbered
<1> HIDE DEF after
<1>4. after[0] = <<1>>
    BY <1>2
<1>5. after[1] = [j \in DOMAIN <<1>> |-> IF after[0][j] = 1 THEN 1 + n ELSE after[0][j]]
    BY <1>2
<1>6. after[1] = [j \in {1} |-> 1 + n]
    BY <1>4, <1>5
<1> QED BY <1>3, <1>6

(* The statements are about the row of that id, and set what was asked.    *)
LEMMA UpdateIsAboutIts ==
    ASSUME NEW d \in Data, NEW id
    PROVE  Target(Update(d, id)) = id /\ Columns(Update(d, id)) = d
<1>1. d \in Seq({d[i] : i \in DOMAIN d})
    BY RecordsAssumption
<1>2. Len(d) \in Nat /\ DOMAIN d = 1..Len(d) /\ d = [i \in DOMAIN d |-> d[i]]
    BY <1>1
<1> DEFINE S == {d[i] : i \in DOMAIN d} \cup {id}
<1>3. d \in Seq(S) /\ id \in S
    BY <1>1, <1>2
<1>4. Append(d, id)[Len(d) + 1] = id /\ \A i \in 1..Len(d) : Append(d, id)[i] = d[i]
    BY <1>3
<1>5. Renumbered(<<1>>, 1, Len(d))[1] = Len(d) + 1
    BY <1>2, RenumberedOnce
<1>6. Target(Update(d, id)) = Append(d, id)[Renumbered(<<1>>, 1, Len(d))[1]]
    BY DEF Target, Update
<1>7. Columns(Update(d, id)) = [i \in DOMAIN d |-> Append(d, id)[i]]
    BY DEF Columns, Update
<1> QED BY <1>2, <1>4, <1>5, <1>6, <1>7

LEMMA InsertSetsIts ==
    ASSUME NEW d \in Data
    PROVE  Columns(Insert(d)) = d
<1>1. d \in Seq({d[i] : i \in DOMAIN d})
    BY RecordsAssumption
<1>2. d = [i \in DOMAIN d |-> d[i]]
    BY <1>1
<1> QED BY <1>2 DEF Columns, Insert

LEMMA DeleteIsAboutIts ==
    ASSUME NEW id
    PROVE  Target(Delete(id)) = id
BY DEF Target, Delete

-----------------------------------------------------------------------------
(* Where a call is, what it does there and what it has done: `what' is     *)
(* [at, op, id, own, wrote, deaf] of the call.                             *)

Holds(place, op) ==
    \/ place \in {"running", "checking", "updating", "committing", "returning"}
    \/ place = "missing" /\ op = "update_record"

Fits(place, op, id, own, wrote, deaf) ==
    /\ place \in {"composing", "acquiring", "running", "checking", "updating", "committing",
                  "returning", "missing"} => op \in DatabaseTools
    /\ place \in {"checking", "updating", "committing", "returning"} => op = "update_record"
    /\ place \in {"running"} => op # "update_record"
    /\ op \in DatabaseTools => id \in Ids
    /\ op \in VectorTools => id \in Names \cup Free
    /\ wrote # {} => \/ place \in {"done", "returning", "complain"}
                     \/ place = "missing" /\ op = "delete_record" /\ id = 0
    /\ place = "complain" /\ wrote # {} => deaf \/ (op = "delete_record" /\ id = 0)
    /\ /\ place \in {"done", "returning"} /\ op \notin {"create_record", "create_collection"}
       /\ own = NoName /\ id \notin Free
       => wrote = {id}

FitsAll ==
    \A t \in Tasks : Fits(At(t), Op(t), Id(t), task[t].own, task[t].wrote, task[t].deaf)

(* A row is held by the update of that row.                                *)
HeldByIts == \A i \in Ids : lock[i] # NoTask => Id(lock[i]) = i

IInv == TypeOK /\ IsFiniteSet(Connections) /\ FitsAll /\ HeldByIts

Moves(t, place, op, id, own, wrote, deaf) ==
    /\ task' \in [Tasks -> Call]
    /\ \A u \in Tasks \ {t} : task'[u] = task[u]
    /\ task'[t].at = place /\ task'[t].op = op /\ task'[t].id = id /\ task'[t].own = own
    /\ task'[t].wrote = wrote /\ task'[t].deaf = deaf

Moves0(t, c) == c \in Call /\ task' = [task EXCEPT ![t] = c]

LEMMA MovesTo ==
    ASSUME TypeOK, NEW t \in Tasks, NEW c, Moves0(t, c)
    PROVE  Moves(t, c.at, c.op, c.id, c.own, c.wrote, c.deaf)
BY DEF Moves0, Moves, TypeOK

LEMMA CallHas ==
    ASSUME TypeOK, NEW t \in Tasks
    PROVE  /\ task[t] \in Call /\ At(t) \in Places /\ Op(t) \in Tools \cup {"none"}
           /\ Id(t) \in Ids \cup Names \cup Free /\ task[t].own \in Names \cup {NoName}
           /\ task[t].data \in Data /\ task[t].wrote \subseteq Ids \cup Names \cup {Fresh}
           /\ task[t].deaf \in BOOLEAN
BY DEF TypeOK, Call, At, Op, Id

LEMMA Goes ==
    ASSUME TypeOK, NEW t \in Tasks, NEW place \in Places, Goto(t, place)
    PROVE  Moves(t, place, Op(t), Id(t), task[t].own, task[t].wrote, task[t].deaf)
<1> DEFINE c == [task[t] EXCEPT !.at = place]
<1>1. /\ c \in Call /\ c.at = place /\ c.op = task[t].op /\ c.id = task[t].id /\ c.own = task[t].own
      /\ c.wrote = task[t].wrote /\ c.deaf = task[t].deaf
    BY CallHas DEF Call
<1>2. task' = [task EXCEPT ![t] = c]
    BY DEF Goto
<1> HIDE DEF c
<1> QED BY <1>1, <1>2, MovesTo DEF Moves0, Op, Id

LEMMA RestingIsCall == Resting \in Call
BY RecordsAssumption DEF Resting, Call, Places

LEMMA Ends ==
    ASSUME TypeOK, NEW t \in Tasks, End(t)
    PROVE  Moves(t, "idle", "none", 0, NoName, {}, FALSE)
<1>1. /\ Resting.at = "idle" /\ Resting.op = "none" /\ Resting.id = 0 /\ Resting.own = NoName
      /\ Resting.wrote = {} /\ Resting.deaf = FALSE
    BY DEF Resting
<1> QED BY <1>1, RestingIsCall, MovesTo DEF Moves0, End

LEMMA Complains ==
    ASSUME TypeOK, NEW t \in Tasks, Complain(t)
    PROVE  \/ task[t].wrote = {} /\ Moves(t, "complain", "none", 0, NoName, {}, FALSE)
           \/ /\ task[t].wrote # {}
              /\ Moves(t, "complain", Op(t), Id(t), task[t].own, task[t].wrote, task[t].deaf)
<1>1. CASE task[t].wrote = {}
    <2> DEFINE c == [Resting EXCEPT !.at = "complain"]
    <2>1. /\ c \in Call /\ c.at = "complain" /\ c.op = "none" /\ c.id = 0 /\ c.own = NoName
          /\ c.wrote = {} /\ c.deaf = FALSE
        BY RecordsAssumption DEF Resting, Call, Places, Telling
    <2>2. task' = [task EXCEPT ![t] = c]
        BY <1>1 DEF Complain, TypeOK
    <2> HIDE DEF c
    <2> QED BY <1>1, <2>1, <2>2, MovesTo DEF Moves0
<1>2. CASE task[t].wrote # {}
    <2>1. Goto(t, "complain")
        BY <1>2 DEF Complain, Goto, TypeOK
    <2> QED BY <1>2, <2>1, Goes DEF Places, Telling
<1> QED BY <1>1, <1>2

LEMMA Writes ==
    ASSUME TypeOK, NEW t \in Tasks, NEW x \in Ids \cup Names \cup {Fresh}, NEW place \in Places,
           Wrote(t, x, place)
    PROVE  Moves(t, place, Op(t), Id(t), task[t].own, {x}, task[t].deaf)
<1> DEFINE c == [task[t] EXCEPT !.at = place, !.wrote = {x}, !.text = TRUE, !.data = <<>>]
<1>1. /\ c \in Call /\ c.at = place /\ c.op = task[t].op /\ c.id = task[t].id /\ c.own = task[t].own
      /\ c.wrote = {x} /\ c.deaf = task[t].deaf
    BY CallHas, RecordsAssumption DEF Call
<1>2. task' = [task EXCEPT ![t] = c]
    BY DEF Wrote
<1> HIDE DEF c
<1> QED BY <1>1, <1>2, MovesTo DEF Moves0, Op, Id

LEMMA LosesAnswer ==
    ASSUME TypeOK, NEW t \in Tasks, NEW x \in Ids \cup Names \cup {Fresh}, Unheard(t, x)
    PROVE  Moves(t, "complain", Op(t), Id(t), task[t].own, {x}, TRUE)
<1> DEFINE c == [task[t] EXCEPT !.at = "complain", !.wrote = {x}, !.data = <<>>, !.deaf = TRUE]
<1>1. /\ c \in Call /\ c.at = "complain" /\ c.op = task[t].op /\ c.id = task[t].id /\ c.own = task[t].own
      /\ c.wrote = {x} /\ c.deaf = TRUE
    BY CallHas, RecordsAssumption DEF Call, Places, Telling
<1>2. task' = [task EXCEPT ![t] = c]
    BY DEF Unheard
<1> HIDE DEF c
<1> QED BY <1>1, <1>2, MovesTo DEF Moves0, Op, Id

-----------------------------------------------------------------------------
(* A step of one call *)

(* The locks: every row keeps its own, loses it, or is taken by the call.  *)
Locks(t, place, id) ==
    /\ lock' \in [Ids -> Tasks \cup {NoTask}]
    /\ \A i \in Ids : \/ lock'[i] = lock[i] /\ lock[i] # t
                      \/ lock'[i] = NoTask
                      \/ lock'[i] = t /\ place = "committing" /\ i = id

LEMMA StepKeeps ==
    ASSUME IInv, NEW t \in Tasks, NEW place, NEW op, NEW id, NEW own, NEW wrote, NEW deaf,
           Moves(t, place, op, id, own, wrote, deaf),
           Fits(place, op, id, own, wrote, deaf), Locks(t, place, id),
           Holds(place, op) => t \in Connections \/ Cardinality(Connections) < MaxSize,
           rows' \in [Ids -> Data \cup {NoRow}], points' \subseteq Names \cup {Fresh},
           collection' \in BOOLEAN, kind' = kind
    PROVE  IInv'
<1> USE DEF IInv
<1>1. FitsAll'
    BY DEF FitsAll, Moves, At, Op, Id
<1>2. HeldByIts'
    BY DEF HeldByIts, Locks, Moves, Id
<1>3. \A i \in Ids : lock'[i] # NoTask => task'[lock'[i]].at = "committing"
    BY DEF Locks, Moves, TypeOK
<1>4. IsFiniteSet(Connections)' /\ (Cardinality(Connections) <= MaxSize)'
    <2> DEFINE C == Connections
               D == Connections'
    <2>1. IsFiniteSet(C) /\ Cardinality(C) <= MaxSize /\ MaxSize \in Nat /\ Cardinality(C) \in Nat
        BY RecordsAssumption, FS_CardinalityType DEF TypeOK
    <2>2. D \subseteq C \/ (D = C \cup {t} /\ Cardinality(C) < MaxSize)
        <3>1. \A u \in Tasks \ {t} : u \in D <=> u \in C
            BY DEF Connections, Moves
        <3>2. t \in D => Holds(place, op)
            BY DEF Connections, Moves, Holds
        <3>3. C \subseteq Tasks /\ D \subseteq Tasks
            BY DEF Connections
        <3> HIDE DEF C, D
        <3> QED BY <3>1, <3>2, <3>3 DEF C
    <2> HIDE DEF C, D
    <2>3. D \subseteq C => IsFiniteSet(D) /\ Cardinality(D) <= MaxSize
        <3>1. D \subseteq C => IsFiniteSet(D) /\ Cardinality(D) <= Cardinality(C) /\ Cardinality(D) \in Nat
            BY <2>1, FS_Subset, FS_CardinalityType
        <3> QED BY <2>1, <3>1
    <2>4. ASSUME D = C \cup {t}, Cardinality(C) < MaxSize
          PROVE  IsFiniteSet(D) /\ Cardinality(D) <= MaxSize
        <3>1. IsFiniteSet(C \cup {t})
            BY <2>1, FS_AddElement
        <3>2. Cardinality(C \cup {t}) \in {Cardinality(C), Cardinality(C) + 1}
            BY <2>1, FS_AddElement
        <3>3. Cardinality(C \cup {t}) <= MaxSize
            BY <2>1, <2>4, <3>2
        <3> QED BY <2>4, <3>1, <3>3
    <2>5. IsFiniteSet(D) /\ Cardinality(D) <= MaxSize
        BY <2>2, <2>3, <2>4
    <2> QED BY <2>5 DEF D
<1>5. TypeOK'
    BY <1>3, <1>4 DEF TypeOK, Moves, Locks
<1> QED BY <1>1, <1>2, <1>4, <1>5

(* A call that holds no row leaves the locks alone.                        *)
LEMMA LocksStay ==
    ASSUME IInv, NEW t \in Tasks, At(t) # "committing", lock' = lock, NEW place, NEW id
    PROVE  Locks(t, place, id)
BY RecordsAssumption DEF IInv, TypeOK, Locks, At

LEMMA LocksGo ==
    ASSUME IInv, NEW t \in Tasks, lock' = Unlocked(t), NEW place, NEW id
    PROVE  Locks(t, place, id)
BY RecordsAssumption DEF IInv, TypeOK, Locks, Unlocked

LEMMA FitsIdle == Fits("idle", "none", 0, NoName, {}, FALSE) /\ Fits("complain", "none", 0, NoName, {}, FALSE)
BY DEF Fits, DatabaseTools, VectorTools

(* A call ends where it stands, or complains.                              *)
LEMMA EndKeeps ==
    ASSUME IInv, NEW t \in Tasks, End(t), (At(t) # "committing" /\ lock' = lock) \/ lock' = Unlocked(t),
           rows' \in [Ids -> Data \cup {NoRow}], UNCHANGED <<kind, points, collection>>
    PROVE  IInv'
<1>1. Moves(t, "idle", "none", 0, NoName, {}, FALSE)
    BY Ends DEF IInv
<1>2. Locks(t, "idle", 0)
    BY LocksStay, LocksGo
<1>3. ~Holds("idle", "none")
    BY DEF Holds
<1> QED BY <1>1, <1>2, <1>3, FitsIdle, StepKeeps DEF IInv, TypeOK

LEMMA ComplainKeeps ==
    ASSUME IInv, NEW t \in Tasks, Complain(t), (At(t) # "committing" /\ lock' = lock) \/ lock' = Unlocked(t),
           At(t) \notin {"done", "returning"},
           UNCHANGED <<kind, rows, points, collection>>
    PROVE  IInv'
<1>1. ~Holds("complain", "none") /\ ~Holds("complain", Op(t))
    BY DEF Holds
<1>2. CASE task[t].wrote = {} /\ Moves(t, "complain", "none", 0, NoName, {}, FALSE)
    <2>1. Locks(t, "complain", 0)
        BY LocksStay, LocksGo
    <2> QED BY <1>1, <1>2, <2>1, FitsIdle, StepKeeps DEF IInv, TypeOK
<1>3. CASE /\ task[t].wrote # {}
           /\ Moves(t, "complain", Op(t), Id(t), task[t].own, task[t].wrote, task[t].deaf)
    <2>1. Locks(t, "complain", Id(t))
        BY LocksStay, LocksGo
    <2>2. Fits("complain", Op(t), Id(t), task[t].own, task[t].wrote, task[t].deaf)
        BY <1>3 DEF IInv, FitsAll, Fits
    <2> QED BY <1>1, <1>3, <2>1, <2>2, StepKeeps DEF IInv, TypeOK
<1> QED BY <1>2, <1>3, Complains DEF IInv

(* A call goes on to another place with nothing changed.                   *)
LEMMA GotoKeeps ==
    ASSUME IInv, NEW t \in Tasks, NEW place \in Places, Goto(t, place), At(t) # "committing", lock' = lock,
           Fits(place, Op(t), Id(t), task[t].own, task[t].wrote, task[t].deaf),
           Holds(place, Op(t)) => t \in Connections \/ Cardinality(Connections) < MaxSize,
           rows' \in [Ids -> Data \cup {NoRow}], points' \subseteq Names \cup {Fresh},
           collection' \in BOOLEAN, kind' = kind
    PROVE  IInv'
<1>1. Moves(t, place, Op(t), Id(t), task[t].own, task[t].wrote, task[t].deaf)
    BY Goes DEF IInv
<1>2. Locks(t, place, Id(t))
    BY LocksStay
<1> QED BY <1>1, <1>2, StepKeeps

-----------------------------------------------------------------------------
(* Each step of a call *)

LEMMA RequestKeeps ==
    ASSUME IInv, NEW t \in Tasks, NEW op \in Tools, NEW i \in Ids \cup Names \cup Free,
           NEW own \in Names \cup {NoName}, NEW text \in BOOLEAN, NEW valid \in BOOLEAN, NEW d \in Data,
           Request(t, op, i, own, text, valid, d),
           op \in DatabaseTools => i \in Ids, op \in VectorTools => i \in Names \cup Free
    PROVE  IInv'
<1> DEFINE c == [at |-> "announce", op |-> op, id |-> i, own |-> own, text |-> text, valid |-> valid,
                 data |-> d, wrote |-> {}, deaf |-> FALSE]
<1>1. /\ c \in Call /\ c.at = "announce" /\ c.op = op /\ c.id = i /\ c.own = own /\ c.wrote = {}
      /\ c.deaf = FALSE
    BY DEF Call, Places, Telling
<1>2. task' = [task EXCEPT ![t] = c] /\ At(t) = "idle"
    BY DEF Request
<1> HIDE DEF c
<1>3. Moves(t, "announce", op, i, own, {}, FALSE)
    BY <1>1, <1>2, MovesTo DEF Moves0, IInv
<1>4. Fits("announce", op, i, own, {}, FALSE) /\ ~Holds("announce", op)
    BY DEF Fits, Holds
<1>5. Locks(t, "announce", i) /\ UNCHANGED <<kind, rows, points, collection>>
    BY <1>2, LocksStay DEF Request, store
<1> QED BY <1>3, <1>4, <1>5, StepKeeps DEF IInv, TypeOK

LEMMA RequestsKeep ==
    ASSUME IInv, NEW t \in Tasks, RequestRecord(t) \/ RequestDocument(t)
    PROVE  IInv'
<1>1. NoName \in Names \cup {NoName} /\ <<>> \in Data /\ TRUE \in BOOLEAN
      /\ DatabaseTools \subseteq Tools /\ VectorTools \subseteq Tools /\ DatabaseTools \cap VectorTools = {}
    BY RecordsAssumption DEF Tools, DatabaseTools, VectorTools
<1>2. CASE RequestRecord(t)
    <2>1. PICK op \in DatabaseTools, i \in Ids, valid \in BOOLEAN, d \in Data :
             Request(t, op, i, NoName, TRUE, valid, d)
        BY <1>2 DEF RequestRecord
    <2> QED BY <1>1, <2>1, RequestKeeps
<1>3. CASE RequestDocument(t)
    <2>1. PICK op \in VectorTools, i \in Names \cup Free, own \in Names \cup {NoName}, text \in BOOLEAN :
             Request(t, op, i, own, text, TRUE, <<>>)
        BY <1>3 DEF RequestDocument
    <2> QED BY <1>1, <2>1, RequestKeeps
<1> QED BY <1>2, <1>3

LEMMA StoreTypes ==
    ASSUME IInv, UNCHANGED store
    PROVE  /\ rows' \in [Ids -> Data \cup {NoRow}] /\ points' \subseteq Names \cup {Fresh}
           /\ collection' \in BOOLEAN /\ kind' = kind /\ lock' = lock
           /\ UNCHANGED <<kind, rows, points, collection>>
BY DEF IInv, TypeOK, store

LEMMA FitsNow ==
    ASSUME IInv, NEW t \in Tasks
    PROVE  Fits(At(t), Op(t), Id(t), task[t].own, task[t].wrote, task[t].deaf)
BY DEF IInv, FitsAll

LEMMA AnnouncedKeeps == ASSUME IInv, NEW t \in Tasks, Announced(t) PROVE IInv'
<1>1. At(t) = "announce" /\ UNCHANGED store /\ Op(t) \in DatabaseTools
    BY DEF Announced
<1>2. CASE End(t)
    BY <1>1, <1>2, StoreTypes, EndKeeps
<1>3. CASE Complain(t)
    BY <1>1, <1>3, StoreTypes, ComplainKeeps
<1>4. CASE Goto(t, "composing")
    <2>1. Fits("composing", Op(t), Id(t), task[t].own, task[t].wrote, task[t].deaf)
        BY <1>1, FitsNow DEF Fits
    <2>2. ~Holds("composing", Op(t)) /\ "composing" \in Places
        BY DEF Holds, Places
    <2> QED BY <1>1, <1>4, <2>1, <2>2, StoreTypes, GotoKeeps
<1> QED BY <1>2, <1>3, <1>4 DEF Announced

LEMMA ComposedKeeps == ASSUME IInv, NEW t \in Tasks, Composed(t) PROVE IInv'
<1>1. At(t) = "composing" /\ UNCHANGED store /\ Goto(t, "acquiring")
    BY DEF Composed
<1>2. Fits("acquiring", Op(t), Id(t), task[t].own, task[t].wrote, task[t].deaf)
    BY <1>1, FitsNow DEF Fits
<1>3. ~Holds("acquiring", Op(t)) /\ "acquiring" \in Places
    BY DEF Holds, Places
<1> QED BY <1>1, <1>2, <1>3, StoreTypes, GotoKeeps

LEMMA AcquiredKeeps == ASSUME IInv, NEW t \in Tasks, Acquired(t) PROVE IInv'
<1>1. At(t) = "acquiring" /\ UNCHANGED store /\ Cardinality(Connections) < MaxSize
    BY DEF Acquired
<1>2. CASE Op(t) = "update_record"
    <2>1. Goto(t, "checking") /\ "checking" \in Places
        BY <1>2 DEF Acquired, Places
    <2>2. Fits("checking", Op(t), Id(t), task[t].own, task[t].wrote, task[t].deaf)
        BY <1>1, <1>2, FitsNow DEF Fits
    <2> QED BY <1>1, <2>1, <2>2, StoreTypes, GotoKeeps
<1>3. CASE Op(t) # "update_record"
    <2>1. Goto(t, "running") /\ "running" \in Places
        BY <1>3 DEF Acquired, Places
    <2>2. Fits("running", Op(t), Id(t), task[t].own, task[t].wrote, task[t].deaf)
        BY <1>1, <1>3, FitsNow DEF Fits
    <2> QED BY <1>1, <2>1, <2>2, StoreTypes, GotoKeeps
<1> QED BY <1>2, <1>3

LEMMA FailsKeeps == ASSUME IInv, NEW t \in Tasks, Fails(t) PROVE IInv'
<1>1. /\ At(t) # "committing" /\ At(t) \notin {"done", "returning"}
      /\ Complain(t) /\ UNCHANGED store
    BY DEF Fails
<1> QED BY <1>1, StoreTypes, ComplainKeeps

(* A statement of a call that wrote nothing yet has run.                   *)
LEMMA WroteKeeps ==
    ASSUME IInv, NEW t \in Tasks, NEW x \in Ids \cup Names \cup {Fresh}, NEW place \in Places,
           Wrote(t, x, place), Locks(t, place, Id(t)),
           Fits(place, Op(t), Id(t), task[t].own, {x}, task[t].deaf),
           Holds(place, Op(t)) => t \in Connections,
           rows' \in [Ids -> Data \cup {NoRow}], points' \subseteq Names \cup {Fresh},
           UNCHANGED <<kind, collection>>
    PROVE  IInv'
<1>1. Moves(t, place, Op(t), Id(t), task[t].own, {x}, task[t].deaf)
    BY Writes DEF IInv
<1>2. collection' \in BOOLEAN /\ kind' = kind
    BY DEF IInv, TypeOK
<1> QED BY <1>1, <1>2, StepKeeps

LEMMA UnheardKeeps ==
    ASSUME IInv, NEW t \in Tasks, NEW x \in Ids \cup Names \cup {Fresh},
           Unheard(t, x), Locks(t, "complain", Id(t)),
           rows' \in [Ids -> Data \cup {NoRow}], UNCHANGED <<kind, points, collection>>
    PROVE  IInv'
<1>1. Moves(t, "complain", Op(t), Id(t), task[t].own, {x}, TRUE)
    BY LosesAnswer DEF IInv
<1>2. Fits("complain", Op(t), Id(t), task[t].own, {x}, TRUE)
    BY FitsNow DEF Fits
<1>3. collection' \in BOOLEAN /\ kind' = kind /\ points' \subseteq Names \cup {Fresh}
    BY DEF IInv, TypeOK
<1>4. ~Holds("complain", Op(t))
    BY DEF Holds
<1> QED BY <1>1, <1>2, <1>3, <1>4, StepKeeps

LEMMA InsertKeeps == ASSUME IInv, NEW t \in Tasks, InsertRuns(t) PROVE IInv'
<1>1. At(t) = "running" /\ Op(t) = "create_record" /\ UNCHANGED <<kind, lock, points, collection>>
    BY DEF InsertRuns
<1>2. CASE Complain(t) /\ UNCHANGED rows
    BY <1>1, <1>2, ComplainKeeps
<1>3. CASE \E i \in Ids : /\ rows' = [rows EXCEPT ![i] = Columns(Insert(task[t].data))]
                          /\ Wrote(t, i, "done") \/ Unheard(t, i)
    <2>1. PICK i \in Ids : /\ rows' = [rows EXCEPT ![i] = Columns(Insert(task[t].data))]
                           /\ Wrote(t, i, "done") \/ Unheard(t, i)
        BY <1>3
    <2>2. Columns(Insert(task[t].data)) \in Data
        BY CallHas, InsertSetsIts DEF IInv
    <2>3. rows' \in [Ids -> Data \cup {NoRow}]
        BY <2>1, <2>2 DEF IInv, TypeOK
    <2>4. points' \subseteq Names \cup {Fresh}
        BY <1>1 DEF IInv, TypeOK
    <2>5. Fits("done", Op(t), Id(t), task[t].own, {i}, task[t].deaf) /\ ~Holds("done", Op(t))
        BY <1>1, FitsNow DEF Fits, Holds
    <2>6. Locks(t, "done", Id(t)) /\ Locks(t, "complain", Id(t))
        BY <1>1, LocksStay
    <2>7. "done" \in Places
        BY DEF Places, Telling
    <2> QED BY <1>1, <2>1, <2>3, <2>4, <2>5, <2>6, <2>7, WroteKeeps, UnheardKeeps
<1> QED BY <1>2, <1>3 DEF InsertRuns

LEMMA DeleteKeeps == ASSUME IInv, NEW t \in Tasks, DeleteRuns(t) PROVE IInv'
<1>1. /\ At(t) = "running" /\ Op(t) = "delete_record" /\ UNCHANGED <<kind, lock, points, collection>>
      /\ Target(Delete(Id(t))) = Id(t)
    BY DeleteIsAboutIts DEF DeleteRuns
<1>2. Id(t) \in Ids /\ points' \subseteq Names \cup {Fresh}
    BY <1>1, FitsNow DEF Fits, IInv, TypeOK, DatabaseTools
<1>3. Locks(t, "done", Id(t)) /\ Locks(t, "complain", Id(t)) /\ Locks(t, "missing", Id(t))
    BY <1>1, LocksStay
<1>4. ~Holds("done", Op(t)) /\ ~Holds("missing", Op(t)) /\ {"done", "missing"} \subseteq Places
    BY <1>1 DEF Holds, Places, Telling
<1>5. CASE UNCHANGED rows /\ Goto(t, "missing")
    <2>1. Fits("missing", Op(t), Id(t), task[t].own, task[t].wrote, task[t].deaf)
        BY <1>1, FitsNow DEF Fits
    <2>2. rows' \in [Ids -> Data \cup {NoRow}] /\ collection' \in BOOLEAN
        BY <1>1, <1>5 DEF IInv, TypeOK
    <2> QED BY <1>1, <1>2, <1>4, <1>5, <2>1, <2>2, GotoKeeps
<1>6. CASE /\ rows' = [rows EXCEPT ![Id(t)] = NoRow]
           /\ Wrote(t, Id(t), IF Id(t) = 0 THEN "missing" ELSE "done") \/ Unheard(t, Id(t))
    <2>1. rows' \in [Ids -> Data \cup {NoRow}]
        BY <1>6 DEF IInv, TypeOK
    <2>2. Id(t) = 0 => Fits("missing", Op(t), Id(t), task[t].own, {Id(t)}, task[t].deaf)
        BY <1>1, FitsNow DEF Fits
    <2>3. Fits("done", Op(t), Id(t), task[t].own, {Id(t)}, task[t].deaf)
        BY <1>1, FitsNow DEF Fits
    <2>4. CASE Wrote(t, Id(t), "missing") /\ Id(t) = 0
        BY <1>1, <1>2, <1>3, <1>4, <2>1, <2>2, <2>4, WroteKeeps
    <2>5. CASE Wrote(t, Id(t), "done")
        BY <1>1, <1>2, <1>3, <1>4, <2>1, <2>3, <2>5, WroteKeeps
    <2>6. CASE Unheard(t, Id(t))
        BY <1>1, <1>2, <1>3, <2>1, <2>6, UnheardKeeps
    <2> QED BY <1>6, <2>4, <2>5, <2>6
<1> QED BY <1>1, <1>5, <1>6 DEF DeleteRuns

LEMMA CheckedKeeps == ASSUME IInv, NEW t \in Tasks, Checked(t) PROVE IInv'
<1>1. PICK place \in {"missing", "updating"} : Goto(t, place)
    BY DEF Checked
<1>2. At(t) = "checking" /\ UNCHANGED store /\ Op(t) = "update_record" /\ t \in Connections
    BY FitsNow DEF Checked, Fits, Connections, At
<1>3. Fits(place, Op(t), Id(t), task[t].own, task[t].wrote, task[t].deaf) /\ place \in Places
    BY <1>2, FitsNow DEF Fits, Places, Telling
<1> QED BY <1>1, <1>2, <1>3, StoreTypes, GotoKeeps

LEMMA UpdateKeeps == ASSUME IInv, NEW t \in Tasks, UpdateRuns(t) PROVE IInv'
<1>1. /\ At(t) = "updating" /\ UNCHANGED <<kind, rows, points, collection>> /\ Op(t) = "update_record"
      /\ t \in Connections /\ task[t].data \in Data
    BY FitsNow, CallHas DEF UpdateRuns, Fits, Connections, At, IInv
<1>2. Target(Update(task[t].data, Id(t))) = Id(t)
    BY <1>1, UpdateIsAboutIts
<1>3. CASE Complain(t) /\ UNCHANGED lock
    BY <1>1, <1>3, ComplainKeeps
<1>4. CASE Goto(t, "committing") /\ lock' = [lock EXCEPT ![Id(t)] = t] /\ Id(t) \in Ids
    <2>1. "committing" \in Places
        BY DEF Places, Telling
    <2>2. Moves(t, "committing", Op(t), Id(t), task[t].own, task[t].wrote, task[t].deaf)
        BY <1>4, <2>1, Goes DEF IInv
    <2>3. Fits("committing", Op(t), Id(t), task[t].own, task[t].wrote, task[t].deaf)
        BY <1>1, FitsNow DEF Fits
    <2>4. Locks(t, "committing", Id(t))
        BY <1>1, <1>4, RecordsAssumption DEF Locks, IInv, TypeOK, At
    <2> QED BY <1>1, <2>2, <2>3, <2>4, StepKeeps DEF IInv, TypeOK
<1> QED BY <1>1, <1>2, <1>3, <1>4 DEF UpdateRuns

LEMMA CommitKeeps == ASSUME IInv, NEW t \in Tasks, Commits(t) PROVE IInv'
<1>1. /\ At(t) = "committing" /\ UNCHANGED <<kind, points, collection>> /\ Op(t) = "update_record"
      /\ t \in Connections /\ task[t].data \in Data /\ lock' = Unlocked(t) /\ rows' = Changed(t)
      /\ points' \subseteq Names \cup {Fresh}
    BY FitsNow, CallHas DEF Commits, Fits, Connections, At, IInv, TypeOK
<1>2. rows' \in [Ids -> Data \cup {NoRow}]
    BY <1>1, UpdateIsAboutIts DEF Changed, IInv, TypeOK
<1>3. PICK i \in Ids : lock[i] = t /\ (Wrote(t, i, "returning") \/ Unheard(t, i))
    BY DEF Commits
<1>4. i = Id(t)
    BY <1>3, RecordsAssumption DEF IInv, HeldByIts
<1>5. Locks(t, "returning", Id(t)) /\ Locks(t, "complain", Id(t)) /\ "returning" \in Places
    BY <1>1, LocksGo DEF Places
<1>6. Fits("returning", Op(t), Id(t), task[t].own, {i}, task[t].deaf)
    BY <1>1, <1>4, FitsNow DEF Fits
<1> QED BY <1>1, <1>2, <1>3, <1>5, <1>6, WroteKeeps, UnheardKeeps

LEMMA ReturnedKeeps == ASSUME IInv, NEW t \in Tasks, Returned(t) PROVE IInv'
BY StoreTypes, EndKeeps DEF Returned

LEMMA RollsBackKeeps == ASSUME IInv, NEW t \in Tasks, RollsBack(t) PROVE IInv'
BY ComplainKeeps DEF RollsBack

LEMMA OperationFailsKeeps == ASSUME IInv, NEW t \in Tasks, OperationFails(t) PROVE IInv'
BY StoreTypes, EndKeeps, ComplainKeeps DEF OperationFails

LEMMA CreateCollectionKeeps == ASSUME IInv, NEW t \in Tasks, CreateCollection(t) PROVE IInv'
<1>1. /\ At(t) = "announce" /\ Op(t) = "create_collection" /\ Goto(t, "done")
      /\ UNCHANGED <<kind, rows, lock, points>> /\ collection' = TRUE
    BY DEF CreateCollection, Begun, MakeCollection
<1>2. Fits("done", Op(t), Id(t), task[t].own, task[t].wrote, task[t].deaf)
    BY <1>1, FitsNow DEF Fits
<1>3. ~Holds("done", Op(t)) /\ "done" \in Places
    BY DEF Holds, Places, Telling
<1> QED BY <1>1, <1>2, <1>3, GotoKeeps DEF IInv, TypeOK

LEMMA UpsertKeeps ==
    ASSUME IInv, NEW t \in Tasks, Upsert(t), At(t) = "announce",
           Op(t) \in {"create_document", "update_document"}
    PROVE  IInv'
<1>1. /\ Id(t) \in Names \cup Free /\ task[t].own \in Names \cup {NoName}
    BY FitsNow, CallHas DEF Fits, VectorTools, IInv
<1>2. /\ PointOf(t) \in Names \cup {Fresh}
      /\ task[t].own = NoName /\ Id(t) \notin Free => PointOf(t) = Id(t)
    BY <1>1 DEF PointOf, Converted
<1>3. Fits("done", Op(t), Id(t), task[t].own, {PointOf(t)}, task[t].deaf)
    BY <1>2, FitsNow DEF Fits
<1>4. ~Holds("done", Op(t)) /\ "done" \in Places /\ Locks(t, "done", Id(t))
    BY LocksStay DEF Holds, Places, Telling, Upsert
<1>5. points' \subseteq Names \cup {Fresh} /\ rows' \in [Ids -> Data \cup {NoRow}]
    BY <1>2 DEF Upsert, IInv, TypeOK
<1> QED BY <1>2, <1>3, <1>4, <1>5, WroteKeeps DEF Upsert

LEMMA DocumentKeeps ==
    ASSUME IInv, NEW t \in Tasks, CreateDocument(t) \/ UpdateDocument(t)
    PROVE  IInv'
BY UpsertKeeps DEF CreateDocument, UpdateDocument, Begun

LEMMA DeleteDocumentKeeps == ASSUME IInv, NEW t \in Tasks, DeleteDocument(t) PROVE IInv'
<1>1. /\ At(t) = "announce" /\ Op(t) = "delete_document" /\ Wrote(t, Id(t), "done") /\ Id(t) \in Names
      /\ UNCHANGED <<kind, rows, lock, collection>> /\ points' \subseteq points
    BY DEF DeleteDocument, Begun, RemovePoint
<1>2. Fits("done", Op(t), Id(t), task[t].own, {Id(t)}, task[t].deaf)
    BY <1>1, FitsNow DEF Fits
<1>3. ~Holds("done", Op(t)) /\ "done" \in Places /\ Locks(t, "done", Id(t))
    BY <1>1, LocksStay DEF Holds, Places, Telling
<1>4. points' \subseteq Names \cup {Fresh} /\ rows' \in [Ids -> Data \cup {NoRow}]
    BY <1>1 DEF IInv, TypeOK
<1> QED BY <1>1, <1>2, <1>3, <1>4, WroteKeeps

LEMMA ToldKeeps == ASSUME IInv, NEW t \in Tasks, Told(t) PROVE IInv'
<1>1. UNCHANGED store /\ At(t) # "committing"
    BY DEF Told
<1>2. CASE At(t) = "missing"
    BY <1>1, <1>2, StoreTypes, ComplainKeeps DEF Told
<1>3. CASE At(t) # "missing"
    BY <1>1, <1>3, StoreTypes, EndKeeps DEF Told
<1> QED BY <1>2, <1>3

LEMMA RefusedKeeps == ASSUME IInv, NEW t \in Tasks, Refused(t) PROVE IInv'
<1>1. UNCHANGED store /\ At(t) # "committing"
    BY DEF Refused
<1>2. CASE At(t) \in {"done", "missing"}
    <2> DEFINE c == [task[t] EXCEPT !.at = "complain", !.deaf = TRUE]
    <2>1. /\ c \in Call /\ c.at = "complain" /\ c.op = task[t].op /\ c.id = task[t].id
          /\ c.own = task[t].own /\ c.wrote = task[t].wrote /\ c.deaf = TRUE
        BY CallHas DEF IInv, Call, Places, Telling
    <2>2. task' = [task EXCEPT ![t] = c]
        BY <1>2 DEF Refused
    <2> HIDE DEF c
    <2>3. Moves(t, "complain", Op(t), Id(t), task[t].own, task[t].wrote, TRUE)
        BY <2>1, <2>2, MovesTo DEF Moves0, Op, Id, IInv
    <2>4. Fits("complain", Op(t), Id(t), task[t].own, task[t].wrote, TRUE) /\ ~Holds("complain", Op(t))
        BY FitsNow DEF Fits, Holds
    <2>5. Locks(t, "complain", Id(t))
        BY <1>1, StoreTypes, LocksStay
    <2> QED BY <1>1, <2>3, <2>4, <2>5, StoreTypes, StepKeeps
<1>3. CASE At(t) \notin {"done", "missing"}
    BY <1>1, <1>3, StoreTypes, EndKeeps DEF Refused
<1> QED BY <1>2, <1>3

LEMMA CancelKeeps == ASSUME IInv, NEW t \in Tasks, Cancel(t) PROVE IInv'
<1>1. End(t) /\ lock' = Unlocked(t) /\ UNCHANGED <<kind, points, collection>>
    BY DEF Cancel
<1>2. rows' \in [Ids -> Data \cup {NoRow}]
    BY DEF Cancel, IInv, TypeOK
<1> QED BY <1>1, <1>2, EndKeeps

-----------------------------------------------------------------------------
(* The invariant and the theorems *)

LEMMA InitGood == Init => IInv
<1> SUFFICES ASSUME Init PROVE IInv
    OBVIOUS
<1>1. \A t \in Tasks : task[t] = Resting
    BY DEF Init
<1>2. /\ Resting.at = "idle" /\ Resting.op = "none" /\ Resting.id = 0 /\ Resting.own = NoName
      /\ Resting.wrote = {} /\ Resting.deaf = FALSE
    BY DEF Resting
<1>3. Connections = {}
    BY <1>1, <1>2 DEF Connections
<1>4. IsFiniteSet(Connections) /\ Cardinality(Connections) <= MaxSize
    BY <1>3, FS_EmptySet, RecordsAssumption
<1>5. rows \in [Ids -> Data \cup {NoRow}] /\ lock \in [Ids -> Tasks \cup {NoTask}]
    BY DEF Init
<1>6. task \in [Tasks -> Call]
    BY RestingIsCall DEF Init
<1>7. points = {} /\ collection \in BOOLEAN /\ kind \in {"records", "documents"}
      /\ \A i \in Ids : lock[i] = NoTask
    BY DEF Init
<1>8. TypeOK /\ HeldByIts
    BY <1>4, <1>5, <1>6, <1>7 DEF TypeOK, HeldByIts
<1>9. FitsAll
    BY <1>1, <1>2, FitsIdle DEF FitsAll, At, Op, Id
<1> QED BY <1>4, <1>8, <1>9 DEF IInv

LEMMA NothingMoves == ASSUME IInv, UNCHANGED vars PROVE IInv'
<1>1. UNCHANGED <<kind, rows, lock, points, collection, task>>
    BY DEF vars, store
<1>2. Connections' = Connections
    BY <1>1 DEF Connections
<1> QED BY <1>1, <1>2 DEF IInv, TypeOK, FitsAll, HeldByIts, At, Op, Id

LEMMA NextKeeps == IInv /\ [Next]_vars => IInv'
<1> SUFFICES ASSUME IInv, [Next]_vars PROVE IInv'
    OBVIOUS
<1>1. CASE UNCHANGED vars
    BY <1>1, NothingMoves
<1>2. ASSUME NEW t \in Tasks, RequestRecord(t) \/ RequestDocument(t) \/ Announced(t) \/ Composed(t)
                               \/ Acquired(t) \/ Fails(t)
      PROVE  IInv'
    BY <1>2, RequestsKeep, AnnouncedKeeps, ComposedKeeps, AcquiredKeeps, FailsKeeps
<1>3. ASSUME NEW t \in Tasks, Answered(t) \/ DeleteRuns(t) \/ UpdateRuns(t) \/ Commits(t) \/ RollsBack(t)
      PROVE  IInv'
    BY <1>3, InsertKeeps, CheckedKeeps, ReturnedKeeps, DeleteKeeps, UpdateKeeps, CommitKeeps, RollsBackKeeps
       DEF Answered
<1>4. ASSUME NEW t \in Tasks, OperationFails(t) \/ CreateCollection(t) \/ CreateDocument(t)
                               \/ UpdateDocument(t) \/ DeleteDocument(t)
      PROVE  IInv'
    BY <1>4, OperationFailsKeeps, CreateCollectionKeeps, DocumentKeeps, DeleteDocumentKeeps
<1>5. ASSUME NEW t \in Tasks, Told(t) \/ Refused(t) \/ Cancel(t)
      PROVE  IInv'
    BY <1>5, ToldKeeps, RefusedKeeps, CancelKeeps
<1> QED BY <1>1, <1>2, <1>3, <1>4, <1>5 DEF Next

LEMMA SpecKeeps == Spec => []IInv
<1> DEFINE F == Fairness
<1>1. Spec <=> Init /\ [][Next]_vars /\ F
    BY DEF Spec
<1> HIDE DEF F
<1> QED BY <1>1, InitGood, NextKeeps, PTL

(* The stores and the calls keep their types, no more connections are held *)
(* than the pool has, and only an update about to commit holds a row.      *)
THEOREM RecordsTypeCorrect == Spec => []TypeOK
<1>1. IInv => TypeOK
    BY DEF IInv
<1> QED BY <1>1, SpecKeeps, PTL

(* create, update and delete of server_unified.py: a call that is about to *)
(* raise a ToolError has changed nothing, but for the cases named there.   *)
THEOREM FailuresChangeNothing == Spec => []FailureChangesNothing
<1>1. IInv => FailureChangesNothing
    BY DEF IInv, FitsAll, Fits, FailureChangesNothing
<1> QED BY <1>1, SpecKeeps, PTL

(* The same tools: a call that is about to report success has changed its  *)
(* own record or document and no other, but for the cases named there.     *)
THEOREM SuccessesHitTheirTarget == Spec => []SuccessIsAboutItsTarget
<1>1. IInv => SuccessIsAboutItsTarget
    BY DEF IInv, FitsAll, Fits, SuccessIsAboutItsTarget
<1> QED BY <1>1, SpecKeeps, PTL
===============================================================================
