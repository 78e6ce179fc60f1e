------------------------ MODULE RetrieverPools_proofs -------------------------
(***************************************************************************)
(* Theorems about RetrieverPools, for any number of calls, any size of the *)
(* pool and any number of retries.  None of the three properties is        *)
(* inductive: a pool that is not the current one any more was either made  *)
(* while another was being closed or is being closed itself, and that      *)
(* rests on where every call stands with its pool.                         *)
(***************************************************************************)
EXTENDS RetrieverPools, FiniteSetTheorems, TLAPS

Busy == {t \in Tasks : At(t) \in {"using", "releasing"}}

(* Which calls are where, in which kind of retriever, with which pool.     *)
Placed ==
    \A t \in Tasks :
        /\ At(t) \in {"locking", "creating", "acquiring", "releasing"} => kind = "sql"
        /\ At(t) = "using" => kind = "sql" \/ (kind = "http" /\ Op(t) # "connect")
        /\ At(t) = "sleeping" => kind = "http" /\ Op(t) = "query"
        /\ At(t) = "closing" => kind # "vector"
        /\ At(t) = "creating" => holder = t /\ current = 0
        /\ Mine(t) # 0 => At(t) # "idle"
        /\ At(t) \in {"acquiring", "using", "releasing", "closing"} => Mine(t) # 0

(* Pools that are open and not current any more.                           *)
Outlived ==
    /\ \A p \in open : \/ p = current \/ p \in clash
                       \/ kind = "http" /\ \E u \in Tasks : At(u) = "closing" /\ Mine(u) = p
    /\ \A u \in Tasks : At(u) = "closing" /\ current \notin {0, Mine(u)} => current \in clash
    /\ undead \cap open = {}

(* A current pool that no connected retriever has is somebody's.           *)
Owned ==
    current \in open =>
        \/ connected \/ current \in clash \cup demand \cup half
        \/ \E t \in Tasks : Op(t) = "connect" /\ Mine(t) = current

(* Who may meet a pool that refuses.                                       *)
Warned ==
    /\ current \in shut => \/ current \in undead
                           \/ \E u \in Tasks : At(u) = "closing" /\ Mine(u) = current
    /\ Closing \/ current \in undead =>
          \A t \in Tasks : At(t) \notin {"idle", "closing"} => t \in shaken
    /\ \A t \in Tasks : At(t) = "acquiring" /\ Mine(t) \in shut => t \in shaken

(* Connections that may not come back, and those that have not.            *)
Loose ==
    /\ kind = "sql" => \A t \in Busy : Mine(t) # current => Mine(t) \in clash
    /\ \A x \in lost : x[1] # current /\ x[1] \in clash
    /\ \A t \in Tasks : <<Mine(t), t>> \notin lost
    /\ IsFiniteSet(lost) /\ IsFiniteSet(Busy)
    /\ active = slipped + Cardinality(lost) + Cardinality(Busy)

IInv == TypeOK /\ Placed /\ Outlived /\ Owned /\ Warned /\ Loose /\ RefusedOnlyByClose

-----------------------------------------------------------------------------
(* What the moves of a call do to the calls *)

Moves(t, where, o, p, how) ==
    /\ task' \in [Tasks -> Task]
    /\ \A u \in Tasks \ {t} : task'[u] = task[u]
    /\ task'[t].at = where /\ task'[t].op = o /\ task'[t].pool = p
    /\ task'[t].how = how /\ task'[t].attempt < Retries

LEMMA Becomes ==
    ASSUME TypeOK, NEW t \in Tasks, NEW o \in Calls \cup {"none"}, NEW p \in Nat,
           NEW where \in {"locking", "creating", "acquiring", "using", "closing"},
           Become(t, where, o, p)
    PROVE  Moves(t, where, o, p, "none")
<1> DEFINE r == [at |-> where, op |-> o, pool |-> p, attempt |-> task[t].attempt, how |-> "none"]
<1>1. r \in Task /\ r.at = where /\ r.op = o /\ r.pool = p /\ r.attempt = task[t].attempt /\ r.how = "none"
    BY DEF Task, TypeOK
<1>2. task' = [task EXCEPT ![t] = r]
    BY DEF Become
<1> HIDE DEF r
<1> QED BY <1>1, <1>2 DEF TypeOK, Moves

LEMMA Rests ==
    ASSUME TypeOK, NEW t \in Tasks, NEW how \in {"none", "refused"},
           task' = [task EXCEPT ![t] = Idle(how)]
    PROVE  Moves(t, "idle", "none", 0, how)
<1>1. Idle(how) \in Task
    BY PoolsAssumption DEF Idle, Task
<1>2. /\ Idle(how).at = "idle" /\ Idle(how).op = "none" /\ Idle(how).pool = 0
      /\ Idle(how).attempt < Retries /\ Idle(how).how = how
    BY PoolsAssumption DEF Idle
<1> QED BY <1>1, <1>2 DEF TypeOK, Moves

LEMMA Uses ==
    ASSUME TypeOK, NEW t \in Tasks, Goto(t, "using")
    PROVE  Moves(t, "using", Op(t), Mine(t), task[t].how)
BY DEF Goto, TypeOK, Task, Moves, Op, Mine

LEMMA Releases ==
    ASSUME TypeOK, NEW t \in Tasks, NEW how \in {"ok", "failed", "cancelled"}, Ending(t, how)
    PROVE  Moves(t, "releasing", Op(t), Mine(t), how)
BY DEF Ending, TypeOK, Task, Moves, Op, Mine

LEMMA Sleeps ==
    ASSUME TypeOK, NEW t \in Tasks, MayRetry(t), Sleep(t)
    PROVE  Moves(t, "sleeping", Op(t), Mine(t), task[t].how)
<1>1. /\ task[t].attempt \in 0..Retries /\ task[t].attempt + 1 < Retries /\ Retries \in Nat
      /\ task[t] \in Task
    BY PoolsAssumption DEF TypeOK, Task, MayRetry
<1>2. task[t].attempt + 1 \in 0..Retries
    BY <1>1
<1> DEFINE r == [task[t] EXCEPT !.at = "sleeping", !.attempt = @ + 1]
<1>3. /\ r \in Task /\ r.at = "sleeping" /\ r.op = task[t].op /\ r.pool = task[t].pool
      /\ r.attempt = task[t].attempt + 1 /\ r.how = task[t].how
    BY <1>1, <1>2 DEF Task
<1>4. task' = [task EXCEPT ![t] = r]
    BY DEF Sleep
<1> HIDE DEF r
<1> QED BY <1>1, <1>3, <1>4 DEF TypeOK, Moves, Op, Mine

-----------------------------------------------------------------------------
(* What the moves do to each part of the invariant *)

(* The pools stay, or the missing one is made.                             *)
Kept == UNCHANGED <<current, made, open, shut, clash, demand, undead>>
Made(o) == current = 0 /\ Make(o) /\ UNCHANGED <<shut, undead>>

LEMMA PlacedKept ==
    ASSUME TypeOK, Placed, NEW t \in Tasks, NEW where, NEW o, NEW p, NEW how,
           Moves(t, where, o, p, how), kind' = kind,
           \/ holder' = holder /\ current' \in {current, 0}
           \/ \A u \in Tasks \ {t} : At(u) # "creating",
           where \in {"locking", "creating", "acquiring", "releasing"} => kind = "sql",
           where = "using" => kind = "sql" \/ (kind = "http" /\ o # "connect"),
           where = "sleeping" => kind = "http" /\ o = "query",
           where = "closing" => kind # "vector",
           where = "creating" => holder' = t /\ current' = 0,
           where = "idle" => p = 0,
           where \in {"acquiring", "using", "releasing", "closing"} => p # 0
    PROVE  Placed'
BY DEF Placed, Moves, At, Mine, Op

LEMMA OutlivedKept ==
    ASSUME TypeOK, Outlived, NEW t \in Tasks, NEW where, NEW o, NEW p, NEW how, NEW maker,
           Moves(t, where, o, p, how), kind' = kind,
           At(t) # "closing", where = "closing" => p = current /\ Kept,
           Kept \/ Made(maker)
    PROVE  Outlived'
<1>1. \A u \in Tasks : At(u) = "closing" => At(u)' = "closing" /\ Mine(u)' = Mine(u)
    BY DEF Moves, At, Mine
<1>2. \A u \in Tasks : At(u)' = "closing" => Mine(u)' = current \/ (At(u) = "closing" /\ Mine(u)' = Mine(u))
    BY DEF Moves, At, Mine
<1>3. CASE Kept
    BY <1>1, <1>2, <1>3 DEF Kept, Outlived
<1>4. CASE Made(maker)
    <2>1. /\ current = 0 /\ current' = made + 1 /\ open' = open \cup {made + 1} /\ undead' = undead
          /\ clash \subseteq clash' /\ (Closing => made + 1 \in clash')
        BY <1>4 DEF Made, Make, Closing
    <2>2. made + 1 \notin open \cup undead /\ 0 \notin open
        BY DEF TypeOK
    <2>3. where # "closing"
        BY <1>4, <2>1 DEF Kept, TypeOK
    <2>4. \A u \in Tasks : At(u)' = "closing" => At(u) = "closing" /\ Mine(u)' = Mine(u)
        BY <2>3 DEF Moves, At, Mine
    <2>5. \A u \in Tasks : At(u)' = "closing" => made + 1 \in clash'
        BY <2>1, <2>4 DEF Closing
    <2> QED BY <1>1, <2>1, <2>2, <2>4, <2>5 DEF Outlived
<1> QED BY <1>3, <1>4

LEMMA OwnedKept ==
    ASSUME TypeOK, Placed, Owned, NEW t \in Tasks, NEW where, NEW o, NEW p, NEW how,
           Moves(t, where, o, p, how),
           Kept,
           connected => connected' \/ current \in half' \cup {0},
           current \in half => current \in half' \/ connected',
           Op(t) = "connect" /\ Mine(t) = current =>
               (o = "connect" /\ p = current) \/ connected' \/ current \in half' \cup {0}
    PROVE  Owned'
<1>1. \A u \in Tasks : Op(u) = "connect" /\ Mine(u) = current =>
            (Op(u) = "connect" /\ Mine(u) = current)' \/ connected' \/ current \in half' \cup {0}
    BY DEF Moves, Op, Mine, Kept
<1>2. current \in open => current # 0
    BY DEF TypeOK
<1> QED BY <1>1, <1>2 DEF Owned, Kept

LEMMA OwnedMade ==
    ASSUME NEW t \in Tasks, NEW where, NEW o, NEW p, NEW how, NEW maker,
           Moves(t, where, o, p, how), Made(maker),
           maker = "connect" => connected' \/ current' \in half' \/ (o = "connect" /\ p = current')
    PROVE  Owned'
BY DEF Moves, Op, Mine, Made, Make, Owned

LEMMA WarnedKept ==
    ASSUME TypeOK, Warned, NEW t \in Tasks, NEW where, NEW o, NEW p, NEW how, NEW maker,
           Moves(t, where, o, p, how),
           Kept \/ Made(maker),
           At(t) # "closing", where # "closing",
           where = "acquiring" => p = current',
           where # "idle" => (Closing \/ current \in undead => t \in shaken'),
           \A u \in Tasks \ {t} : u \in shaken => u \in shaken'
    PROVE  Warned'
<1>1. \A u \in Tasks : (At(u) = "closing" <=> At(u)' = "closing") /\ (At(u) = "closing" => Mine(u)' = Mine(u))
    BY DEF Moves, At, Mine
<1>2. Closing' <=> Closing
    BY <1>1 DEF Closing
<1>3. /\ current' \in shut' => current' = current
      /\ current' \in undead' => current' = current
      /\ shut' = shut /\ undead' = undead
    BY DEF Kept, Made, Make, TypeOK
<1>4. (current \in shut => \/ current \in undead
                           \/ \E u \in Tasks : At(u) = "closing" /\ Mine(u) = current)'
    BY <1>1, <1>3 DEF Warned
<1>5. (Closing \/ current \in undead)' => Closing \/ current \in undead
    BY <1>2, <1>3
<1>6. (Closing \/ current \in undead)' => \A u \in Tasks : At(u)' \notin {"idle", "closing"} => u \in shaken'
    BY <1>5 DEF Warned, Moves, At
<1>7. \A u \in Tasks : At(u)' = "acquiring" /\ Mine(u)' \in shut' => u \in shaken'
    <2>1. current \in shut => Closing \/ current \in undead
        BY DEF Warned, Closing
    <2> QED BY <1>3, <2>1 DEF Warned, Moves, At, Mine
<1> QED BY <1>4, <1>6, <1>7 DEF Warned

LEMMA RefusedKept ==
    ASSUME TypeOK, RefusedOnlyByClose, NEW t \in Tasks, NEW where, NEW o, NEW p, NEW how,
           Moves(t, where, o, p, how), how = "refused" => t \in shaken',
           \A u \in Tasks \ {t} : u \in shaken => u \in shaken'
    PROVE  RefusedOnlyByClose'
BY DEF RefusedOnlyByClose, Moves

(* One call comes to use a connection or stops using one.                  *)
LEMMA BusyCounts ==
    ASSUME NEW t \in Tasks, NEW where, NEW o, NEW p, NEW how, Moves(t, where, o, p, how),
           IsFiniteSet(Busy)
    PROVE  /\ IsFiniteSet(Busy') /\ Cardinality(Busy) \in Nat /\ Cardinality(Busy') \in Nat
           /\ where \in {"using", "releasing"} /\ t \in Busy => Cardinality(Busy') = Cardinality(Busy)
           /\ where \notin {"using", "releasing"} /\ t \notin Busy => Cardinality(Busy') = Cardinality(Busy)
           /\ where \in {"using", "releasing"} /\ t \notin Busy => Cardinality(Busy') = Cardinality(Busy) + 1
           /\ where \notin {"using", "releasing"} /\ t \in Busy => Cardinality(Busy') = Cardinality(Busy) - 1
<1>1. Busy' = IF where \in {"using", "releasing"} THEN Busy \cup {t} ELSE Busy \ {t}
    BY DEF Busy, Moves, At
<1> DEFINE B == Busy
           C == Busy'
<1>2. IsFiniteSet(B) /\ C = IF where \in {"using", "releasing"} THEN B \cup {t} ELSE B \ {t}
    BY <1>1
<1> HIDE DEF B, C
<1>3. /\ IsFiniteSet(C) /\ Cardinality(B) \in Nat /\ Cardinality(C) \in Nat
      /\ where \in {"using", "releasing"} /\ t \in B => Cardinality(C) = Cardinality(B)
      /\ where \notin {"using", "releasing"} /\ t \notin B => Cardinality(C) = Cardinality(B)
      /\ where \in {"using", "releasing"} /\ t \notin B => Cardinality(C) = Cardinality(B) + 1
      /\ where \notin {"using", "releasing"} /\ t \in B => Cardinality(C) = Cardinality(B) - 1
    <2>1. CASE where \in {"using", "releasing"}
        BY <1>2, <2>1, FS_AddElement, FS_CardinalityType
    <2>2. CASE where \notin {"using", "releasing"}
        BY <1>2, <2>2, FS_RemoveElement, FS_CardinalityType
    <2> QED BY <2>1, <2>2
<1> QED BY <1>3 DEF B, C

LEMMA LooseKept ==
    ASSUME TypeOK, Placed, Loose, NEW t \in Tasks, NEW where, NEW o, NEW p, NEW how, NEW maker,
           Moves(t, where, o, p, how), kind' = kind, lost' = lost,
           Kept \/ Made(maker),
           p \in {0, Mine(t), current'},
           where \in {"using", "releasing"} =>
               p = current' \/ kind # "sql" \/ p \in clash \/ (t \in Busy /\ p = Mine(t)),
           \/ where \in {"using", "releasing"} /\ t \in Busy /\ active' = active /\ slipped' = slipped
           \/ where \notin {"using", "releasing"} /\ t \notin Busy /\ active' = active /\ slipped' = slipped
           \/ where \in {"using", "releasing"} /\ t \notin Busy /\ active' = active + 1 /\ slipped' = slipped
           \/ where \notin {"using", "releasing"} /\ t \in Busy /\ active' = active - 1 /\ slipped' = slipped
           \/ where \notin {"using", "releasing"} /\ t \in Busy /\ active' = active /\ slipped' = slipped + 1
    PROVE  Loose'
<1>1. clash \subseteq clash' /\ (current' = current \/ (current = 0 /\ current' = made + 1))
    BY DEF Kept, Made, Make, Closing
<1>2. kind' = "sql" => \A u \in Busy' : Mine(u)' # current' => Mine(u)' \in clash'
    <2>1. ASSUME kind = "sql", NEW u \in Tasks \ {t}, u \in Busy', Mine(u)' # current'
          PROVE  Mine(u)' \in clash'
        <3>1. u \in Busy /\ Mine(u)' = Mine(u)
            BY <2>1 DEF Busy, Moves, At, Mine
        <3>2. Mine(u) # 0
            BY <3>1 DEF Placed, Busy
        <3> QED BY <1>1, <2>1, <3>1, <3>2 DEF Loose
    <2>2. ASSUME kind = "sql", t \in Busy', Mine(t)' # current'
          PROVE  Mine(t)' \in clash'
        <3>1. Mine(t)' = p /\ where \in {"using", "releasing"}
            BY <2>2 DEF Busy, Moves, At, Mine
        <3>2. t \in Busy => Mine(t) # 0
            BY DEF Placed, Busy
        <3> QED BY <1>1, <2>2, <3>1, <3>2 DEF Loose
    <2> QED BY <2>1, <2>2 DEF Busy
<1>3. \A x \in lost' : x[1] # current' /\ x[1] \in clash'
    <2>1. \A x \in lost : x[1] \in 1..made
        BY DEF TypeOK
    <2>2. \A x \in lost : x[1] # made + 1
        BY <2>1 DEF TypeOK
    <2> QED BY <1>1, <2>2 DEF Loose
<1>4. \A u \in Tasks : <<Mine(u), u>>' \notin lost'
    <2>1. <<0, t>> \notin lost
        BY DEF TypeOK
    <2>2. <<current', t>> \notin lost
        BY <1>3
    <2>3. <<p, t>> \notin lost
        BY <2>1, <2>2 DEF Loose
    <2> QED BY <2>3 DEF Loose, Moves, Mine
<1>5. IsFiniteSet(Busy) /\ IsFiniteSet(lost) /\ Cardinality(lost) \in Nat
    BY FS_CardinalityType DEF Loose
<1>6. active' = slipped' + Cardinality(lost') + Cardinality(Busy')
    <2>1. active = slipped + Cardinality(lost) + Cardinality(Busy) /\ slipped \in Nat /\ active \in Nat
        BY DEF Loose, TypeOK
    <2> QED BY <1>5, <2>1, BusyCounts
<1> QED BY <1>2, <1>3, <1>4, <1>5, <1>6, BusyCounts DEF Loose

(* A call that begins is warned of a close under way, or of one that has   *)
(* failed; to one that goes on nothing is done.                            *)
Warns(t) ==
    \/ At(t) = "idle" /\ shaken' = IF Closing \/ current \in undead THEN shaken \cup {t} ELSE shaken \ {t}
    \/ At(t) # "idle" /\ shaken' = shaken

LEMMA WarnsWell ==
    ASSUME TypeOK, Warned, NEW t \in Tasks, Warns(t), At(t) # "closing"
    PROVE  /\ shaken' \subseteq Tasks
           /\ Closing \/ current \in undead => t \in shaken'
           /\ \A u \in Tasks \ {t} : u \in shaken => u \in shaken'
<1>1. CASE At(t) = "idle"
    <2>1. CASE Closing \/ current \in undead
        BY <1>1, <2>1 DEF Warns, TypeOK, Closing
    <2>2. CASE ~(Closing \/ current \in undead)
        BY <1>1, <2>2 DEF Warns, TypeOK, Closing
    <2> QED BY <2>1, <2>2
<1>2. CASE At(t) # "idle"
    BY <1>2 DEF Warns, Warned, TypeOK
<1> QED BY <1>1, <1>2

(* The calls that use a connection, and the count of the connections.      *)
Counts(t, where) ==
    \/ where \in {"using", "releasing"} /\ t \in Busy /\ active' = active /\ slipped' = slipped
    \/ where \notin {"using", "releasing"} /\ t \notin Busy /\ active' = active /\ slipped' = slipped
    \/ where \in {"using", "releasing"} /\ t \notin Busy /\ active' = active + 1 /\ slipped' = slipped
    \/ where \notin {"using", "releasing"} /\ t \in Busy /\ active' = active - 1 /\ slipped' = slipped
    \/ where \notin {"using", "releasing"} /\ t \in Busy /\ active' = active /\ slipped' = slipped + 1

Suits(t, where, o, p) ==
    /\ At(t) # "closing" /\ where # "closing"
    /\ \/ holder' = holder /\ current' \in {current, 0}
       \/ \A u \in Tasks \ {t} : At(u) # "creating"
    /\ where \in {"locking", "creating", "acquiring", "releasing"} => kind = "sql"
    /\ where = "using" => kind = "sql" \/ (kind = "http" /\ o # "connect")
    /\ where = "sleeping" => kind = "http" /\ o = "query"
    /\ where = "creating" => holder' = t /\ current' = 0
    /\ where = "acquiring" => p = current'
    /\ where = "idle" => p = 0
    /\ where \in {"acquiring", "using", "releasing"} => p # 0
    /\ p \in {0, Mine(t), current'}
    /\ where \in {"using", "releasing"} =>
           p = current' \/ kind # "sql" \/ p \in clash \/ (t \in Busy /\ p = Mine(t))
    /\ holder' \in Tasks \cup {NoTask} /\ kind' = kind /\ lost' = lost /\ connected' \in BOOLEAN

LEMMA ActiveIsNat == ASSUME Loose', slipped' \in Nat PROVE active' \in Nat
<1>1. Cardinality(lost') \in Nat /\ Cardinality(Busy') \in Nat
    BY FS_CardinalityType DEF Loose
<1> QED BY <1>1 DEF Loose

(* A step that leaves the pools as they are.                               *)
LEMMA StepKept ==
    ASSUME IInv, NEW t \in Tasks, NEW where, NEW o, NEW p, NEW how,
           Moves(t, where, o, p, how), Kept, Suits(t, where, o, p), Warns(t), Counts(t, where),
           how = "refused" => t \in shaken',
           half' \subseteq half \cup ({current} \ {0}),
           connected => connected' \/ current \in half' \cup {0},
           current \in half => current \in half' \/ connected',
           Op(t) = "connect" /\ Mine(t) = current =>
               (o = "connect" /\ p = current) \/ connected' \/ current \in half' \cup {0}
    PROVE  IInv'
<1> USE DEF IInv
<1>1. /\ shaken' \subseteq Tasks /\ (Closing \/ current \in undead => t \in shaken')
      /\ \A u \in Tasks \ {t} : u \in shaken => u \in shaken'
    BY WarnsWell DEF Suits
<1>2. Placed'
    BY PlacedKept DEF Suits
<1>3. Outlived'
    BY OutlivedKept DEF Suits
<1>4. Owned'
    BY OwnedKept
<1>5. Warned'
    BY <1>1, WarnedKept DEF Suits
<1>6. RefusedOnlyByClose'
    BY <1>1, RefusedKept
<1>7. Loose'
    BY LooseKept DEF Suits, Counts
<1>8. slipped' \in Nat
    BY DEF TypeOK, Counts
<1>9. active' \in Nat
    BY <1>7, <1>8, ActiveIsNat
<1>10. TypeOK'
    <2>1. \A u \in Tasks : task'[u].attempt < Retries /\ task'[u].pool <= made'
        BY DEF TypeOK, Moves, Kept, Suits, Mine
    <2> QED BY <1>1, <1>8, <1>9, <2>1 DEF TypeOK, Moves, Kept, Suits
<1> QED BY <1>2, <1>3, <1>4, <1>5, <1>6, <1>7, <1>10

(* A step that makes the missing pool.                                     *)
LEMMA StepMade ==
    ASSUME IInv, NEW t \in Tasks, NEW where, NEW o, NEW p, NEW how, NEW maker,
           Moves(t, where, o, p, how), Made(maker), Suits(t, where, o, p), Warns(t), Counts(t, where),
           how = "refused" => t \in shaken',
           half' \subseteq half \cup {current'},
           maker = "connect" => connected' \/ current' \in half' \/ (o = "connect" /\ p = current')
    PROVE  IInv'
<1> USE DEF IInv
<1>1. /\ shaken' \subseteq Tasks /\ (Closing \/ current \in undead => t \in shaken')
      /\ \A u \in Tasks \ {t} : u \in shaken => u \in shaken'
    BY WarnsWell DEF Suits
<1>2. Placed'
    BY PlacedKept DEF Suits
<1>3. Outlived'
    BY OutlivedKept DEF Suits
<1>4. Owned'
    BY OwnedMade
<1>5. Warned'
    BY <1>1, WarnedKept DEF Suits
<1>6. RefusedOnlyByClose'
    BY <1>1, RefusedKept
<1>7. Loose'
    BY LooseKept DEF Suits, Counts
<1>8. slipped' \in Nat
    BY DEF TypeOK, Counts
<1>9. active' \in Nat
    BY <1>7, <1>8, ActiveIsNat
<1>10. TypeOK'
    <2>1. /\ made' = made + 1 /\ current' = made + 1 /\ open' = open \cup {made + 1} /\ shut' = shut
          /\ clash' \subseteq clash \cup {made + 1} /\ demand' \subseteq demand \cup {made + 1}
          /\ undead' = undead
        BY DEF Made, Make, Closing
    <2>2. \A u \in Tasks : task'[u].attempt < Retries /\ task'[u].pool <= made'
        BY <2>1 DEF TypeOK, Moves, Suits, Mine, Task
    <2>3. 1..made' = 1..made \cup {made + 1} /\ made' \in Nat /\ current' \in 0..made'
        BY <2>1 DEF TypeOK
    <2>4. (1..made) \X Tasks \subseteq (1..made') \X Tasks
        BY <2>3
    <2>5. /\ open' \subseteq 1..made' /\ shut' \subseteq 1..made' /\ lost' \subseteq (1..made') \X Tasks
          /\ clash' \subseteq 1..made' /\ demand' \subseteq 1..made' /\ half' \subseteq 1..made'
          /\ undead' \subseteq 1..made'
        BY <2>1, <2>3, <2>4 DEF TypeOK, Suits
    <2> QED BY <1>1, <1>8, <1>9, <2>2, <2>3, <2>5 DEF TypeOK, Moves, Suits
<1> QED BY <1>2, <1>3, <1>4, <1>5, <1>6, <1>7, <1>10

-----------------------------------------------------------------------------
(* HTTPSessionManager and TavilyRetriever *)

LEMMA BeginWarns ==
    ASSUME NEW t \in Tasks, Begin(t)
    PROVE  At(t) = "idle" /\ Warns(t)
BY DEF Begin, Warns, Closing

(* A call at rest, or asleep, works on no pool of its own.                 *)
LEMMA Resting ==
    ASSUME IInv, NEW t \in Tasks, At(t) = "idle"
    PROVE  Mine(t) = 0 /\ t \notin Busy
BY DEF IInv, Placed, Busy

LEMMA EnterKeeps ==
    ASSUME IInv, NEW t \in Tasks, NEW o \in {"query", "health"}, EnterSession(t, o),
           Warns(t), kind = "http", At(t) \in {"idle", "sleeping"},
           UNCHANGED <<retriever, shut, holder, lost, half, undead, slipped>>
    PROVE  IInv'
<1>1. /\ \A u \in Tasks : At(u) # "creating"
      /\ holder \in Tasks \cup {NoTask} /\ t \notin Busy /\ connected' \in BOOLEAN
      /\ Op(t) = "connect" => Mine(t) = 0
    BY DEF IInv, Placed, TypeOK, Busy, retriever
<1>2. Kept \/ Made(o)
    BY DEF EnterSession, Keep, Kept, Made
<1>3. /\ current' \in Nat /\ current' # 0 /\ shut' = shut
      /\ Kept => current # 0
    BY DEF EnterSession, Keep, Make, Kept, IInv, TypeOK
<1>4. CASE current' \in shut
    <2>1. Refused(t) /\ active' = active
        BY <1>4 DEF EnterSession
    <2>2. Moves(t, "idle", "none", 0, "refused")
        BY <2>1, Rests DEF Refused, IInv
    <2>3. Suits(t, "idle", "none", 0) /\ Counts(t, "idle")
        BY <1>1, <2>1 DEF Suits, Counts, retriever
    <2>4. Kept
        BY <1>2, <1>4 DEF Made, Make, IInv, TypeOK
    <2>5. t \in shaken'
        BY <1>4, <2>4, WarnsWell DEF Kept, IInv, Warned, Closing
    <2> QED BY <1>1, <1>3, <2>2, <2>3, <2>4, <2>5, StepKept DEF retriever
<1>5. CASE current' \notin shut
    <2>1. Become(t, "using", o, current') /\ active' = active + 1
        BY <1>5 DEF EnterSession
    <2>2. Moves(t, "using", o, current', "none")
        BY <1>3, <2>1, Becomes DEF IInv, Calls
    <2>3. Suits(t, "using", o, current') /\ Counts(t, "using")
        BY <1>1, <1>3, <2>1 DEF Suits, Counts, retriever
    <2>4. CASE Kept
        BY <1>1, <1>3, <2>2, <2>3, <2>4, StepKept DEF retriever
    <2>5. CASE Made(o)
        <3> QED BY <1>1, <2>2, <2>3, <2>5, StepMade DEF retriever
    <2> QED BY <1>2, <2>4, <2>5
<1> QED BY <1>4, <1>5

LEMMA HttpConnectKeeps == ASSUME IInv, NEW t \in Tasks, HttpConnect(t) PROVE IInv'
<1>1. Warns(t) /\ At(t) = "idle" /\ Mine(t) = 0 /\ t \notin Busy
    BY BeginWarns, Resting DEF HttpConnect
<1>2. Moves(t, "idle", "none", 0, "none")
    BY Rests DEF HttpConnect, Return, IInv
<1>3. Suits(t, "idle", "none", 0) /\ Counts(t, "idle")
    BY <1>1 DEF HttpConnect, Suits, Counts, IInv, Placed, TypeOK
<1>4. connected' = TRUE /\ half' \subseteq half
    BY DEF HttpConnect
<1>5. CASE current = 0
    <2>1. Made("connect")
        BY <1>5 DEF HttpConnect, Made
    <2> QED BY <1>1, <1>2, <1>3, <1>4, <2>1, StepMade
<1>6. CASE current # 0
    <2>1. Kept
        BY <1>6 DEF HttpConnect, Keep, Kept
    <2> QED BY <1>1, <1>2, <1>3, <1>4, <2>1, StepKept
<1> QED BY <1>5, <1>6

LEMMA HttpBeginsKeep == ASSUME IInv, NEW t \in Tasks, HttpQuery(t) \/ HttpHealth(t) PROVE IInv'
<1>1. PICK o \in {"query", "health"} : HttpBegin(t, o)
    BY DEF HttpQuery, HttpHealth
<1>2. Warns(t) /\ At(t) = "idle" /\ Mine(t) = 0
    BY <1>1, BeginWarns, Resting DEF HttpBegin
<1> QED BY <1>1, <1>2, EnterKeeps DEF HttpBegin

LEMMA HttpDoneKeeps == ASSUME IInv, NEW t \in Tasks, HttpDone(t) PROVE IInv'
<1>1. /\ t \in Busy /\ At(t) = "using" /\ Op(t) # "connect" /\ kind = "http" /\ Warns(t) /\ Kept
      /\ connected \in BOOLEAN /\ holder \in Tasks \cup {NoTask} /\ half' = half /\ connected' = connected
    BY DEF HttpDone, IInv, Placed, Busy, Warns, TypeOK, Kept, retriever, pool, history
<1>2. CASE Return(t)
    <2>1. Moves(t, "idle", "none", 0, "none")
        BY <1>2, Rests DEF Return, IInv
    <2>2. Suits(t, "idle", "none", 0) /\ Counts(t, "idle")
        BY <1>1 DEF HttpDone, Suits, Counts, retriever, pool, history
    <2> QED BY <1>1, <2>1, <2>2, StepKept
<1>3. CASE MayRetry(t) /\ Sleep(t)
    <2>1. Moves(t, "sleeping", Op(t), Mine(t), task[t].how) /\ Op(t) = "query"
        BY <1>3, Sleeps DEF IInv, MayRetry
    <2>2. Suits(t, "sleeping", Op(t), Mine(t)) /\ Counts(t, "sleeping")
        BY <1>1, <2>1 DEF HttpDone, Suits, Counts, retriever, pool, history
    <2>3. task[t].how = "refused" => t \in shaken'
        BY DEF HttpDone, IInv, RefusedOnlyByClose
    <2> QED BY <1>1, <2>1, <2>2, <2>3, StepKept
<1> QED BY <1>2, <1>3 DEF HttpDone

LEMMA WakeKeeps == ASSUME IInv, NEW t \in Tasks, Wake(t) PROVE IInv'
<1>1. At(t) = "sleeping" /\ kind = "http" /\ Warns(t)
    BY DEF Wake, Warns, IInv, Placed
<1> QED BY <1>1, EnterKeeps DEF Wake

-----------------------------------------------------------------------------
(* PostgreSQLPoolManager and PostgresRetriever *)

LEMMA WaitsKeep ==
    ASSUME IInv, NEW t \in Tasks, NEW o, NEW p \in Nat, NEW where \in {"locking", "creating", "acquiring"},
           Moves(t, where, o, p, "none"), Kept, Warns(t), kind = "sql",
           At(t) \in {"idle", "locking"}, At(t) = "locking" => o = Op(t),
           where = "acquiring" => p = current /\ current # 0,
           where = "locking" => At(t) = "idle",
           \/ where # "creating" /\ holder' = holder
           \/ where = "creating" /\ holder' = t /\ holder = NoTask /\ current = 0,
           p \in {0, current},
           UNCHANGED <<retriever, lost, active, half, slipped>>
    PROVE  IInv'
<1>1. /\ t \notin Busy
      /\ At(t) = "idle" => Mine(t) = 0
      /\ holder = NoTask => \A u \in Tasks : At(u) # "creating"
      /\ holder \in Tasks \cup {NoTask} /\ connected \in BOOLEAN /\ connected' = connected
    BY PoolsAssumption DEF IInv, Placed, TypeOK, Busy, retriever
<1>2. Suits(t, where, o, p) /\ Counts(t, where)
    BY <1>1 DEF Suits, Counts, Kept, retriever
<1>3. Op(t) = "connect" /\ Mine(t) = current => (o = "connect" /\ p = current) \/ current \in half' \cup {0}
    BY <1>1
<1> QED BY <1>1, <1>2, <1>3, StepKept

LEMMA LockedKeeps ==
    ASSUME IInv, NEW t \in Tasks, NEW o \in Calls \cup {"none"}, Locked(t, o), Kept, Warns(t),
           kind = "sql", holder = NoTask, At(t) \in {"idle", "locking"}, At(t) = "locking" => o = Op(t),
           UNCHANGED <<retriever, lost, active, half, slipped>>
    PROVE  IInv'
<1>1. current \in Nat /\ 0 \in Nat
    BY DEF IInv, TypeOK
<1>2. CASE current # 0
    <2>1. Moves(t, "acquiring", o, current, "none")
        BY <1>1, <1>2, Becomes DEF Locked, IInv
    <2> QED BY <1>1, <1>2, <2>1, WaitsKeep DEF Locked
<1>3. CASE current = 0
    <2>1. Moves(t, "creating", o, 0, "none")
        BY <1>1, <1>3, Becomes DEF Locked, IInv
    <2> QED BY <1>1, <1>3, <2>1, WaitsKeep DEF Locked
<1> QED BY <1>2, <1>3

LEMMA InitializeKeeps ==
    ASSUME IInv, NEW t \in Tasks, NEW o \in {"connect", "query", "transaction"}, Initialize(t, o), Kept, Warns(t),
           kind = "sql", At(t) = "idle",
           UNCHANGED <<retriever, lost, active, half, slipped>>
    PROVE  IInv'
<1>1. o \in Calls
    BY DEF Calls
<1>2. CASE LockIsFree
    BY <1>1, <1>2, LockedKeeps DEF Initialize, LockIsFree
<1>3. CASE ~LockIsFree
    <2>1. Become(t, "locking", o, 0) /\ UNCHANGED holder
        BY <1>3 DEF Initialize
    <2>2. Moves(t, "locking", o, 0, "none")
        BY <1>1, <2>1, Becomes DEF IInv
    <2> QED BY <2>1, <2>2, WaitsKeep
<1> QED BY <1>2, <1>3

LEMMA SqlConnectKeeps == ASSUME IInv, NEW t \in Tasks, SqlConnect(t) PROVE IInv'
<1>1. Warns(t) /\ At(t) = "idle" /\ Kept
    BY BeginWarns DEF SqlConnect, Kept, history
<1> QED BY <1>1, InitializeKeeps DEF SqlConnect, history

(* A call that finds a pool waits for one of its connections.              *)
LEMMA FoundKeeps ==
    ASSUME IInv, NEW t \in Tasks, NEW o \in {"query", "transaction", "health"}, Become(t, "acquiring", o, current),
           current # 0, Kept, Warns(t), kind = "sql", At(t) = "idle",
           UNCHANGED <<retriever, holder, lost, active, half, slipped>>
    PROVE  IInv'
<1>1. Moves(t, "acquiring", o, current, "none") /\ current \in Nat
    BY Becomes DEF IInv, TypeOK, Calls
<1> QED BY <1>1, WaitsKeep

LEMMA SqlQueryKeeps == ASSUME IInv, NEW t \in Tasks, SqlQuery(t) PROVE IInv'
<1>1. Warns(t) /\ At(t) = "idle" /\ Kept
    BY BeginWarns DEF SqlQuery, Kept, history
<1>2. PICK o \in {"query", "transaction"} :
         IF current # 0 THEN Become(t, "acquiring", o, current) /\ UNCHANGED holder
                        ELSE Initialize(t, o)
    BY DEF SqlQuery
<1>3. kind = "sql" /\ UNCHANGED <<retriever, lost, active, half, slipped>>
    BY DEF SqlQuery, history
<1>4. CASE current # 0
    BY <1>1, <1>2, <1>3, <1>4, FoundKeeps
<1>5. CASE current = 0
    BY <1>1, <1>2, <1>3, <1>5, InitializeKeeps
<1> QED BY <1>4, <1>5

LEMMA SqlHealthKeeps == ASSUME IInv, NEW t \in Tasks, SqlHealth(t) PROVE IInv'
<1>1. Warns(t) /\ At(t) = "idle" /\ Kept /\ Mine(t) = 0 /\ t \notin Busy
    BY BeginWarns, Resting DEF SqlHealth, Kept, history, pool
<1>2. CASE current # 0
    BY <1>1, <1>2, FoundKeeps DEF SqlHealth, history, pool
<1>3. CASE current = 0
    <2>1. Moves(t, "idle", "none", 0, "none")
        BY <1>3, Rests DEF SqlHealth, Return, IInv
    <2>2. Suits(t, "idle", "none", 0) /\ Counts(t, "idle")
        BY <1>1 DEF SqlHealth, Suits, Counts, retriever, pool, history, IInv, TypeOK
    <2> QED BY <1>1, <1>3, <2>1, <2>2, StepKept DEF SqlHealth, retriever, history
<1> QED BY <1>2, <1>3

LEMMA LockKeeps == ASSUME IInv, NEW t \in Tasks, Lock(t) PROVE IInv'
<1>1. kind = "sql" /\ Warns(t) /\ Kept /\ Op(t) \in Calls \cup {"none"}
    BY DEF Lock, IInv, Placed, Warns, Kept, history, Op, TypeOK, Task
<1> QED BY <1>1, LockedKeeps DEF Lock, history

(* What a call that gives up leaves: no pool that nobody owns.             *)
Leaves(t) == HalfOpen(t) /\ (connected' = connected \/ Disconnected(t))

LEMMA LeavesWell ==
    ASSUME IInv, NEW t \in Tasks, Leaves(t)
    PROVE  /\ half' \subseteq half \cup ({current} \ {0})
           /\ connected => connected' \/ current \in half' \cup {0}
           /\ current \in half => current \in half'
           /\ Op(t) = "connect" => current \in half' \cup {0}
           /\ connected' \in BOOLEAN
<1>1. connected' \in BOOLEAN
    BY DEF Leaves, Disconnected, IInv, TypeOK
<1>2. connected => connected' \/ Op(t) = "connect"
    BY DEF Leaves, Disconnected
<1>3. half' = IF Op(t) = "connect" /\ current # 0 THEN half \cup {current} ELSE half
    BY DEF Leaves, HalfOpen
<1> QED BY <1>1, <1>2, <1>3

LEMMA CreatedKeeps == ASSUME IInv, NEW t \in Tasks, Created(t) PROVE IInv'
<1>1. /\ kind = "sql" /\ current = 0 /\ Warns(t) /\ t \notin Busy
      /\ \A u \in Tasks \ {t} : At(u) # "creating"
      /\ connected \in BOOLEAN /\ Op(t) \in Calls \cup {"none"} /\ made + 1 \in Nat
    BY DEF Created, IInv, Placed, Warns, Busy, TypeOK, Op, Task
<1>2. CASE Make(Op(t)) /\ Become(t, "acquiring", Op(t), made + 1) /\ UNCHANGED connected
    <2>1. Moves(t, "acquiring", Op(t), made + 1, "none")
        BY <1>1, <1>2, Becomes DEF IInv
    <2>2. Made(Op(t)) /\ current' = made + 1
        BY <1>1, <1>2 DEF Made, Make, Created
    <2>3. Suits(t, "acquiring", Op(t), made + 1) /\ Counts(t, "acquiring")
        BY <1>1, <1>2, <2>2 DEF Created, Suits, Counts, IInv, TypeOK
    <2> QED BY <1>1, <1>2, <2>1, <2>2, <2>3, StepMade DEF Created
<1>3. CASE Return(t) /\ Disconnected(t) /\ Keep
    <2>1. Moves(t, "idle", "none", 0, "none")
        BY <1>3, Rests DEF Return, IInv
    <2>2. Kept /\ connected' \in BOOLEAN
        BY <1>1, <1>3 DEF Created, Keep, Kept, Disconnected
    <2>3. Suits(t, "idle", "none", 0) /\ Counts(t, "idle")
        BY <1>1, <2>2 DEF Created, Suits, Counts
    <2> QED BY <1>1, <2>1, <2>2, <2>3, StepKept DEF Created
<1> QED BY <1>2, <1>3 DEF Created

LEMMA AcquireKeeps == ASSUME IInv, NEW t \in Tasks, Acquire(t) PROVE IInv'
<1>1. /\ kind = "sql" /\ Warns(t) /\ Kept /\ t \notin Busy /\ Mine(t) # 0
      /\ connected \in BOOLEAN /\ holder \in Tasks \cup {NoTask}
      /\ connected' = connected /\ half' = half
    BY DEF Acquire, IInv, Placed, Warns, Kept, Busy, TypeOK, retriever, pool, history
<1>2. Mine(t) = current \/ Mine(t) \in clash
    BY <1>1 DEF Acquire, IInv, Outlived
<1>3. Moves(t, "using", Op(t), Mine(t), task[t].how)
    BY Uses DEF Acquire, IInv
<1>4. Suits(t, "using", Op(t), Mine(t)) /\ Counts(t, "using")
    BY <1>1, <1>2 DEF Acquire, Suits, Counts, Kept, retriever, pool, history
<1>5. task[t].how = "refused" => t \in shaken'
    BY DEF Acquire, IInv, RefusedOnlyByClose
<1> QED BY <1>1, <1>3, <1>4, <1>5, StepKept

(* A call gives up where it stands.                                        *)
LEMMA GivesUp ==
    ASSUME IInv, NEW t \in Tasks, NEW how \in {"none", "refused"},
           task' = [task EXCEPT ![t] = Idle(how)], how = "refused" => t \in shaken',
           Kept, Warns(t), Counts(t, "idle"), Leaves(t), At(t) # "closing",
           UNCHANGED <<kind, holder, lost>>
    PROVE  IInv'
<1>1. Moves(t, "idle", "none", 0, how)
    BY Rests DEF IInv
<1>2. holder \in Tasks \cup {NoTask}
    BY DEF IInv, TypeOK
<1>3. Suits(t, "idle", "none", 0)
    BY <1>2, LeavesWell DEF Suits, Kept
<1> QED BY <1>1, <1>3, LeavesWell, StepKept

LEMMA AcquireFailsKeeps == ASSUME IInv, NEW t \in Tasks, AcquireFails(t) PROVE IInv'
<1>1. Warns(t) /\ Kept /\ Counts(t, "idle") /\ Leaves(t) /\ UNCHANGED <<kind, holder, lost>>
    BY DEF AcquireFails, Warns, Kept, Counts, Leaves, Busy, pool
<1>2. Mine(t) \in shut => t \in shaken'
    BY DEF AcquireFails, IInv, Warned
<1> QED BY <1>1, <1>2, GivesUp DEF AcquireFails, Refused, Return

LEMMA ReleasedKeeps == ASSUME IInv, NEW t \in Tasks, Released(t) PROVE IInv'
<1>1. /\ kind = "sql" /\ Warns(t) /\ Kept /\ t \in Busy /\ UNCHANGED <<kind, holder, lost>>
      /\ Counts(t, "idle") /\ Counts(t, "acquiring")
      /\ holder \in Tasks \cup {NoTask} /\ current \in Nat
    BY DEF Released, IInv, Placed, Warns, Kept, Counts, Busy, TypeOK, pool
<1>2. CASE Op(t) = "connect" /\ task[t].how = "ok"
    <2>1. connected' = TRUE /\ half' = half \ {current}
        BY <1>2 DEF Released
    <2>2. CASE current # 0
        <3>1. Moves(t, "acquiring", "health", current, "none")
            BY <1>1, <1>2, <2>2, Becomes DEF Released, IInv, Calls
        <3>2. Suits(t, "acquiring", "health", current)
            BY <1>1, <2>1, <2>2 DEF Suits, Kept, Released
        <3> QED BY <1>1, <2>1, <3>1, <3>2, StepKept
    <2>3. CASE current = 0
        <3>1. Moves(t, "idle", "none", 0, "none")
            BY <1>2, <2>3, Rests DEF Released, Return, IInv
        <3>2. Suits(t, "idle", "none", 0)
            BY <1>1, <2>1 DEF Suits, Kept, Released
        <3> QED BY <1>1, <2>1, <2>3, <3>1, <3>2, StepKept
    <2> QED BY <2>2, <2>3
<1>3. CASE ~(Op(t) = "connect" /\ task[t].how = "ok")
    <2>1. Return(t) /\ Leaves(t)
        BY <1>3 DEF Released, Leaves
    <2> QED BY <1>1, <2>1, GivesUp DEF Return, Released
<1> QED BY <1>2, <1>3

LEMMA SlipKeeps ==
    ASSUME IInv, NEW t \in Tasks, Slip(t), connected' = connected \/ Disconnected(t)
    PROVE  IInv'
<1>1. /\ Warns(t) /\ Kept /\ Counts(t, "idle") /\ Leaves(t) /\ UNCHANGED <<kind, holder, lost>>
    BY DEF Slip, Warns, Kept, Counts, Leaves, Busy, pool
<1> QED BY <1>1, GivesUp DEF Slip, Return

(* The statement ends and its pool is not the current one any more: the    *)
(* connection is never given back.                                         *)
LEMMA LostKeeps ==
    ASSUME IInv, NEW t \in Tasks, Return(t), lost' = lost \cup {<<Mine(t), t>>},
           kind = "sql", At(t) = "using", current # Mine(t), Leaves(t),
           UNCHANGED <<kind, current, made, open, shut, holder, active, shaken, clash, demand, undead, slipped>>
    PROVE  IInv'
<1> USE DEF IInv
<1>1. Moves(t, "idle", "none", 0, "none")
    BY Rests DEF Return
<1>2. /\ Kept /\ t \in Busy /\ Mine(t) \in clash /\ Mine(t) \in 1..made /\ kind' = kind
    <2>1. Mine(t) \in clash
        BY DEF Loose, Busy
    <2> QED BY <2>1 DEF Kept, Busy, TypeOK
<1>3. Placed'
    BY <1>1, PlacedKept
<1>4. Outlived'
    BY <1>1, <1>2, OutlivedKept
<1>5. Owned'
    BY <1>1, <1>2, LeavesWell, OwnedKept
<1>6. Warned'
    BY <1>1, <1>2, WarnedKept
<1>7. RefusedOnlyByClose'
    BY <1>1, RefusedKept
<1>8. <<Mine(t), t>> \notin lost /\ IsFiniteSet(lost) /\ IsFiniteSet(Busy)
    BY DEF Loose
<1>9. /\ IsFiniteSet(Busy') /\ Cardinality(Busy') = Cardinality(Busy) - 1
      /\ Cardinality(Busy) \in Nat /\ Cardinality(Busy') \in Nat
    BY <1>1, <1>2, <1>8, BusyCounts
<1>10. IsFiniteSet(lost') /\ Cardinality(lost') = Cardinality(lost) + 1 /\ Cardinality(lost) \in Nat
    BY <1>8, FS_AddElement, FS_CardinalityType
<1>11. active' = slipped' + Cardinality(lost') + Cardinality(Busy')
    BY <1>9, <1>10 DEF Loose, TypeOK
<1>12. kind' = "sql" => \A u \in Busy' : Mine(u)' # current' => Mine(u)' \in clash'
    BY <1>1, <1>2 DEF Loose, Busy, Moves, At, Mine
<1>13. \A x \in lost' : x[1] # current' /\ x[1] \in clash'
    BY <1>2 DEF Loose
<1>14. \A u \in Tasks : <<Mine(u), u>>' \notin lost'
    <2>1. \A u \in Tasks \ {t} : Mine(u)' = Mine(u) /\ <<Mine(u), u>> \notin lost'
        BY <1>1 DEF Moves, Mine, Loose
    <2>2. Mine(t)' = 0 /\ <<0, t>> \notin lost'
        BY <1>1, <1>2 DEF Moves, Mine, TypeOK
    <2> QED BY <2>1, <2>2
<1>15. Loose'
    BY <1>9, <1>10, <1>11, <1>12, <1>13, <1>14 DEF Loose
<1>16. TypeOK'
    <2>1. lost' \subseteq (1..made') \X Tasks
        BY <1>2 DEF TypeOK
    <2>2. half' \subseteq 1..made' /\ connected' \in BOOLEAN
        <3>1. {current} \ {0} \subseteq 1..made /\ half \subseteq 1..made /\ made' = made
            BY DEF TypeOK
        <3>2. half' \subseteq half \cup ({current} \ {0}) /\ connected' \in BOOLEAN
            BY LeavesWell
        <3> QED BY <3>1, <3>2
    <2>3. \A u \in Tasks : task'[u].attempt < Retries /\ task'[u].pool <= made'
        BY <1>1 DEF TypeOK, Moves
    <2> QED BY <1>1, <2>1, <2>2, <2>3 DEF TypeOK, Moves
<1> QED BY <1>3, <1>4, <1>5, <1>6, <1>7, <1>15, <1>16

LEMMA FinallyKeeps ==
    ASSUME IInv, NEW t \in Tasks, NEW how \in {"ok", "failed", "cancelled"}, Finally(t, how),
           kind = "sql", At(t) = "using",
           UNCHANGED <<kind, current, made, open, shut, holder, active, shaken, clash, demand, undead, slipped>>
    PROVE  IInv'
<1>1. CASE current = Mine(t)
    <2>1. /\ Moves(t, "releasing", Op(t), Mine(t), how) /\ UNCHANGED <<connected, lost, half>>
        BY <1>1, Releases DEF Finally, IInv
    <2>2. /\ Kept /\ Warns(t) /\ t \in Busy /\ Mine(t) # 0 /\ holder \in Tasks \cup {NoTask}
          /\ connected \in BOOLEAN
        BY DEF Kept, Warns, Busy, IInv, Placed, TypeOK
    <2>3. Suits(t, "releasing", Op(t), Mine(t)) /\ Counts(t, "releasing")
        BY <2>1, <2>2 DEF Suits, Counts
    <2> QED BY <2>1, <2>2, <2>3, StepKept
<1>2. CASE current # Mine(t)
    <2>1. Return(t) /\ lost' = lost \cup {<<Mine(t), t>>} /\ Leaves(t)
        BY <1>2 DEF Finally, Leaves
    <2> QED BY <1>2, <2>1, LostKeeps
<1> QED BY <1>1, <1>2

LEMMA SqlDoneKeeps == ASSUME IInv, NEW t \in Tasks, SqlDone(t) PROVE IInv'
BY FinallyKeeps DEF SqlDone

-----------------------------------------------------------------------------
(* QdrantClientManager and QdrantRetriever: a call is over in one step.    *)

LEMMA Blocking ==
    ASSUME IInv, NEW t \in Tasks, Vector(t)
    PROVE  /\ kind = "vector" /\ \A u \in Tasks : At(u) = "idle"
           /\ Moves(t, "idle", "none", 0, "none")
           /\ Warns(t) /\ Counts(t, "idle") /\ Mine(t) = 0
<1>1. /\ kind = "vector" /\ At(t) = "idle" /\ Warns(t)
    BY BeginWarns DEF Vector
<1>2. \A u \in Tasks : At(u) = "idle"
    BY <1>1 DEF IInv, Placed, TypeOK, Task, At
<1>3. Moves(t, "idle", "none", 0, "none")
    BY Rests DEF Vector, Return, IInv
<1>4. Counts(t, "idle") /\ Mine(t) = 0
    BY <1>1, Resting DEF Vector, Counts
<1> QED BY <1>1, <1>2, <1>3, <1>4

LEMMA BlockingSuits ==
    ASSUME IInv, NEW t \in Tasks, Vector(t), connected' \in BOOLEAN
    PROVE  Suits(t, "idle", "none", 0)
BY Blocking DEF Suits, Vector, IInv, TypeOK

LEMMA VectorConnectKeeps == ASSUME IInv, NEW t \in Tasks, VectorConnect(t) PROVE IInv'
<1>1. /\ Vector(t) /\ Warns(t) /\ Counts(t, "idle") /\ Moves(t, "idle", "none", 0, "none") /\ Mine(t) = 0
      /\ UNCHANGED <<shut, undead>> /\ current \in Nat
    BY Blocking DEF VectorConnect, Vector, IInv, TypeOK
<1>2. connected' \in BOOLEAN /\ Suits(t, "idle", "none", 0)
    BY <1>1, BlockingSuits DEF VectorConnect
<1>3. CASE Keep
    <2>1. Kept
        BY <1>1, <1>3 DEF Keep, Kept
    <2>2. /\ half' \subseteq half \cup ({current} \ {0})
          /\ connected => connected' \/ current \in half' \cup {0}
          /\ current \in half => current \in half' \/ connected'
          /\ Mine(t) = current => current \in half' \cup {0}
        <3>1. current' = current /\ (current = 0 => made' # made + 1)
            BY <1>3 DEF Keep, IInv, TypeOK
        <3>2. \/ connected' = TRUE /\ half' = half \ {current} /\ current # 0
              \/ connected' = FALSE /\ half' = half \cup {current} /\ current # 0
              \/ connected' = FALSE /\ half' = half /\ current = 0
            BY <3>1 DEF VectorConnect, GetClient, NoClient, Make
        <3> QED BY <1>1, <3>2
    <2> QED BY <1>1, <1>2, <2>1, <2>2, StepKept
<1>4. CASE current = 0 /\ Make("connect")
    <2>1. Made("connect") /\ current' # 0 /\ current' # current
        BY <1>1, <1>4 DEF Made, Make, IInv, TypeOK
    <2>2. \/ connected' = TRUE /\ half' = half \ {current'}
          \/ connected' = FALSE /\ half' = half \cup {current'}
        BY <1>4, <2>1 DEF VectorConnect, NoClient, Keep
    <2> QED BY <1>1, <1>2, <2>1, <2>2, StepMade
<1> QED BY <1>3, <1>4 DEF VectorConnect, GetClient, NoClient

LEMMA ClientKeeps ==
    ASSUME IInv, NEW t \in Tasks, NEW o \in {"query", "health"}, Vector(t),
           GetClient(o) \/ NoClient, UNCHANGED <<connected, half>>
    PROVE  IInv'
<1>1. /\ Warns(t) /\ Counts(t, "idle") /\ Moves(t, "idle", "none", 0, "none") /\ Mine(t) = 0
      /\ UNCHANGED <<shut, undead>> /\ connected \in BOOLEAN
    BY Blocking DEF Vector, IInv, TypeOK
<1>2. Suits(t, "idle", "none", 0)
    BY <1>1, BlockingSuits
<1>3. CASE Keep
    <2>1. Kept
        BY <1>1, <1>3 DEF Keep, Kept
    <2>2. Op(t) = "connect" /\ Mine(t) = current => current \in half' \cup {0}
        BY <1>1
    <2> QED BY <1>1, <1>2, <2>1, <2>2, StepKept
<1>4. CASE current = 0 /\ Make(o)
    <2>1. Made(o)
        BY <1>1, <1>4 DEF Made
    <2> QED BY <1>1, <1>2, <2>1, StepMade
<1> QED BY <1>3, <1>4 DEF GetClient, NoClient

LEMMA VectorQueryKeeps == ASSUME IInv, NEW t \in Tasks, VectorQuery(t) PROVE IInv'
BY ClientKeeps DEF VectorQuery

(* The client goes, whether or not another one takes its place.            *)
LEMMA ReplacedKeeps ==
    ASSUME IInv, NEW t \in Tasks, Vector(t), connected' \in BOOLEAN, UNCHANGED <<clash, half>>,
           \/ Replaced
           \/ current' = 0 /\ open' = open \ {current} /\ UNCHANGED <<made, demand>>
    PROVE  IInv'
<1> USE DEF IInv
<1>1. /\ kind = "vector" /\ Moves(t, "idle", "none", 0, "none") /\ Counts(t, "idle") /\ Warns(t)
      /\ \A u \in Tasks : At(u) = "idle"
    BY Blocking
<1>2. /\ \A u \in Tasks : At(u)' = "idle" /\ Mine(u)' = 0
      /\ UNCHANGED <<kind, shut, holder, lost, active, undead, slipped, clash, half>>
    BY <1>1 DEF Moves, At, Mine, Placed, Vector
<1>3. /\ made' \in {made, made + 1} /\ made' \in Nat
      /\ current' = 0 \/ (current' = made + 1 /\ made' = made + 1 /\ made + 1 \in demand')
      /\ open' \subseteq (open \ {current}) \cup {current'} /\ 0 \notin open'
      /\ open' \subseteq 1..made' /\ demand' \subseteq 1..made' /\ 1..made \subseteq 1..made'
      /\ current' \in 0..made'
    <2>1. /\ made \in Nat /\ current \in 0..made /\ open \subseteq 1..made /\ demand \subseteq 1..made
        BY DEF TypeOK
    <2>2. CASE /\ made' = made + 1 /\ current' = made + 1 /\ open' = (open \ {current}) \cup {made + 1}
               /\ demand' = demand \cup {made + 1}
        <3>1. 1..(made + 1) = 1..made \cup {made + 1}
            BY <2>1
        <3> QED BY <2>1, <2>2, <3>1
    <2>3. CASE current' = 0 /\ open' = open \ {current} /\ made' = made /\ demand' = demand
        BY <2>1, <2>3
    <2> QED BY <2>2, <2>3 DEF Replaced
<1>4. TypeOK'
    <2>1. (1..made) \X Tasks \subseteq (1..made') \X Tasks
        BY <1>3
    <2>2. \A u \in Tasks : task'[u].attempt < Retries /\ task'[u].pool <= made'
        BY <1>1, <1>2, <1>3 DEF TypeOK, Moves, Mine
    <2>3. shaken' \subseteq Tasks
        BY <1>1, WarnsWell
    <2> QED BY <1>1, <1>2, <1>3, <2>1, <2>2, <2>3 DEF TypeOK, Moves
<1>5. Placed'
    BY <1>2 DEF Placed
<1>6. Outlived'
    <2>1. \A p \in open' : p = current' \/ p \in clash'
        BY <1>1, <1>2, <1>3 DEF Outlived
    <2>2. undead' \cap open' = {}
        BY <1>2, <1>3 DEF Outlived, TypeOK
    <2> QED BY <1>2, <2>1, <2>2 DEF Outlived
<1>7. Owned'
    BY <1>3 DEF Owned
<1>8. Warned'
    BY <1>2, <1>3 DEF Warned, Closing, TypeOK
<1>9. RefusedOnlyByClose'
    BY <1>1, RefusedKept, WarnsWell
<1>10. Loose'
    <2>1. Busy' = {} /\ Busy = {}
        BY <1>1, <1>2 DEF Busy
    <2>2. \A x \in lost' : x[1] # current' /\ x[1] \in clash'
        <3>1. \A x \in lost : x[1] \in 1..made
            BY DEF TypeOK
        <3> QED BY <1>2, <1>3, <3>1 DEF Loose, TypeOK
    <2>3. \A u \in Tasks : <<0, u>> \notin lost
        BY DEF TypeOK
    <2> QED BY <1>2, <2>1, <2>2, <2>3 DEF Loose
<1> QED BY <1>4, <1>5, <1>6, <1>7, <1>8, <1>9, <1>10

LEMMA VectorHealthKeeps == ASSUME IInv, NEW t \in Tasks, VectorHealth(t) PROVE IInv'
<1>1. Vector(t) /\ UNCHANGED <<connected, half>> /\ connected' \in BOOLEAN
    BY DEF VectorHealth, IInv, TypeOK
<1>2. CASE GetClient("health")
    BY <1>1, <1>2, ClientKeeps
<1>3. CASE Replaced /\ UNCHANGED clash
    BY <1>1, <1>3, ReplacedKeeps
<1> QED BY <1>2, <1>3 DEF VectorHealth

LEMMA VectorDisconnectKeeps == ASSUME IInv, NEW t \in Tasks, VectorDisconnect(t) PROVE IInv'
BY ReplacedKeeps DEF VectorDisconnect

-----------------------------------------------------------------------------
(* disconnect of the first two *)

LEMMA TypeDropped ==
    ASSUME TypeOK, NEW t \in Tasks, NEW where, NEW o, NEW p \in 0..made, NEW how, Moves(t, where, o, p, how),
           UNCHANGED <<kind, made, holder, lost, active, clash, demand, half, slipped>>,
           current' \in {current, 0}, open' \subseteq open, connected' \in BOOLEAN,
           shut' \subseteq 1..made, undead' \subseteq 1..made, shaken' \subseteq Tasks
    PROVE  TypeOK'
<1>1. \A u \in Tasks : task'[u].attempt < Retries /\ task'[u].pool <= made'
    BY DEF TypeOK, Moves
<1> QED BY <1>1 DEF TypeOK, Moves

LEMMA LooseDropped ==
    ASSUME TypeOK, Placed, Loose, NEW t \in Tasks, NEW where \in {"idle", "closing"}, NEW o, NEW p, NEW how,
           Moves(t, where, o, p, how), t \notin Busy, p \in {0, current},
           UNCHANGED <<kind, lost, active, clash, slipped>>,
           \/ current' = current
           \/ current' = 0 /\ p = 0 /\ (kind = "sql" => \A u \in Busy : Mine(u) = current => Mine(u) \in clash)
    PROVE  Loose'
<1>1. \A u \in Tasks \ {t} : At(u)' = At(u) /\ Mine(u)' = Mine(u)
    BY DEF Moves, At, Mine
<1>2. At(t)' = where /\ Mine(t)' = p
    BY DEF Moves, At, Mine
<1>3. Busy' = Busy
    BY <1>1, <1>2 DEF Busy
<1>4. \A u \in Busy : u # t
    OBVIOUS
<1>5. kind' = "sql" => \A u \in Busy' : Mine(u)' # current' => Mine(u)' \in clash'
    BY <1>1, <1>3, <1>4 DEF Loose, Busy
<1>6. <<0, t>> \notin lost /\ \A x \in lost : x[1] # 0
    BY DEF TypeOK
<1>7. \A x \in lost' : x[1] # current' /\ x[1] \in clash'
    BY <1>6 DEF Loose
<1>8. <<current, t>> \notin lost
    BY DEF Loose
<1>9. \A u \in Tasks : <<Mine(u), u>>' \notin lost'
    BY <1>1, <1>2, <1>6, <1>8 DEF Loose
<1> QED BY <1>3, <1>5, <1>7, <1>9 DEF Loose

LEMMA DisconnectKeeps == ASSUME IInv, NEW t \in Tasks, Disconnect(t) PROVE IInv'
<1> USE DEF IInv
<1>1. /\ kind # "vector" /\ At(t) = "idle" /\ t \notin Busy /\ Mine(t) = 0 /\ kind' = kind
      /\ UNCHANGED <<kind, made, open, holder, lost, active, clash, demand, half, undead, slipped>>
    BY Resting DEF Disconnect, history
<1>2. CASE current = 0 \/ (kind = "http" /\ current \in shut)
    <2>1. Return(t) /\ current' = 0 /\ connected' = FALSE /\ UNCHANGED <<shut, shaken>>
        BY <1>2 DEF Disconnect, Dropped
    <2>2. Moves(t, "idle", "none", 0, "none")
        BY <2>1, Rests DEF Return
    <2>3. \A u \in Tasks : At(u)' = At(u) /\ Mine(u)' = Mine(u)
        BY <1>1, <2>2 DEF Moves, At, Mine
    <2>4. TypeOK'
        <3>1. 0 \in 0..made /\ shut' \subseteq 1..made /\ undead' \subseteq 1..made /\ shaken' \subseteq Tasks
            BY <1>1, <2>1 DEF TypeOK
        <3> QED BY <1>1, <2>1, <2>2, <3>1, TypeDropped
    <2>5. Placed'
        BY <1>1, <2>1, <2>2, PlacedKept
    <2>6. Outlived'
        <3>1. current \in open =>
                 kind = "http" /\ \E u \in Tasks : At(u) = "closing" /\ Mine(u) = current
            BY <1>2 DEF Warned, Outlived, TypeOK
        <3> QED BY <1>1, <2>1, <2>3, <3>1 DEF Outlived
    <2>7. Owned'
        BY <1>1, <2>1 DEF Owned, TypeOK
    <2>8. Warned'
        BY <1>1, <2>1, <2>3 DEF Warned, Closing, TypeOK
    <2>9. RefusedOnlyByClose'
        BY <2>1, <2>2, RefusedKept
    <2>10. Loose'
        <3>1. kind = "sql" => current = 0
            BY <1>2
        <3>2. \A u \in Busy : Mine(u) # 0
            BY DEF Placed, Busy
        <3> QED BY <1>1, <2>1, <2>2, <3>1, <3>2, LooseDropped
    <2> QED BY <2>4, <2>5, <2>6, <2>7, <2>8, <2>9, <2>10
<1>3. CASE ~(current = 0 \/ (kind = "http" /\ current \in shut))
    <2>1. /\ Become(t, "closing", "disconnect", current) /\ shut' = shut \cup {current}
          /\ shaken' = {u \in Tasks : At(u) # "idle"} \cup shaken
          /\ UNCHANGED <<current, connected>> /\ current # 0 /\ current \in 0..made /\ made \in Nat
        BY <1>3 DEF Disconnect, TypeOK
    <2>2. Moves(t, "closing", "disconnect", current, "none")
        BY <2>1, Becomes DEF Calls
    <2>3. /\ \A u \in Tasks \ {t} : At(u)' = At(u) /\ Mine(u)' = Mine(u) /\ Op(u)' = Op(u)
          /\ At(t)' = "closing" /\ Mine(t)' = current
        BY <2>2 DEF Moves, At, Mine, Op
    <2>4. TypeOK'
        <3>1. shut' \subseteq 1..made /\ undead' \subseteq 1..made /\ shaken' \subseteq Tasks /\ connected' \in BOOLEAN
            BY <1>1, <2>1 DEF TypeOK
        <3> QED BY <1>1, <2>1, <2>2, <3>1, TypeDropped
    <2>5. Placed'
        BY <1>1, <2>1, <2>2, PlacedKept
    <2>6. Outlived'
        BY <1>1, <2>1, <2>3 DEF Outlived
    <2>7. Owned'
        BY <1>1, <2>1, <2>3 DEF Owned
    <2>8. Warned'
        BY <1>1, <2>1, <2>3 DEF Warned, Closing
    <2>9. RefusedOnlyByClose'
        BY <2>1, <2>2, RefusedKept
    <2>10. Loose'
        BY <1>1, <2>1, <2>2, LooseDropped
    <2> QED BY <2>4, <2>5, <2>6, <2>7, <2>8, <2>9, <2>10
<1> QED BY <1>2, <1>3

LEMMA ClosedKeeps == ASSUME IInv, NEW t \in Tasks, Closed(t) PROVE IInv'
<1> USE DEF IInv
<1>1. /\ At(t) = "closing" /\ t \notin Busy /\ (kind = "sql" => Users(Mine(t)) = {})
      /\ open' = open \ {Mine(t)} /\ Return(t) /\ current' = 0 /\ connected' = FALSE
      /\ UNCHANGED <<kind, made, shut, holder, lost, active, shaken, clash, demand, half, undead, slipped>>
    BY DEF Closed, Dropped, Busy, history
<1>2. Moves(t, "idle", "none", 0, "none")
    BY <1>1, Rests DEF Return
<1>3. /\ \A u \in Tasks \ {t} : At(u)' = At(u) /\ Mine(u)' = Mine(u)
      /\ At(t)' = "idle" /\ Mine(t)' = 0
    BY <1>2 DEF Moves, At, Mine
<1>4. TypeOK'
    <2>1. 0 \in 0..made /\ shut' \subseteq 1..made /\ undead' \subseteq 1..made /\ shaken' \subseteq Tasks
        BY <1>1 DEF TypeOK
    <2> QED BY <1>1, <1>2, <2>1, TypeDropped
<1>5. Placed'
    BY <1>1, <1>2, PlacedKept
<1>6. Outlived'
    BY <1>1, <1>3 DEF Outlived, TypeOK
<1>7. Owned'
    BY <1>1 DEF Owned, TypeOK
<1>8. Warned'
    BY <1>1, <1>3 DEF Warned, Closing, TypeOK
<1>9. RefusedOnlyByClose'
    BY <1>1, <1>2, RefusedKept
<1>10. Loose'
    <2>1. kind = "sql" => \A u \in Busy : Mine(u) = current => Mine(u) \in clash
        <3>1. \A u \in Busy : Mine(u) # 0
            BY DEF Placed, Busy
        <3>2. kind = "sql" => \A u \in Busy : Mine(u) # Mine(t)
            BY <1>1 DEF Users, Busy
        <3> QED BY <1>1, <3>1, <3>2 DEF Outlived
    <2> QED BY <1>1, <1>2, <2>1, LooseDropped
<1> QED BY <1>4, <1>5, <1>6, <1>7, <1>8, <1>9, <1>10

LEMMA CloseFailsKeeps == ASSUME IInv, NEW t \in Tasks, CloseFails(t) PROVE IInv'
<1> USE DEF IInv
<1>1. /\ At(t) = "closing" /\ t \notin Busy /\ Mine(t) # 0
      /\ open' = open \ {Mine(t)} /\ undead' = undead \cup {Mine(t)} /\ Return(t)
      /\ UNCHANGED <<kind, connected, current, made, shut, holder, lost, active, shaken, clash, demand, half, slipped>>
    BY DEF CloseFails, Busy, retriever, Placed
<1>2. Moves(t, "idle", "none", 0, "none")
    BY <1>1, Rests DEF Return
<1>3. /\ \A u \in Tasks \ {t} : At(u)' = At(u) /\ Mine(u)' = Mine(u) /\ Op(u)' = Op(u)
      /\ At(t)' = "idle" /\ Mine(t)' = 0
    BY <1>2 DEF Moves, At, Mine, Op
<1>4. TypeOK'
    <2>1. Mine(t) \in 1..made
        BY <1>1 DEF TypeOK, Task, Mine
    <2>2. shut' \subseteq 1..made /\ shaken' \subseteq Tasks /\ connected' \in BOOLEAN /\ 0 \in 0..made
        BY <1>1 DEF TypeOK
    <2>3. undead' \subseteq 1..made
        BY <1>1, <2>1 DEF TypeOK
    <2> QED BY <1>1, <1>2, <2>2, <2>3, TypeDropped
<1>5. Placed'
    BY <1>1, <1>2, PlacedKept
<1>6. Outlived'
    BY <1>1, <1>3 DEF Outlived
<1>7. Owned'
    BY <1>1, <1>3 DEF Owned
<1>8. Warned'
    <2>1. Closing' \/ current' \in undead' => Closing \/ current \in undead
        BY <1>1, <1>3 DEF Closing
    <2> QED BY <1>1, <1>3, <2>1 DEF Warned
<1>9. RefusedOnlyByClose'
    BY <1>1, <1>2, RefusedKept
<1>10. Loose'
    BY <1>1, <1>2, LooseDropped
<1> QED BY <1>4, <1>5, <1>6, <1>7, <1>8, <1>9, <1>10

-----------------------------------------------------------------------------
(* A task is cancelled *)

LEMMA CancelKeeps == ASSUME IInv, NEW t \in Tasks, Cancel(t) PROVE IInv'
<1>1. CASE CloseFails(t)
    BY <1>1, CloseFailsKeeps
<1>2. CASE /\ At(t) \in {"locking", "acquiring", "sleeping"}
           /\ Return(t) /\ HalfOpen(t)
           /\ UNCHANGED <<retriever, pool, active, shaken, clash, demand, undead, slipped>>
    <2>1. Warns(t) /\ Kept /\ Counts(t, "idle") /\ Leaves(t) /\ UNCHANGED <<kind, holder, lost>>
        BY <1>2 DEF Warns, Kept, Counts, Leaves, Busy, pool, retriever
    <2> QED BY <1>2, <2>1, GivesUp DEF Return
<1>3. CASE /\ At(t) = "creating"
           /\ Return(t) /\ holder' = NoTask
           /\ UNCHANGED <<retriever, current, made, open, shut, lost, active, shaken, history>>
    <2>1. /\ current = 0 /\ Warns(t) /\ t \notin Busy /\ Kept /\ connected \in BOOLEAN
          /\ UNCHANGED <<kind, connected, lost, active, half, slipped>>
          /\ \A u \in Tasks \ {t} : At(u) # "creating"
        BY <1>3 DEF IInv, Placed, Warns, Busy, TypeOK, Kept, retriever, history
    <2>2. Moves(t, "idle", "none", 0, "none")
        BY <1>3, Rests DEF Return, IInv
    <2>3. Suits(t, "idle", "none", 0) /\ Counts(t, "idle")
        BY <1>3, <2>1 DEF Suits, Counts
    <2> QED BY <2>1, <2>2, <2>3, StepKept
<1>4. CASE /\ At(t) = "using" /\ kind = "http"
           /\ Return(t) /\ active' = active - 1
           /\ UNCHANGED <<retriever, pool, shaken, history>>
    <2>1. /\ Op(t) # "connect" /\ Warns(t) /\ t \in Busy /\ Kept /\ connected \in BOOLEAN
          /\ holder \in Tasks \cup {NoTask}
          /\ UNCHANGED <<kind, connected, holder, lost, half, slipped>>
        BY <1>4 DEF IInv, Placed, Warns, Busy, TypeOK, Kept, retriever, pool, history
    <2>2. Moves(t, "idle", "none", 0, "none")
        BY <1>4, Rests DEF Return, IInv
    <2>3. Suits(t, "idle", "none", 0) /\ Counts(t, "idle")
        BY <1>4, <2>1 DEF Suits, Counts, Kept
    <2> QED BY <2>1, <2>2, <2>3, StepKept
<1>5. CASE /\ At(t) = "using" /\ kind = "sql"
           /\ Finally(t, "cancelled")
           /\ UNCHANGED <<kind, current, made, open, shut, holder, active, shaken, clash, demand, undead, slipped>>
    BY <1>5, FinallyKeeps
<1> QED BY <1>1, <1>2, <1>3, <1>4, <1>5 DEF Cancel

-----------------------------------------------------------------------------
(* The invariant and the theorems *)

LEMMA InitGood == Init => IInv
<1> SUFFICES ASSUME Init PROVE IInv
    OBVIOUS
<1>1. Idle("none") \in Task /\ Idle("none").at = "idle" /\ Idle("none").op = "none" /\ Idle("none").pool = 0
      /\ Idle("none").attempt = 0 /\ Idle("none").how = "none"
    BY PoolsAssumption DEF Idle, Task
<1>2. \A t \in Tasks : task[t] = Idle("none") /\ At(t) = "idle" /\ Mine(t) = 0
    BY <1>1 DEF Init, At, Mine
<1>3. task \in [Tasks -> Task]
    BY <1>1 DEF Init
<1>4. TypeOK
    <2>1. \A t \in Tasks : task[t].attempt < Retries /\ task[t].pool <= made
        BY <1>1, <1>2, PoolsAssumption DEF Init
    <2>2. kind \in {"http", "sql", "vector"} /\ connected \in BOOLEAN
        BY DEF Init
    <2>3. /\ made \in Nat /\ current \in 0..made /\ open \subseteq 1..made /\ shut \subseteq 1..made
          /\ holder \in Tasks \cup {NoTask} /\ lost \subseteq (1..made) \X Tasks /\ active \in Nat
          /\ shaken \subseteq Tasks /\ clash \subseteq 1..made /\ demand \subseteq 1..made
          /\ half \subseteq 1..made /\ undead \subseteq 1..made /\ slipped \in Nat
        BY DEF Init
    <2> QED BY <1>3, <2>1, <2>2, <2>3 DEF TypeOK
<1>5. Placed
    BY <1>2 DEF Placed
<1>6. Outlived /\ Owned /\ Warned
    BY <1>2 DEF Init, Outlived, Owned, Warned, Closing
<1>7. Busy = {}
    BY <1>2 DEF Busy
<1>8. Loose
    BY <1>2, <1>7, FS_EmptySet DEF Loose, Init
<1>9. RefusedOnlyByClose
    BY <1>1, <1>2 DEF RefusedOnlyByClose
<1> QED BY <1>4, <1>5, <1>6, <1>8, <1>9 DEF IInv

LEMMA NothingMoves == ASSUME IInv, UNCHANGED vars PROVE IInv'
<1>1. /\ UNCHANGED <<kind, connected, current, made, open, shut, holder, lost, active, task, shaken,
                     clash, demand, half, undead, slipped>>
    BY DEF vars, retriever, pool, history
<1>2. Busy' = Busy
    BY <1>1 DEF Busy, At
<1>3. TypeOK' /\ Placed'
    BY <1>1 DEF IInv, TypeOK, Placed, At, Op, Mine
<1>4. Outlived' /\ Owned' /\ Warned'
    BY <1>1 DEF IInv, Outlived, Owned, Warned, Closing, At, Op, Mine
<1>5. Loose' /\ RefusedOnlyByClose'
    BY <1>1, <1>2 DEF IInv, Loose, RefusedOnlyByClose, Mine
<1> QED BY <1>3, <1>4, <1>5 DEF IInv

LEMMA NextKeeps == IInv /\ [Next]_vars => IInv'
<1> SUFFICES ASSUME IInv, [Next]_vars PROVE IInv'
    OBVIOUS
<1>1. CASE UNCHANGED vars
    BY <1>1, NothingMoves
<1>2. ASSUME NEW t \in Tasks, HttpConnect(t) \/ HttpQuery(t) \/ HttpHealth(t) \/ HttpDone(t) \/ Wake(t)
      PROVE  IInv'
    BY <1>2, HttpConnectKeeps, HttpBeginsKeep, HttpDoneKeeps, WakeKeeps
<1>3. ASSUME NEW t \in Tasks, SqlConnect(t) \/ SqlQuery(t) \/ SqlHealth(t) \/ SqlDone(t) \/ Lock(t)
      PROVE  IInv'
    BY <1>3, SqlConnectKeeps, SqlQueryKeeps, SqlHealthKeeps, SqlDoneKeeps, LockKeeps
<1>4. ASSUME NEW t \in Tasks,
             \/ Created(t) \/ Acquire(t) \/ AcquireFails(t)
             \/ Released(t) \/ ReleaseFails(t) \/ CancelRelease(t)
      PROVE  IInv'
    BY <1>4, CreatedKeeps, AcquireKeeps, AcquireFailsKeeps, ReleasedKeeps, SlipKeeps
       DEF ReleaseFails, CancelRelease
<1>5. ASSUME NEW t \in Tasks, VectorConnect(t) \/ VectorQuery(t) \/ VectorHealth(t) \/ VectorDisconnect(t)
      PROVE  IInv'
    BY <1>5, VectorConnectKeeps, VectorQueryKeeps, VectorHealthKeeps, VectorDisconnectKeeps
<1>6. ASSUME NEW t \in Tasks, Disconnect(t) \/ Closed(t) \/ Cancel(t)
      PROVE  IInv'
    BY <1>6, DisconnectKeeps, ClosedKeeps, CancelKeeps
<1> QED BY <1>1, <1>2, <1>3, <1>4, <1>5, <1>6 DEF Next

LEMMA SpecKeeps == Spec => []IInv
<1> DEFINE F == Fairness
<1>1. Spec <=> Init /\ [][Next]_vars /\ F
    BY DEF Spec
<1> HIDE DEF F
<1> QED BY <1>1, InitGood, NextKeeps, PTL

(* The pools, the calls and the counts keep their types: connect and       *)
(* disconnect, session and get_connection, of connection_manager.py.       *)
THEOREM PoolsTypeCorrect == Spec => []TypeOK
<1>1. IInv => TypeOK
    BY DEF IInv
<1> QED BY <1>1, SpecKeeps, PTL

(* No pool with open connections is left behind by _close and initialize   *)
(* (connection_manager.py) except in the ways that PoolsAreOwned lists.    *)
THEOREM PoolsHaveOwners == Spec => []PoolsAreOwned
<1>1. IInv => PoolsAreOwned
    BY DEF IInv, Outlived, Owned, PoolsAreOwned, Working
<1> QED BY <1>1, SpecKeeps, PTL

(* No search and no statement is refused by a closed pool unless a         *)
(* disconnect was under way during the call, or an earlier one had failed. *)
THEOREM RefusalsHaveACause == Spec => []RefusedOnlyByClose
<1>1. IInv => RefusedOnlyByClose
    BY DEF IInv
<1> QED BY <1>1, SpecKeeps, PTL

(* metrics.active_connections is the number of connections in use, of      *)
(* releases that were cancelled or raised before their bookkeeping, and of *)
(* connections that were never given back; the latter are all of pools     *)
(* made while another was being closed.                                    *)
THEOREM ActiveConnectionsAreCounted == Spec => []ConnectionsAreCounted
<1>1. IInv => ConnectionsAreCounted
    BY DEF IInv, Loose, Busy, ConnectionsAreCounted
<1> QED BY <1>1, SpecKeeps, PTL
===============================================================================
