------------------------- MODULE SessionTokens_proofs -------------------------
(***************************************************************************)
(* A token whose revocation was answered stays invalid, a valid one is on  *)
(* its user's list, and a logout misses none it could know of, for any     *)
(* numbers of tokens, calls and lives.                                     *)
(***************************************************************************)
EXTENDS SessionTokens, TLAPS

USE DEF At, Op, Jti, Goto, End

-----------------------------------------------------------------------------
(* Types                                                                   *)

Types ==
    /\ now \in Nat
    /\ exp \in [Jtis -> Nat] /\ token \in [Jtis -> Nat] /\ marker \in [Jtis -> Nat]
    /\ list \subseteq Jtis /\ listEnd \in Nat
    /\ pending \subseteq Jtis /\ task \in [Tasks -> Call]
    /\ revoked \subseteq Jtis /\ astray \subseteq Jtis

(* Where a call is tells what it has in hand.                              *)
Shape ==
    \A t \in Tasks :
        /\ At(t) \in Storing \cup Revoking => Jti(t) \in Jtis
        /\ At(t) \in Storing => Op(t) = "store"
        /\ At(t) \in Revoking => Op(t) \in {"revoke", "refresh", "logout"}
        /\ At(t) \in {"drop", "out"} => Op(t) = "logout"

LEMMA RestingIsCall == Resting \in Call
BY DEF Resting, Call, Places, Storing, Revoking

LEMMA TtlsAreNat ==
    ASSUME Types, NEW j \in Jtis
    PROVE  Ttls(j) \subseteq Nat
BY DEF Types, Ttls

LEMMA TakeNextIsCall ==
    ASSUME NEW call \in Call, NEW next \in TakeNext(call)
    PROVE  /\ next \in Call /\ next.op = call.op
           /\ next.at \in {"drop", "get"}
           /\ next.at = "get" => next.jti \in call.todo
           /\ next.at = "drop" => next.jti = NoJti
<1>1. call.todo \subseteq Jtis /\ call = [op |-> call.op, at |-> call.at, jti |-> call.jti,
              ttl |-> call.ttl, todo |-> call.todo, failed |-> call.failed, late |-> call.late]
  BY DEF Call
<1>2. CASE call.todo = {}
  <2>1. next = [call EXCEPT !.at = "drop", !.jti = NoJti, !.ttl = 0]
    BY <1>2 DEF TakeNext
  <2> QED
    BY <1>1, <2>1 DEF Call, Places, Storing, Revoking
<1>3. CASE call.todo # {}
  <2>1. PICK j \in call.todo :
           next = [call EXCEPT !.at = "get", !.jti = j, !.ttl = 0, !.todo = @ \ {j}]
    BY <1>3 DEF TakeNext
  <2> QED
    BY <1>1, <2>1 DEF Call, Places, Storing, Revoking
<1> QED
  BY <1>2, <1>3

(* What revoke_token's end makes of the call that made it.                 *)
LEMMA AnswerIsCall ==
    ASSUME Types, Shape, NEW t \in Tasks, NEW ok \in BOOLEAN, At(t) \in Revoking, Answer(t, ok)
    PROVE  /\ task' \in [Tasks -> Call]
           /\ \A u \in Tasks \ {t} : task'[u] = task[u]
           /\ task'[t].at \in {"idle", "lookup", "drop", "get"}
           /\ task'[t].at = "get" => task'[t].jti \in Jtis
           /\ task'[t].at \in {"get", "drop"} => task'[t].op = "logout"
           /\ task'[t].op = "logout" => Op(t) = "logout"
<1>1. task[t] \in Call /\ Jti(t) \in Jtis
  BY DEF Types, Shape
<1>2. CASE Op(t) = "revoke" /\ End(t)
  BY <1>2, RestingIsCall DEF Types, Resting
<1>3. CASE Op(t) = "refresh" /\ task' = [task EXCEPT ![t] = [Resting EXCEPT !.op = "refresh", !.at = "lookup"]]
  <2>1. [Resting EXCEPT !.op = "refresh", !.at = "lookup"] \in Call
    BY DEF Resting, Call, Places, Storing, Revoking
  <2> QED
    BY <1>3, <2>1 DEF Types, Resting
<1>4. CASE /\ Op(t) = "logout"
           /\ \E call \in TakeNext([task[t] EXCEPT !.failed = IF ok THEN @ ELSE @ \cup {Jti(t)}]) :
                 task' = [task EXCEPT ![t] = call]
  <2> DEFINE told == [task[t] EXCEPT !.failed = IF ok THEN @ ELSE @ \cup {Jti(t)}]
  <2>1. told \in Call /\ told.op = "logout" /\ told.todo \subseteq Jtis
    BY <1>1, <1>4 DEF Call
  <2>2. PICK call \in TakeNext(told) : task' = [task EXCEPT ![t] = call]
    BY <1>4
  <2>3. /\ call \in Call /\ call.op = "logout" /\ call.at \in {"drop", "get"}
        /\ call.at = "get" => call.jti \in told.todo
    BY <2>1, <2>2, TakeNextIsCall
  <2> HIDE DEF told
  <2>4. task'[t] = call /\ \A u \in Tasks \ {t} : task'[u] = task[u]
    BY <2>2 DEF Types
  <2>5. task' \in [Tasks -> Call]
    BY <2>2, <2>3 DEF Types
  <2>6. Op(t) = "logout" /\ told.todo \subseteq Jtis
    BY <1>4, <2>1
  <2> QED
    BY <2>3, <2>4, <2>5, <2>6
<1> QED
  BY <1>2, <1>3, <1>4 DEF Answer

LEMMA TypesInit == Init => Types /\ Shape
BY RestingIsCall DEF Init, Types, Shape, Resting, Storing, Revoking

LEMMA TypesStep == Types /\ Shape /\ [Next]_vars => Types' /\ Shape'
<1> SUFFICES ASSUME Types, Shape, [Next]_vars
             PROVE  Types' /\ Shape'
  OBVIOUS
<1> USE SessionsAssumption
<1>1. CASE Tick
  <2>1. (\A t \in Tasks : task'[t] = task[t]) /\ task' = task
    BY <1>1 DEF Tick
  <2>2. Types'
    BY <1>1 DEF Tick, Types, history
  <2> QED
    BY <2>1, <2>2 DEF Shape
<1>2. CASE Login
  <2>1. task' = task
    BY <1>2 DEF Login
  <2>2. Types'
    BY <1>2 DEF Login, Issued, Unissued, Types, redis, history
  <2> QED
    BY <2>1, <2>2 DEF Shape
<1>3. CASE StoreIssued
  <2>1. task' = task
    BY <1>3 DEF StoreIssued
  <2>2. Types'
    BY <1>3 DEF StoreIssued, Types, redis, history
  <2> QED
    BY <2>1, <2>2 DEF Shape
<1>4. CASE UNCHANGED vars
  BY <1>4 DEF vars, redis, history, Types, Shape
<1>5. ASSUME NEW t \in Tasks, Store(t)
      PROVE  Types' /\ Shape'
  <2>1. PICK j \in Unissued, d \in Lives :
           /\ exp' = [exp EXCEPT ![j] = now + d]
           /\ \E ttl \in {d, d - 1} \ {0} :
                 task' = [task EXCEPT ![t] = [Resting EXCEPT !.op = "store", !.at = "setex",
                                                          !.jti = j, !.ttl = ttl]]
    BY <1>5 DEF Store
  <2>2. PICK ttl \in {d, d - 1} \ {0} :
              task' = [task EXCEPT ![t] = [Resting EXCEPT !.op = "store", !.at = "setex",
                                                          !.jti = j, !.ttl = ttl]]
    BY <2>1
  <2>3. d \in Nat /\ ttl \in Nat /\ j \in Jtis
    BY <2>1, <2>2 DEF Unissued
  <2>4. [Resting EXCEPT !.op = "store", !.at = "setex", !.jti = j, !.ttl = ttl] \in Call
    BY <2>3 DEF Resting, Call, Places, Storing, Revoking
  <2>5. Types'
    <3>1. exp' \in [Jtis -> Nat]
      BY <2>1, <2>3 DEF Types
    <3>2. task' \in [Tasks -> Call]
      BY <2>2, <2>4 DEF Types
    <3> QED
      BY <1>5, <3>1, <3>2 DEF Store, Types, redis, history
  <2>6. Shape'
    BY <2>2, <2>3 DEF Types, Shape, Resting, Storing, Revoking
  <2> QED
    BY <2>5, <2>6
<1>6. ASSUME NEW t \in Tasks, \/ StoreSetex(t) \/ StoreExpire(t) \/ StoreFails(t) \/ RevokeMark(t)
                              \/ RevokeDel(t) \/ LogoutDrop(t) \/ LogoutEnds(t)
      PROVE  Types' /\ Shape'
  <2>1. task[t] \in Call /\ (At(t) \in Storing \cup Revoking => Jti(t) \in Jtis)
    BY DEF Types, Shape
  <2>2. CASE StoreSetex(t)
    BY <2>1, <2>2 DEF StoreSetex, Types, Shape, Call, Places, Storing, Revoking, history
  <2>3. CASE StoreExpire(t)
    <3>1. task[t].ttl \in Nat /\ Jti(t) \in Jtis
      BY <2>1, <2>3 DEF StoreExpire, Call, Storing
    <3>2. task' \in [Tasks -> Call]
      BY <2>3, RestingIsCall DEF StoreExpire, Types
    <3>4. astray' \subseteq Jtis
      BY <2>3, <3>1 DEF StoreExpire, Types
    <3>5. listEnd' \in Nat
      BY <2>3, <3>1 DEF StoreExpire, Types
    <3>6. Types'
      BY <2>3, <3>2, <3>4, <3>5 DEF StoreExpire, Types
    <3>3. Shape'
      BY <2>3 DEF StoreExpire, Types, Shape, Resting, Storing, Revoking
    <3> QED
      BY <3>6, <3>3
  <2>4. CASE StoreFails(t)
    BY <2>1, <2>4, RestingIsCall DEF StoreFails, Types, Shape, Resting, Storing, Revoking, redis, history
  <2>5. CASE RevokeMark(t)
    <3>1. task[t].ttl \in Nat /\ Jti(t) \in Jtis
      BY <2>1, <2>5 DEF RevokeMark, Call, Revoking
    <3>2. task' \in [Tasks -> Call]
      BY <2>1, <2>5 DEF RevokeMark, Types, Call, Places, Storing, Revoking
    <3>3. Types'
      BY <2>5, <3>1, <3>2 DEF RevokeMark, Types, history
    <3>4. Shape'
      BY <2>1, <2>5 DEF RevokeMark, Types, Shape, Call, Storing, Revoking
    <3> QED
      BY <3>3, <3>4
  <2>6. CASE RevokeDel(t)
    BY <2>1, <2>6 DEF RevokeDel, Types, Shape, Call, Places, Storing, Revoking, history
  <2>7. CASE LogoutDrop(t)
    BY <2>1, <2>7 DEF LogoutDrop, Types, Shape, Call, Places, Storing, Revoking, history
  <2>8. CASE LogoutEnds(t)
    BY <2>1, <2>8, RestingIsCall DEF LogoutEnds, Types, Shape, Resting, Storing, Revoking, redis, history
  <2> QED
    BY <1>6, <2>2, <2>3, <2>4, <2>5, <2>6, <2>7, <2>8
<1>7. ASSUME NEW t \in Tasks, StoreSadd(t)
      PROVE  Types' /\ Shape'
  <2>1. \A u \in Tasks : task[u] \in Call /\ (At(u) \in Storing \cup Revoking => Jti(u) \in Jtis)
    BY DEF Types, Shape
  <2>2. Jti(t) \in Jtis
    BY <1>7, <2>1 DEF StoreSadd, Storing
  <2>3. \A u \in Tasks : task'[u] \in Call
    BY <1>7, <2>1, <2>2 DEF StoreSadd, Call, Places, Storing, Revoking
  <2>4. Types'
    BY <1>7, <2>2, <2>3 DEF StoreSadd, Types, history
  <2>5. \A u \in Tasks : /\ task'[u].jti = task[u].jti /\ task'[u].op = task[u].op
                         /\ task'[u].at = IF u = t THEN "expire" ELSE task[u].at
    BY <1>7, <2>1 DEF StoreSadd, Call
  <2>6. Shape'
    BY <1>7, <2>5 DEF StoreSadd, Shape, Storing, Revoking
  <2> QED
    BY <2>4, <2>6
<1>8. ASSUME NEW t \in Tasks, Revoke(t) \/ RefreshTokens(t)
      PROVE  Types' /\ Shape'
  <2>1. PICK j \in Jtis, op \in {"revoke", "refresh"} :
           task' = [task EXCEPT ![t] = [Resting EXCEPT !.op = op, !.at = "get", !.jti = j]]
    BY <1>8 DEF Revoke, RefreshTokens
  <2>2. [Resting EXCEPT !.op = op, !.at = "get", !.jti = j] \in Call
    BY <2>1 DEF Resting, Call, Places, Storing, Revoking
  <2>3. Types'
    BY <1>8, <2>1, <2>2 DEF Revoke, RefreshTokens, Types, redis, history
  <2>4. Shape'
    BY <2>1 DEF Types, Shape, Resting, Storing, Revoking
  <2> QED
    BY <2>3, <2>4
<1>9. ASSUME NEW t \in Tasks, RevokeGet(t)
      PROVE  Types' /\ Shape'
  <2>1. At(t) = "get" /\ Jti(t) \in Jtis /\ task[t] \in Call
    BY <1>9 DEF RevokeGet, Types, Shape, Revoking
  <2>2. CASE token[Jti(t)] = 0
    <3>1. Answer(t, TRUE)
      BY <1>9, <2>2 DEF RevokeGet
    <3>2. At(t) \in Revoking
      BY <2>1 DEF Revoking
    <3>3. Types'
      BY <1>9, <3>1, <3>2, AnswerIsCall DEF RevokeGet, Types, redis, history
    <3>4. Shape'
      BY <3>1, <3>2, AnswerIsCall DEF Shape, Storing, Revoking
    <3> QED
      BY <3>3, <3>4
  <2>3. CASE token[Jti(t)] # 0
    <3>1. PICK d \in Ttls(Jti(t)) :
              task' = [task EXCEPT ![t].at = IF d = 0 THEN "del" ELSE "mark", ![t].ttl = d]
      BY <1>9, <2>3 DEF RevokeGet
    <3>2. d \in Nat
      BY <2>1, <3>1, TtlsAreNat
    <3>3. Types'
      BY <1>9, <2>1, <3>1, <3>2 DEF RevokeGet, Types, Call, Places, Storing, Revoking, redis, history
    <3>4. Shape'
      BY <2>1, <3>1 DEF Types, Shape, Call, Storing, Revoking
    <3> QED
      BY <3>3, <3>4
  <2> QED
    BY <2>2, <2>3
<1>10. ASSUME NEW t \in Tasks, RevokeSrem(t) \/ RevokeFails(t)
       PROVE  Types' /\ Shape'
  <2>1. At(t) \in Revoking /\ Jti(t) \in Jtis
    BY <1>10 DEF RevokeSrem, RevokeFails, Revoking, Shape
  <2>2. PICK ok \in BOOLEAN : Answer(t, ok)
    BY <1>10 DEF RevokeSrem, RevokeFails
  <2>3. Types'
    <3>1. task' \in [Tasks -> Call]
      BY <2>1, <2>2, AnswerIsCall
    <3>2. CASE RevokeSrem(t)
      BY <2>1, <3>1, <3>2 DEF RevokeSrem, Types
    <3>3. CASE RevokeFails(t)
      BY <3>1, <3>3 DEF RevokeFails, Types, redis, history
    <3> QED
      BY <1>10, <3>2, <3>3
  <2>4. Shape'
    BY <2>1, <2>2, AnswerIsCall DEF Shape, Storing, Revoking
  <2> QED
    BY <2>3, <2>4
<1>11. ASSUME NEW t \in Tasks, RefreshEnds(t)
       PROVE  Types' /\ Shape'
  BY <1>11, RestingIsCall DEF RefreshEnds, Issued, Unissued, Types, Shape, Resting, Storing, Revoking,
                              redis, history
<1>12. ASSUME NEW t \in Tasks, Logout(t)
       PROVE  Types' /\ Shape'
  <2> DEFINE start == [Resting EXCEPT !.op = "logout", !.todo = list]
  <2>1. start \in Call /\ start.op = "logout" /\ start.todo \subseteq Jtis
    BY DEF Types, Resting, Call, Places, Storing, Revoking
  <2>2. PICK call \in TakeNext(start) : task' = [task EXCEPT ![t] = call]
    BY <1>12 DEF Logout
  <2>3. /\ call \in Call /\ call.op = "logout" /\ call.at \in {"drop", "get"}
        /\ call.at = "get" => call.jti \in start.todo
    BY <2>1, <2>2, TakeNextIsCall
  <2> HIDE DEF start
  <2>4. Types'
    BY <1>12, <2>2, <2>3 DEF Logout, Types, redis, history
  <2>5. Shape'
    BY <2>1, <2>2, <2>3 DEF Types, Shape, Storing, Revoking
  <2> QED
    BY <2>4, <2>5
<1> QED
  BY <1>1, <1>2, <1>3, <1>4, <1>5, <1>6, <1>7, <1>8, <1>9, <1>10, <1>11, <1>12 DEF Next

(* The keys, the list and the calls keep their types, and a call that is  *)
(* under way has the token it works on in hand.                            *)
THEOREM SessionsTypeCorrect == Spec => [](Types /\ Shape)
BY TypesInit, TypesStep, PTL DEF Spec

-----------------------------------------------------------------------------
(* The invariant                                                           *)

(* A token that has left setex behind it: some command has dealt with it.  *)
Known(j) ==
    \/ token[j] # 0 \/ j \in list \/ j \in revoked
    \/ \E u \in Tasks : Jti(u) = j /\ At(u) \in {"sadd", "expire", "mark", "del", "srem"}

(* No key is set again: whatever is known of a token comes after its SETEX,*)
(* and there is one of them.                                               *)
SetOnce ==
    /\ \A j \in Jtis : Known(j) => exp[j] # 0 /\ \A t \in Tasks : At(t) = "setex" => Jti(t) # j
    /\ \A t, u \in Tasks : At(t) = "setex" =>
          exp[Jti(t)] # 0 /\ (At(u) = "setex" /\ Jti(u) = Jti(t) => u = t)

(* Past the DEL of its revocation, a token has no key.                     *)
Gone ==
    /\ \A u \in Tasks : At(u) = "srem" => token[Jti(u)] = 0
    /\ \A j \in revoked : token[j] = 0

Listing(j) == \E t \in Tasks : Jti(t) = j /\ At(t) \in {"sadd", "expire"}

Listed == \A j \in Jtis : token[j] # 0 => j \in list \cup astray \/ Listing(j)

(* The list outlives its members, but those that are astray or about to    *)
(* set its expiry.                                                         *)
ListOutlives ==
    listEnd # 0 => \A j \in list : \/ token[j] <= listEnd \/ j \in astray
                                   \/ \E t \in Tasks : Jti(t) = j /\ At(t) = "expire"

(* A logout knows of every key on the list: it has it before it or in      *)
(* hand, could not revoke it, or came too early for it.                    *)
Remembers(t) ==
    /\ At(t) \in {"drop", "out"} => task[t].todo = {}
    /\ \A j \in list : token[j] # 0 =>
          \/ j \in task[t].todo \cup task[t].failed \cup task[t].late
          \/ (Jti(t) = j /\ At(t) \in {"get", "mark", "del"})

Remembered == \A t \in Tasks : Op(t) = "logout" => Remembers(t)

Inv == Types /\ Shape /\ SetOnce /\ Gone /\ Listed /\ ListOutlives /\ Remembered

LEMMA InvInit == Init => Inv
<1> SUFFICES ASSUME Init PROVE Inv
  OBVIOUS
<1>1. Types /\ Shape
  BY TypesInit
<1>2. \A t \in Tasks : At(t) = "idle" /\ Op(t) = "none"
  BY DEF Init, Resting
<1>3. list = {} /\ revoked = {} /\ listEnd = 0 /\ \A j \in Jtis : token[j] = 0
  BY DEF Init
<1> QED
  BY <1>1, <1>2, <1>3 DEF Inv, SetOnce, Known, Gone, Listed, ListOutlives, Remembered

(* The invariant from one state to the next when only calls change, and    *)
(* what they have in hand changes in none of the ways it speaks of.        *)
LEMMA QuietStep ==
    ASSUME Inv, Types', Shape', UNCHANGED <<now, token, list, listEnd, revoked, astray>>,
           \A j \in Jtis : exp[j] # 0 => exp'[j] # 0,
           \A u \in Tasks : /\ task'[u].at \in {"sadd", "expire", "setex", "srem", "mark", "del"}
                                 => task'[u].at = task[u].at /\ task'[u].jti = task[u].jti
                            /\ task[u].at \in {"sadd", "expire"} => task'[u] = task[u]
                            /\ task'[u].op = "logout" => Remembers(u)'
    PROVE  Inv'
<1>1. SetOnce'
  BY DEF Inv, SetOnce, Known, Types, Shape, Storing
<1>2. Gone'
  BY DEF Inv, Gone
<1>3. Listed'
  BY DEF Inv, Listed, Listing
<1>4. ListOutlives'
  BY DEF Inv, ListOutlives
<1>5. Remembered'
  BY DEF Remembered
<1> QED
  BY <1>1, <1>2, <1>3, <1>4, <1>5 DEF Inv

(* After revoke_token's answer a logout has the next member in hand, or    *)
(* none is left, and remembers a failure.                                  *)
LEMMA AnswerTakesNext ==
    ASSUME Types, NEW t \in Tasks, NEW ok \in BOOLEAN, Op(t) = "logout", Answer(t, ok)
    PROVE  /\ task'[t].late = task[t].late
           /\ task'[t].failed = IF ok THEN task[t].failed ELSE task[t].failed \cup {Jti(t)}
           /\ \/ task'[t].at = "drop" /\ task[t].todo = {} /\ task'[t].todo = {}
              \/ /\ task'[t].at = "get" /\ task'[t].jti \in task[t].todo
                 /\ task'[t].todo = task[t].todo \ {task'[t].jti}
<1> DEFINE told == [task[t] EXCEPT !.failed = IF ok THEN @ ELSE @ \cup {Jti(t)}]
<1>1. /\ told \in [op : {"logout"}, at : Places, jti : Jtis \cup {NoJti}, ttl : Nat,
                   todo : SUBSET Jtis, failed : SUBSET (Jtis \cup {NoJti}), late : SUBSET Jtis]
      /\ told.todo = task[t].todo /\ told.late = task[t].late
      /\ told.failed = IF ok THEN task[t].failed ELSE task[t].failed \cup {Jti(t)}
  BY DEF Types, Call
<1>2. PICK next \in TakeNext(told) : task' = [task EXCEPT ![t] = next]
  BY DEF Answer
<1>3. task'[t] = next
  BY <1>2 DEF Types
<1>4. \/ told.todo = {} /\ next = [told EXCEPT !.at = "drop", !.jti = NoJti, !.ttl = 0]
      \/ \E j \in told.todo :
             next = [told EXCEPT !.at = "get", !.jti = j, !.ttl = 0, !.todo = @ \ {j}]
  BY <1>2 DEF TakeNext
<1> HIDE DEF told
<1> QED
  BY <1>1, <1>3, <1>4

LEMMA AnswerRemembers ==
    ASSUME Inv, NEW t \in Tasks, NEW ok \in BOOLEAN, At(t) \in Revoking, Answer(t, ok),
           token' = token, list' \subseteq list, ok => token[Jti(t)] = 0 \/ Jti(t) \notin list',
           task'[t].op = "logout"
    PROVE  Remembers(t)'
<1>1. Op(t) = "logout"
  BY AnswerIsCall DEF Inv
<1>2. Remembers(t)
  BY <1>1 DEF Inv, Remembered
<1>3. /\ task'[t].late = task[t].late
      /\ task'[t].failed = IF ok THEN task[t].failed ELSE task[t].failed \cup {Jti(t)}
      /\ \/ task'[t].at = "drop" /\ task[t].todo = {} /\ task'[t].todo = {}
         \/ /\ task'[t].at = "get" /\ task'[t].jti \in task[t].todo
            /\ task'[t].todo = task[t].todo \ {task'[t].jti}
  BY <1>1, AnswerTakesNext DEF Inv
<1> QED
  BY <1>2, <1>3 DEF Remembers

LEMMA InvStep == Inv /\ [Next]_vars => Inv'
<1> SUFFICES ASSUME Inv, [Next]_vars
             PROVE  Inv'
  OBVIOUS
<1> USE SessionsAssumption
<1>0. Types /\ Shape /\ Types' /\ Shape'
  BY TypesStep DEF Inv
<1>1. CASE Tick
  <2>1. /\ task' = task /\ exp' = exp /\ revoked' = revoked /\ astray' = astray
        /\ \A j \in Jtis : token'[j] = IF token[j] <= now + 1 THEN 0 ELSE token[j]
        /\ IF listEnd # 0 /\ listEnd <= now + 1 THEN list' = {} /\ listEnd' = 0
                                                ELSE list' = list /\ listEnd' = listEnd
    BY <1>0, <1>1 DEF Tick, history, Types
  <2>2. /\ \A j \in Jtis : token'[j] # 0 => token'[j] = token[j] /\ token[j] > now + 1
        /\ \A j \in Jtis : token'[j] <= token[j]
        /\ list' \subseteq list
    BY <1>0, <2>1 DEF Types
  <2>3. SetOnce'
    BY <2>1, <2>2 DEF Inv, SetOnce, Known
  <2>4. Gone'
    BY <1>0, <2>1, <2>2 DEF Inv, Gone, Types, Shape, Revoking
  <2>5. Listed'
    <3> SUFFICES ASSUME NEW j \in Jtis, token'[j] # 0
                 PROVE  j \in list' \cup astray \/ Listing(j)
      BY <2>1 DEF Listed, Listing
    <3>1. j \in list \cup astray \/ Listing(j)
      BY <2>2 DEF Inv, Listed
    <3>2. CASE j \in list /\ listEnd # 0 /\ listEnd <= now + 1
      <4>1. ~(token[j] <= listEnd)
        BY <1>0, <2>2, <3>2 DEF Types
      <4> QED
        BY <3>2, <4>1 DEF Inv, ListOutlives, Listing
    <3> QED
      BY <2>1, <3>1, <3>2
  <2>6. ListOutlives'
    <3> SUFFICES ASSUME listEnd' # 0, NEW j \in list'
                 PROVE  \/ token'[j] <= listEnd' \/ j \in astray
                        \/ \E t \in Tasks : Jti(t) = j /\ At(t) = "expire"
      BY <2>1 DEF ListOutlives
    <3>1. listEnd # 0 /\ listEnd' = listEnd /\ j \in list /\ j \in Jtis
      BY <1>0, <2>1 DEF Types
    <3>2. \/ token[j] <= listEnd \/ j \in astray
          \/ \E t \in Tasks : Jti(t) = j /\ At(t) = "expire"
      BY <3>1 DEF Inv, ListOutlives
    <3> QED
      BY <1>0, <2>2, <3>1, <3>2 DEF Types
  <2>7. Remembered'
    BY <1>0, <2>1, <2>2 DEF Inv, Remembered, Remembers, Types
  <2> QED
    BY <1>0, <2>3, <2>4, <2>5, <2>6, <2>7 DEF Inv
<1>2. CASE Login \/ StoreIssued \/ UNCHANGED vars
  <2>1. /\ task' = task /\ UNCHANGED <<now, token, list, listEnd, revoked, astray>>
        /\ \A j \in Jtis : exp[j] # 0 => exp'[j] # 0
    BY <1>0, <1>2 DEF Login, Issued, StoreIssued, Unissued, vars, redis, history, Types
  <2>2. \A u \in Tasks : task'[u].op = "logout" => Remembers(u)'
    BY <2>1 DEF Inv, Remembered, Remembers
  <2> QED
    BY <1>0, <2>1, <2>2, QuietStep
<1>3. ASSUME NEW t \in Tasks, Store(t)
      PROVE  Inv'
  <2>1. PICK j \in Unissued, d \in Lives :
           /\ exp' = [exp EXCEPT ![j] = now + d]
           /\ \E ttl \in {d, d - 1} \ {0} :
                 task' = [task EXCEPT ![t] = [Resting EXCEPT !.op = "store", !.at = "setex",
                                                          !.jti = j, !.ttl = ttl]]
    BY <1>3 DEF Store
  <2>2. /\ exp[j] = 0 /\ j \in Jtis /\ d \in Nat /\ d # 0
        /\ At(t) = "idle" /\ UNCHANGED <<now, token, list, listEnd, revoked, astray>>
    BY <1>3, <2>1 DEF Store, Unissued, redis, history
  <2>3. /\ exp'[j] # 0 /\ \A k \in Jtis : exp[k] # 0 => exp'[k] # 0
        /\ task'[t].at = "setex" /\ task'[t].jti = j /\ task'[t].op = "store"
        /\ \A u \in Tasks \ {t} : task'[u] = task[u]
    BY <1>0, <2>1, <2>2 DEF Types, Resting
  <2>4. ~Known(j) /\ \A k \in Jtis : Known(k)' => Known(k)
    BY <2>2, <2>3 DEF Inv, SetOnce, Known
  <2>5. SetOnce'
    BY <2>2, <2>3, <2>4 DEF Inv, SetOnce, Types, Shape, Storing
  <2>6. Gone' /\ Listed' /\ ListOutlives'
    BY <2>2, <2>3 DEF Inv, Gone, Listed, Listing, ListOutlives
  <2>7. Remembered'
    BY <2>2, <2>3 DEF Inv, Remembered, Remembers
  <2> QED
    BY <1>0, <2>5, <2>6, <2>7 DEF Inv
<1>4. ASSUME NEW t \in Tasks, StoreSetex(t)
      PROVE  Inv'
  <2>1. /\ At(t) = "setex" /\ Jti(t) \in Jtis /\ Op(t) = "store"
        /\ task'[t].at = "sadd" /\ task'[t].jti = Jti(t) /\ task'[t].op = "store"
        /\ \A u \in Tasks \ {t} : task'[u] = task[u]
        /\ \A k \in Jtis \ {Jti(t)} : token'[k] = token[k]
        /\ UNCHANGED <<now, exp, list, listEnd, revoked, astray>>
    BY <1>0, <1>4 DEF StoreSetex, Types, Shape, Storing, history, Call
  <2>2. exp[Jti(t)] # 0 /\ ~Known(Jti(t)) /\ \A k \in Jtis \ {Jti(t)} : Known(k)' => Known(k)
    BY <2>1 DEF Inv, SetOnce, Known
  <2>3. SetOnce'
    BY <2>1, <2>2 DEF Inv, SetOnce, Types, Shape, Storing
  <2>4. Gone'
    BY <1>0, <2>1, <2>2 DEF Inv, Gone, Known, Shape, Types, Revoking
  <2>5. Listed'
    BY <2>1 DEF Inv, Listed, Listing
  <2>6. ListOutlives'
    BY <1>0, <2>1, <2>2 DEF Inv, ListOutlives, Known, Types
  <2>7. Remembered'
    BY <1>0, <2>1, <2>2 DEF Inv, Remembered, Remembers, Known, Types
  <2> QED
    BY <1>0, <2>3, <2>4, <2>5, <2>6, <2>7 DEF Inv
<1>5. ASSUME NEW t \in Tasks, StoreSadd(t)
      PROVE  Inv'
  <2>1. /\ At(t) = "sadd" /\ Jti(t) \in Jtis /\ Op(t) = "store"
        /\ list' = list \cup {Jti(t)}
        /\ UNCHANGED <<now, exp, token, listEnd, revoked, astray>>
    BY <1>0, <1>5 DEF StoreSadd, Shape, Storing, history
  <2>2. \A u \in Tasks : /\ task'[u].jti = task[u].jti /\ task'[u].op = task[u].op
                         /\ task'[u].todo = task[u].todo /\ task'[u].failed = task[u].failed
                         /\ u = t => task'[u].at = "expire"
                         /\ u # t => task'[u].at = task[u].at
                         /\ Op(u) = "logout" => task'[u].late = task[u].late \cup {Jti(t)}
    BY <1>0, <1>5, <2>1 DEF StoreSadd, Types, Call
  <2>3. \A k \in Jtis : Known(k)' => Known(k)
    BY <2>1, <2>2 DEF Known
  <2>4. SetOnce'
    BY <2>1, <2>2, <2>3 DEF Inv, SetOnce, Types, Shape, Storing
  <2>5. Gone' /\ Listed' /\ ListOutlives'
    BY <2>1, <2>2 DEF Inv, Gone, Listed, Listing, ListOutlives
  <2>6. Remembered'
    BY <2>1, <2>2 DEF Inv, Remembered, Remembers
  <2> QED
    BY <1>0, <2>4, <2>5, <2>6 DEF Inv
<1>6. ASSUME NEW t \in Tasks, StoreExpire(t)
      PROVE  Inv'
  <2>1. /\ At(t) = "expire" /\ Jti(t) \in Jtis /\ task[t].ttl \in Nat
        /\ task'[t].at = "idle" /\ task'[t].op = "none"
        /\ \A u \in Tasks \ {t} : task'[u] = task[u]
        /\ listEnd' = (IF list = {} THEN 0 ELSE now + task[t].ttl)
        /\ \A j \in Jtis : j \in astray' <=> \/ j \in astray \ list
                                             \/ j \in list /\ token[j] > now + task[t].ttl
                                             \/ j = Jti(t) /\ j \notin list
        /\ UNCHANGED <<now, exp, token, list, revoked>>
    BY <1>0, <1>6 DEF StoreExpire, Types, Shape, Storing, Call, Resting
  <2>2. \A k \in Jtis : Known(k)' => Known(k)
    BY <2>1 DEF Known
  <2>3. SetOnce'
    BY <2>1, <2>2 DEF Inv, SetOnce, Types, Shape, Storing
  <2>4. Gone'
    BY <2>1 DEF Inv, Gone
  <2>5. Listed'
    BY <2>1 DEF Inv, Listed, Listing
  <2>6. ListOutlives'
    BY <1>0, <2>1 DEF ListOutlives, Types
  <2>7. Remembered'
    BY <2>1 DEF Inv, Remembered, Remembers
  <2> QED
    BY <1>0, <2>3, <2>4, <2>5, <2>6, <2>7 DEF Inv
<1>7. ASSUME NEW t \in Tasks, StoreFails(t)
      PROVE  Inv'
  <2>1. /\ At(t) \in Storing /\ Jti(t) \in Jtis
        /\ task'[t].at = "idle" /\ task'[t].op = "none"
        /\ \A u \in Tasks \ {t} : task'[u] = task[u]
        /\ astray' = astray \cup {Jti(t)}
        /\ UNCHANGED <<now, exp, token, list, listEnd, revoked>>
    BY <1>0, <1>7 DEF StoreFails, Types, Shape, Resting, redis
  <2>2. \A k \in Jtis : Known(k)' => Known(k)
    BY <2>1 DEF Known
  <2>3. SetOnce'
    BY <2>1, <2>2 DEF Inv, SetOnce, Types, Shape, Storing
  <2>4. Gone' /\ Listed' /\ ListOutlives'
    BY <2>1 DEF Inv, Gone, Listed, Listing, ListOutlives
  <2>5. Remembered'
    BY <2>1 DEF Inv, Remembered, Remembers
  <2> QED
    BY <1>0, <2>3, <2>4, <2>5 DEF Inv
<1>8. ASSUME NEW t \in Tasks, Revoke(t) \/ RefreshTokens(t) \/ RefreshEnds(t) \/ LogoutEnds(t)
      PROVE  Inv'
  <2>1. /\ At(t) \notin {"sadd", "expire"} /\ task'[t].at \in {"idle", "get"} /\ task'[t].op # "logout"
        /\ \A u \in Tasks \ {t} : task'[u] = task[u]
        /\ UNCHANGED <<now, token, list, listEnd, revoked, astray>>
        /\ \A j \in Jtis : exp[j] # 0 => exp'[j] # 0
    <3>1. CASE Revoke(t)
      BY <1>0, <3>1 DEF Revoke, Types, Resting, redis, history
    <3>2. CASE RefreshTokens(t)
      BY <1>0, <3>2 DEF RefreshTokens, Types, Resting, redis, history
    <3>3. CASE LogoutEnds(t)
      BY <1>0, <3>3 DEF LogoutEnds, Types, Resting, redis, history
    <3>4. CASE RefreshEnds(t)
      <4>1. At(t) = "lookup" /\ task' = [task EXCEPT ![t] = Resting]
            /\ UNCHANGED <<now, token, list, listEnd, revoked, astray>>
        BY <3>4 DEF RefreshEnds, redis, history
      <4>2. \A j \in Jtis : exp[j] # 0 => exp'[j] # 0
        BY <1>0, <3>4 DEF RefreshEnds, Issued, Unissued, Types
      <4> QED
        BY <1>0, <4>1, <4>2 DEF Types, Resting
    <3> QED
      BY <1>8, <3>1, <3>2, <3>3, <3>4
  <2>2. \A u \in Tasks : task'[u].op = "logout" => Remembers(u)'
    BY <2>1 DEF Inv, Remembered, Remembers
  <2> QED
    BY <1>0, <2>1, <2>2, QuietStep
<1>9. ASSUME NEW t \in Tasks, Logout(t)
      PROVE  Inv'
  <2> DEFINE start == [Resting EXCEPT !.op = "logout", !.todo = list]
  <2>1. PICK next \in TakeNext(start) : task' = [task EXCEPT ![t] = next]
    BY <1>9 DEF Logout
  <2>2. start.todo = list /\ list # {} /\ At(t) = "idle"
    BY <1>9 DEF Logout, Resting
  <2>3. PICK j \in list : next = [start EXCEPT !.at = "get", !.jti = j, !.ttl = 0, !.todo = @ \ {j}]
    BY <2>1, <2>2 DEF TakeNext
  <2>4. /\ task'[t].at = "get" /\ task'[t].jti = j /\ task'[t].todo = list \ {j}
        /\ \A u \in Tasks \ {t} : task'[u] = task[u]
    BY <1>0, <2>1, <2>3 DEF Types, Resting
  <2>5. UNCHANGED <<now, exp, token, list, listEnd, revoked, astray>>
    BY <1>9 DEF Logout, redis, history
  <2>6. \A u \in Tasks : task'[u].op = "logout" => Remembers(u)'
    BY <2>4, <2>5 DEF Inv, Remembered, Remembers
  <2> QED
    BY <1>0, <2>2, <2>4, <2>5, <2>6, QuietStep
<1>10. ASSUME NEW t \in Tasks, RevokeGet(t), token[Jti(t)] = 0
       PROVE  Inv'
  <2>1. At(t) \in Revoking /\ Answer(t, TRUE) /\ At(t) = "get"
    BY <1>10 DEF RevokeGet, Revoking
  <2>2. /\ \A u \in Tasks \ {t} : task'[u] = task[u]
        /\ task'[t].at \in {"idle", "lookup", "drop", "get"}
    BY <1>0, <2>1, AnswerIsCall
  <2>3. UNCHANGED <<now, exp, token, list, listEnd, revoked, astray>>
    BY <1>10 DEF RevokeGet, redis, history
  <2>4. task'[t].op = "logout" => Remembers(t)'
    BY <1>10, <2>1, <2>3, AnswerRemembers
  <2>5. \A u \in Tasks : task'[u].op = "logout" => Remembers(u)'
    BY <2>2, <2>3, <2>4 DEF Inv, Remembered, Remembers
  <2> QED
    BY <1>0, <2>1, <2>2, <2>3, <2>5, QuietStep
<1>11. ASSUME NEW t \in Tasks, \/ RevokeGet(t) /\ token[Jti(t)] # 0
                               \/ RevokeMark(t)
       PROVE  Inv'
  <2>1. /\ At(t) \in {"get", "mark"} /\ Jti(t) \in Jtis
        /\ task'[t].at \in {"mark", "del"} /\ task'[t].jti = Jti(t) /\ task'[t].op = Op(t)
        /\ task'[t].todo = task[t].todo /\ task'[t].failed = task[t].failed
        /\ task'[t].late = task[t].late
        /\ \A u \in Tasks \ {t} : task'[u] = task[u]
        /\ UNCHANGED <<now, exp, token, list, listEnd, revoked, astray>>
    <3>1. task[t] \in Call /\ (At(t) \in Revoking => Jti(t) \in Jtis)
      BY <1>0 DEF Types, Shape
    <3>2. CASE RevokeMark(t)
      BY <1>0, <3>1, <3>2 DEF RevokeMark, Types, Revoking, Call, history
    <3>3. CASE RevokeGet(t) /\ token[Jti(t)] # 0
      <4>1. PICK d \in Ttls(Jti(t)) :
                task' = [task EXCEPT ![t].at = IF d = 0 THEN "del" ELSE "mark", ![t].ttl = d]
        BY <3>3 DEF RevokeGet
      <4>2. At(t) = "get" /\ UNCHANGED <<now, exp, token, list, listEnd, revoked, astray>>
        BY <3>3 DEF RevokeGet, redis, history
      <4> QED
        BY <1>0, <3>1, <4>1, <4>2 DEF Types, Revoking, Call
    <3> QED
      BY <1>11, <3>2, <3>3
  <2>2. Known(Jti(t)) /\ \A k \in Jtis : Known(k)' => Known(k)
    BY <1>11, <2>1 DEF Known, RevokeMark
  <2>3. SetOnce'
    BY <2>1, <2>2 DEF Inv, SetOnce, Types, Shape, Storing
  <2>4. Gone' /\ Listed' /\ ListOutlives'
    BY <2>1 DEF Inv, Gone, Listed, Listing, ListOutlives
  <2>5. Remembered'
    BY <2>1 DEF Inv, Remembered, Remembers
  <2> QED
    BY <1>0, <2>3, <2>4, <2>5 DEF Inv
<1>12. ASSUME NEW t \in Tasks, RevokeDel(t)
       PROVE  Inv'
  <2>1. /\ At(t) = "del" /\ Jti(t) \in Jtis
        /\ task'[t].at = "srem" /\ task'[t].jti = Jti(t) /\ task'[t].op = Op(t)
        /\ task'[t].todo = task[t].todo /\ task'[t].failed = task[t].failed
        /\ task'[t].late = task[t].late
        /\ \A u \in Tasks \ {t} : task'[u] = task[u]
        /\ \A k \in Jtis : token'[k] = IF k = Jti(t) THEN 0 ELSE token[k]
        /\ UNCHANGED <<now, exp, list, listEnd, revoked, astray>>
    BY <1>0, <1>12 DEF RevokeDel, Types, Shape, Revoking, Call, history
  <2>2. \A k \in Jtis : Known(k)' => Known(k)
    BY <2>1 DEF Known
  <2>3. SetOnce'
    BY <2>1, <2>2 DEF Inv, SetOnce, Types, Shape, Storing
  <2>4. Gone'
    BY <1>0, <2>1 DEF Inv, Gone, Types, Shape, Revoking
  <2>5. Listed'
    BY <2>1 DEF Inv, Listed, Listing
  <2>6. ListOutlives'
    BY <1>0, <2>1 DEF Inv, ListOutlives, Types
  <2>7. Remembered'
    BY <1>0, <2>1 DEF Inv, Remembered, Remembers, Types
  <2> QED
    BY <1>0, <2>3, <2>4, <2>5, <2>6, <2>7 DEF Inv
<1>13. ASSUME NEW t \in Tasks, RevokeSrem(t)
       PROVE  Inv'
  <2>1. /\ At(t) = "srem" /\ At(t) \in Revoking /\ Jti(t) \in Jtis /\ Answer(t, TRUE)
        /\ list' = list \ {Jti(t)} /\ revoked' = revoked \cup {Jti(t)}
        /\ listEnd' \in {0, listEnd} /\ UNCHANGED <<now, exp, token, astray>>
    BY <1>0, <1>13 DEF RevokeSrem, Shape, Revoking
  <2>2. /\ \A u \in Tasks \ {t} : task'[u] = task[u]
        /\ task'[t].at \in {"idle", "lookup", "drop", "get"}
    BY <1>0, <2>1, AnswerIsCall
  <2>3. Known(Jti(t)) /\ \A k \in Jtis : Known(k)' => Known(k)
    BY <2>1, <2>2 DEF Known
  <2>4. token[Jti(t)] = 0
    BY <2>1 DEF Inv, Gone
  <2>5. SetOnce'
    BY <2>1, <2>2, <2>3 DEF Inv, SetOnce, Types, Shape, Storing
  <2>6. Gone' /\ Listed' /\ ListOutlives'
    BY <2>1, <2>2, <2>4 DEF Inv, Gone, Listed, Listing, ListOutlives
  <2>7. task'[t].op = "logout" => Remembers(t)'
    BY <2>1, AnswerRemembers
  <2>8. Remembered'
    BY <2>1, <2>2, <2>7 DEF Inv, Remembered, Remembers
  <2> QED
    BY <1>0, <2>5, <2>6, <2>8 DEF Inv
<1>14. ASSUME NEW t \in Tasks, RevokeFails(t)
       PROVE  Inv'
  <2>1. At(t) \in Revoking /\ Answer(t, FALSE)
    BY <1>14 DEF RevokeFails
  <2>2. /\ \A u \in Tasks \ {t} : task'[u] = task[u]
        /\ task'[t].at \in {"idle", "lookup", "drop", "get"}
    BY <1>0, <2>1, AnswerIsCall
  <2>3. UNCHANGED <<now, exp, token, list, listEnd, revoked, astray>>
    BY <1>14 DEF RevokeFails, redis, history
  <2>4. task'[t].op = "logout" => Remembers(t)'
    BY <2>1, <2>3, AnswerRemembers
  <2>5. \A u \in Tasks : task'[u].op = "logout" => Remembers(u)'
    BY <2>2, <2>3, <2>4 DEF Inv, Remembered, Remembers
  <2>6. At(t) \notin {"sadd", "expire"}
    BY <2>1 DEF Revoking
  <2> QED
    BY <1>0, <2>2, <2>3, <2>5, <2>6, QuietStep
<1>15. ASSUME NEW t \in Tasks, LogoutDrop(t)
       PROVE  Inv'
  <2>1. /\ At(t) = "drop" /\ task'[t].at = "out" /\ task'[t].op = Op(t)
        /\ task'[t].todo = task[t].todo
        /\ \A u \in Tasks \ {t} : task'[u] = task[u]
        /\ list' = {} /\ listEnd' = 0
        /\ astray' = astray \cup (list \cap (task[t].failed \cup task[t].late))
        /\ UNCHANGED <<now, exp, token, revoked>>
    BY <1>0, <1>15 DEF LogoutDrop, Types, Call
  <2>2. Op(t) = "logout"
    BY <2>1 DEF Inv, Shape
  <2>3. Remembers(t)
    BY <2>2 DEF Inv, Remembered
  <2>4. \A k \in Jtis : Known(k)' => Known(k)
    BY <2>1 DEF Known
  <2>5. SetOnce'
    BY <2>1, <2>4 DEF Inv, SetOnce, Types, Shape, Storing
  <2>6. Gone' /\ ListOutlives'
    BY <2>1 DEF Inv, Gone, ListOutlives
  <2>7. Listed'
    BY <2>1, <2>3 DEF Inv, Listed, Listing, Remembers
  <2>8. Remembered'
    BY <2>1, <2>3 DEF Inv, Remembered, Remembers
  <2> QED
    BY <1>0, <2>5, <2>6, <2>7, <2>8 DEF Inv
<1> QED
  BY <1>1, <1>2, <1>3, <1>4, <1>5, <1>6, <1>7, <1>8, <1>9, <1>10, <1>11, <1>12, <1>13, <1>14, <1>15
     DEF Next

-----------------------------------------------------------------------------
(* The properties                                                          *)

(* A token whose revocation was answered is never valid again.             *)
THEOREM RevocationIsFinal == Spec => []RevokedStaysInvalid
<1>1. Inv => RevokedStaysInvalid
  BY DEF Inv, Gone, RevokedStaysInvalid, Valid
<1> QED
  BY <1>1, InvInit, InvStep, PTL DEF Spec

(* A valid token is on the list, but for those named astray.               *)
THEOREM ValidTokensAreListed == Spec => []ValidIsListed
<1>1. Inv => ValidIsListed
  BY DEF Inv, Listed, Listing, ValidIsListed, Valid
<1> QED
  BY <1>1, InvInit, InvStep, PTL DEF Spec

(* A logout that returns has left valid only what it could not revoke or   *)
(* not know of.                                                            *)
THEOREM LogoutLeavesNone == Spec => []LogoutIsComplete
<1>1. Inv => LogoutIsComplete
  <2> SUFFICES ASSUME Inv, NEW t \in Tasks, At(t) = "out", NEW j \in Jtis, Valid(j)
               PROVE  \/ j \in task[t].failed \cup task[t].late \cup astray
                      \/ \E u \in Tasks : Jti(u) = j /\ At(u) \in {"sadd", "expire"}
    BY DEF LogoutIsComplete
  <2>1. token[j] # 0
    BY DEF Valid
  <2>2. j \in list \cup astray \/ Listing(j)
    BY <2>1 DEF Inv, Listed
  <2>3. Remembers(t)
    BY DEF Inv, Shape, Remembered
  <2> QED
    BY <2>1, <2>2, <2>3 DEF Remembers, Listing
<1> QED
  BY <1>1, InvInit, InvStep, PTL DEF Spec
===============================================================================
