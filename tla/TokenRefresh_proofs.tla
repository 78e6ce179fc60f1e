-------------------------- MODULE TokenRefresh_proofs --------------------------
(***************************************************************************)
(* Proofs about jwt_manager.py, for every set of users, devices and calls: *)
(* the store and the manager (TokenRefresh), what they implement           *)
(* (TokenLife), and the client on top of them (AutoRefreshClient).         *)
(* RotationRetires is not inductive: that the token a call is about to     *)
(* store differs from every token a caller holds rests on the freshness of *)
(* jtis, and Ledger says where each jti may be.                            *)
(***************************************************************************)
EXTENDS AutoRefreshClient, TLAPS

(* The calls type-correctness has to consider, action by action. *)
CallStep(c) == \/ Validate(c) \/ RevokeOld(c) \/ MintSuccessor(c)
               \/ StoreNew(c) \/ Return(c) \/ Fail(c)
               \/ EndScan(c) \/ DeleteKeys(c)

LEMMA MintType ==
    ASSUME TypeOK, NEW s \in Slots
    PROVE  /\ Mint(s) \in Token
           /\ Mint(s).slot = s
           /\ Mint(s).jti = lastJti + 1
           /\ Mint(s).exp = now + RefreshLife
  BY RefreshAssumption DEF TypeOK, Mint, Token

(* The slot a call is working for, whenever it has one to work for. *)
HasSlot == \A c \in Calls :
    pc[c] \in {"validate", "revoke", "mint", "store", "return"}
        => slot[c] \in Slots

HasNew == \A c \in Calls :
    pc[c] \in {"store", "return"} => new[c] \in Token

HasOld == \A c \in Calls :
    pc[c] \in {"validate", "revoke"} => old[c] \in Token

TypeInv == TypeOK /\ HasSlot /\ HasNew /\ HasOld

LEMMA FinishType ==
    ASSUME TypeInv, NEW c \in Calls, Finish(c),
           UNCHANGED <<now, store, lastJti, delivered>>
    PROVE  TypeInv'
  BY RefreshAssumption DEF TypeInv, TypeOK, HasSlot, HasNew, HasOld, Finish

LEMMA TypeStep == TypeInv /\ [Next]_vars => TypeInv'
  <1> SUFFICES ASSUME TypeInv, [Next]_vars PROVE TypeInv'
    OBVIOUS
  <1> USE RefreshAssumption DEF TypeInv, TypeOK, HasSlot, HasNew, HasOld, scanVars
  <1>1. ASSUME NEW c \in Calls, NEW s \in Slots, BeginLogin(c, s)
        PROVE  TypeInv'
    BY <1>1, MintType DEF BeginLogin
  <1>2. ASSUME NEW c \in Calls, NEW s \in Slots, ScanKey(c, s)
        PROVE  TypeInv'
    BY <1>2 DEF ScanKey
  <1>3. ASSUME NEW c \in Calls, NEW t \in delivered, BeginRefresh(c, t)
        PROVE  TypeInv'
    BY <1>3 DEF BeginRefresh, Token
  <1>4. ASSUME NEW c \in Calls, CallStep(c)
        PROVE  TypeInv'
    <2>1. CASE Validate(c)
      <3>1. CASE Lookup(slot[c]) = old[c]
        <4>1. /\ pc' = [pc EXCEPT ![c] = "revoke"]
              /\ UNCHANGED <<now, store, lastJti, delivered, slot, old, new>>
              /\ UNCHANGED <<pattern, todo, found, missed>>
          BY <2>1, <3>1 DEF Validate
        <4> QED BY <2>1, <4>1 DEF Validate
      <3>2. CASE Lookup(slot[c]) # old[c]
        <4>1. Finish(c) /\ UNCHANGED <<now, store, lastJti, delivered>>
          BY <2>1, <3>2 DEF Validate
        <4> QED BY <4>1, FinishType
      <3> QED BY <3>1, <3>2
    <2>2. CASE RevokeOld(c)
      BY <2>2 DEF RevokeOld, Absent
    <2>3. CASE MintSuccessor(c)
      BY <2>3, MintType DEF MintSuccessor
    <2>4. CASE StoreNew(c)
      BY <2>4 DEF StoreNew, Setex
    <2>5. CASE Return(c)
      BY <2>5 DEF Return, Finish
    <2>6. CASE Fail(c)
      BY <2>6, FinishType DEF Fail
    <2>7. CASE EndScan(c)
      <3>1. CASE found[c] = {}
        <4>1. Finish(c) /\ UNCHANGED <<now, store, lastJti, delivered>>
          BY <2>7, <3>1 DEF EndScan
        <4> QED BY <4>1, FinishType
      <3>2. CASE found[c] # {}
        <4>1. /\ pc' = [pc EXCEPT ![c] = "delete"]
              /\ UNCHANGED <<now, store, lastJti, delivered, slot, old, new>>
              /\ UNCHANGED <<pattern, todo, found, missed>>
          BY <2>7, <3>2 DEF EndScan
        <4> QED BY <4>1
      <3> QED BY <3>1, <3>2
    <2>8. CASE DeleteKeys(c)
      BY <2>8 DEF DeleteKeys, Finish, Absent
    <2> QED BY <1>4, <2>1, <2>2, <2>3, <2>4, <2>5, <2>6, <2>7, <2>8
               DEF CallStep
  <1>5. ASSUME NEW c \in Calls, NEW u \in Users, BeginRevokeAll(c, u)
        PROVE  TypeInv'
    BY <1>5 DEF BeginRevokeAll, Slots
  <1>6. ASSUME NEW s \in Slots, RevokeDevice(s)
        PROVE  TypeInv'
    BY <1>6 DEF RevokeDevice, Absent
  <1>7. CASE Tick
    BY <1>7 DEF Tick
  <1>8. CASE UNCHANGED vars
    BY <1>8 DEF vars
  <1> QED
    BY <1>1, <1>2, <1>3, <1>4, <1>5, <1>6, <1>7, <1>8 DEF Next, CallStep

LEMMA TypeInit == Init => TypeInv
  BY RefreshAssumption
     DEF Init, TypeInv, TypeOK, HasSlot, HasNew, HasOld, Absent

(* Every variable keeps its type in every behaviour. *)
THEOREM TypeCorrect == Spec => []TypeOK
  <1>1. TypeInv => TypeOK
    BY DEF TypeInv
  <1> QED BY TypeInit, TypeStep, <1>1, PTL DEF Spec
-----------------------------------------------------------------------------
(* Where the jtis are.  Every one that exists is at most lastJti, a key    *)
(* holds a token of its own slot, a refresh presents a token some caller   *)
(* was given, and a token about to be stored is known to its call alone.   *)
Ledger ==
    /\ \A s \in Slots : store[s].token # NoToken
            => store[s].token.jti <= lastJti /\ store[s].token.slot = s
    /\ \A t \in delivered : t.jti <= lastJti
    /\ \A c \in Calls : old[c] # NoToken
            => old[c] \in delivered /\ old[c].slot = slot[c] /\ pc[c] # "idle"
    /\ \A c \in Calls : pc[c] \in {"store", "return"}
            => new[c].jti <= lastJti /\ new[c].slot = slot[c]
    /\ \A c \in Calls : pc[c] = "store"
            => /\ new[c] \notin delivered
               /\ \A d \in Calls : d # c /\ pc[d] \in {"store", "return"}
                                        => new[d] # new[c]

RetireInv == TypeInv /\ Ledger /\ RotationRetires

LEMMA FinishRetire ==
    ASSUME RetireInv, NEW c \in Calls, Finish(c),
           UNCHANGED <<now, store, lastJti, delivered>>
    PROVE  Ledger' /\ RotationRetires'
  BY DEF RetireInv, TypeInv, TypeOK, Finish, Ledger, RotationRetires

LEMMA RetireStep == RetireInv /\ [Next]_vars => RetireInv'
  <1> SUFFICES ASSUME RetireInv, [Next]_vars PROVE Ledger' /\ RotationRetires'
    BY TypeStep DEF RetireInv
  <1>0. TypeInv
    BY DEF RetireInv
  <1> USE DEF RetireInv, Ledger, RotationRetires, scanVars
  <1>1. ASSUME NEW c \in Calls, NEW s \in Slots, BeginLogin(c, s)
        PROVE  Ledger' /\ RotationRetires'
    <2>1. /\ Mint(s) \in Token
          /\ Mint(s).slot = s
          /\ Mint(s).jti = lastJti + 1
      BY <1>0, MintType DEF TypeInv
    <2>2. Mint(s) \notin delivered
      BY <1>0, <2>1 DEF TypeInv, TypeOK
    <2>3. \A d \in Calls : pc[d] \in {"store", "return"} => new[d] # Mint(s)
      BY <1>0, <2>1 DEF TypeInv, TypeOK
    <2> QED BY <1>0, <1>1, <2>1, <2>2, <2>3
            DEF BeginLogin, TypeInv, TypeOK, HasNew, Token
  <1>2. ASSUME NEW c \in Calls, NEW s \in Slots, ScanKey(c, s)
        PROVE  Ledger' /\ RotationRetires'
    BY <1>2 DEF ScanKey
  <1>3. ASSUME NEW c \in Calls, NEW t \in delivered, BeginRefresh(c, t)
        PROVE  Ledger' /\ RotationRetires'
    BY <1>0, <1>3 DEF BeginRefresh, TypeInv, TypeOK
  <1>4. ASSUME NEW c \in Calls, CallStep(c)
        PROVE  Ledger' /\ RotationRetires'
    <2>1. CASE Validate(c)
      <3>1. CASE Lookup(slot[c]) = old[c]
        <4>1. /\ pc' = [pc EXCEPT ![c] = "revoke"]
              /\ UNCHANGED <<now, store, lastJti, delivered, slot, old, new>>
          BY <2>1, <3>1 DEF Validate
        <4> QED BY <1>0, <4>1 DEF TypeInv, TypeOK
      <3>2. CASE Lookup(slot[c]) # old[c]
        <4>1. Finish(c) /\ UNCHANGED <<now, store, lastJti, delivered>>
          BY <2>1, <3>2 DEF Validate
        <4> QED BY <4>1, FinishRetire
      <3> QED BY <3>1, <3>2
    <2>2. CASE RevokeOld(c)
      BY <1>0, <2>2 DEF RevokeOld, Absent, TypeInv, TypeOK, HasSlot
    <2>3. CASE MintSuccessor(c)
      <3>0. slot[c] \in Slots
        BY <1>0, <2>3 DEF MintSuccessor, TypeInv, HasSlot
      <3>1. /\ Mint(slot[c]) \in Token
            /\ Mint(slot[c]).slot = slot[c]
            /\ Mint(slot[c]).jti = lastJti + 1
        BY <1>0, <3>0, MintType DEF TypeInv
      <3>2. Mint(slot[c]) \notin delivered
        BY <1>0, <3>1 DEF TypeInv, TypeOK
      <3>3. \A d \in Calls : pc[d] \in {"store", "return"}
                                  => new[d] # Mint(slot[c])
        BY <1>0, <3>1 DEF TypeInv, TypeOK
      <3> QED BY <1>0, <2>3, <3>1, <3>2, <3>3
              DEF MintSuccessor, TypeInv, TypeOK, HasNew, Token
    <2>4. CASE StoreNew(c)
      <3>1. /\ slot[c] \in Slots
            /\ new[c] \notin delivered
            /\ new[c].slot = slot[c] /\ new[c].jti <= lastJti
        BY <1>0, <2>4 DEF StoreNew, Setex, TypeInv, HasSlot
      <3>2. \A d \in Calls : old[d] # NoToken => old[d] # new[c]
        BY <3>1
      <3> QED BY <1>0, <2>4, <3>1, <3>2 DEF StoreNew, Setex, TypeInv, TypeOK
    <2>5. CASE Return(c)
      BY <1>0, <2>5 DEF Return, Finish, TypeInv, TypeOK, HasNew
    <2>6. CASE Fail(c)
      BY <2>6, FinishRetire DEF Fail
    <2>7. CASE EndScan(c)
      <3>1. CASE found[c] = {}
        <4>1. Finish(c) /\ UNCHANGED <<now, store, lastJti, delivered>>
          BY <2>7, <3>1 DEF EndScan
        <4> QED BY <4>1, FinishRetire
      <3>2. CASE found[c] # {}
        <4>1. /\ pc' = [pc EXCEPT ![c] = "delete"]
              /\ UNCHANGED <<now, store, lastJti, delivered, slot, old, new>>
          BY <2>7, <3>2 DEF EndScan
        <4> QED BY <1>0, <4>1 DEF TypeInv, TypeOK
      <3> QED BY <3>1, <3>2
    <2>8. CASE DeleteKeys(c)
      BY <1>0, <2>8 DEF DeleteKeys, Finish, Absent, TypeInv, TypeOK
    <2> QED BY <1>4, <2>1, <2>2, <2>3, <2>4, <2>5, <2>6, <2>7, <2>8
               DEF CallStep
  <1>5. ASSUME NEW c \in Calls, NEW u \in Users, BeginRevokeAll(c, u)
        PROVE  Ledger' /\ RotationRetires'
    BY <1>0, <1>5 DEF BeginRevokeAll, TypeInv, TypeOK
  <1>6. ASSUME NEW s \in Slots, RevokeDevice(s)
        PROVE  Ledger' /\ RotationRetires'
    BY <1>0, <1>6 DEF RevokeDevice, Absent, TypeInv, TypeOK
  <1>7. CASE Tick
    BY <1>7 DEF Tick
  <1>8. CASE UNCHANGED vars
    BY <1>8 DEF vars
  <1> QED
    BY <1>1, <1>2, <1>3, <1>4, <1>5, <1>6, <1>7, <1>8 DEF Next, CallStep

LEMMA RetireInit == Init => RetireInv
  BY TypeInit DEF Init, RetireInv, Ledger, RotationRetires, Absent

(* A token a refresh has revoked is never again the one a key holds.       *)
THEOREM RotationIsFinal == Spec => []RotationRetires
  <1>1. RetireInv => RotationRetires
    BY DEF RetireInv
  <1> QED BY RetireInit, RetireStep, <1>1, PTL DEF Spec

-----------------------------------------------------------------------------
(* A token about to be stored was created at most a moment ago. *)
Recent == \A c \in Calls : pc[c] \in {"store", "return"}
                                => new[c].exp <= now + RefreshLife

LifetimeInv == TypeInv /\ Recent /\ PromisedLifetime

LEMMA LifetimeStep ==
    ASSUME StoreTtl >= RefreshLife
    PROVE  LifetimeInv /\ [Next]_vars => LifetimeInv'
  <1> SUFFICES ASSUME LifetimeInv, [Next]_vars
               PROVE  Recent' /\ PromisedLifetime'
    BY TypeStep DEF LifetimeInv
  <1>0. TypeInv
    BY DEF LifetimeInv
  <1> USE RefreshAssumption DEF LifetimeInv, Recent, PromisedLifetime, scanVars
  <1>a. ASSUME NEW c \in Calls, Finish(c), UNCHANGED <<now, store>>
        PROVE  Recent' /\ PromisedLifetime'
    BY <1>0, <1>a DEF Finish, TypeInv, TypeOK
  <1>1. ASSUME NEW c \in Calls, NEW s \in Slots, BeginLogin(c, s)
        PROVE  Recent' /\ PromisedLifetime'
    <2>1. Mint(s) \in Token /\ Mint(s).exp = now + RefreshLife
      BY <1>0, MintType DEF TypeInv
    <2> QED BY <1>0, <1>1, <2>1 DEF BeginLogin, TypeInv, TypeOK
  <1>2. ASSUME NEW c \in Calls, NEW s \in Slots, ScanKey(c, s)
        PROVE  Recent' /\ PromisedLifetime'
    BY <1>2 DEF ScanKey
  <1>3. ASSUME NEW c \in Calls, NEW t \in delivered, BeginRefresh(c, t)
        PROVE  Recent' /\ PromisedLifetime'
    BY <1>0, <1>3 DEF BeginRefresh, TypeInv, TypeOK
  <1>4. ASSUME NEW c \in Calls, CallStep(c)
        PROVE  Recent' /\ PromisedLifetime'
    <2>1. CASE Validate(c)
      <3>1. CASE Lookup(slot[c]) = old[c]
        <4>1. /\ pc' = [pc EXCEPT ![c] = "revoke"]
              /\ UNCHANGED <<now, store, new>>
          BY <2>1, <3>1 DEF Validate
        <4> QED BY <1>0, <4>1 DEF TypeInv, TypeOK
      <3>2. CASE Lookup(slot[c]) # old[c]
        <4>1. Finish(c) /\ UNCHANGED <<now, store>>
          BY <2>1, <3>2 DEF Validate
        <4> QED BY <4>1, <1>a
      <3> QED BY <3>1, <3>2
    <2>2. CASE RevokeOld(c)
      BY <1>0, <2>2 DEF RevokeOld, Absent, TypeInv, TypeOK
    <2>3. CASE MintSuccessor(c)
      <3>1. /\ Mint(slot[c]) \in Token
            /\ Mint(slot[c]).exp = now + RefreshLife
        BY <1>0, <2>3, MintType DEF MintSuccessor, TypeInv, HasSlot
      <3> QED BY <1>0, <2>3, <3>1 DEF MintSuccessor, TypeInv, TypeOK
    <2>4. CASE StoreNew(c)
      <3>1. now + StoreTtl >= new[c].exp
        BY <1>0, <2>4 DEF StoreNew, Setex, TypeInv, TypeOK, HasNew, Token
      <3> QED BY <1>0, <2>4, <3>1 DEF StoreNew, Setex, TypeInv, TypeOK
    <2>5. CASE Return(c)
      BY <2>5, <1>a DEF Return
    <2>6. CASE Fail(c)
      BY <2>6, <1>a DEF Fail
    <2>7. CASE EndScan(c)
      <3>1. CASE found[c] = {}
        <4>1. Finish(c) /\ UNCHANGED <<now, store>>
          BY <2>7, <3>1 DEF EndScan
        <4> QED BY <4>1, <1>a
      <3>2. CASE found[c] # {}
        <4>1. /\ pc' = [pc EXCEPT ![c] = "delete"]
              /\ UNCHANGED <<now, store, new>>
          BY <2>7, <3>2 DEF EndScan
        <4> QED BY <1>0, <4>1 DEF TypeInv, TypeOK
      <3> QED BY <3>1, <3>2
    <2>8. CASE DeleteKeys(c)
      BY <1>0, <2>8 DEF DeleteKeys, Finish, Absent, TypeInv, TypeOK
    <2> QED BY <1>4, <2>1, <2>2, <2>3, <2>4, <2>5, <2>6, <2>7, <2>8
               DEF CallStep
  <1>5. ASSUME NEW c \in Calls, NEW u \in Users, BeginRevokeAll(c, u)
        PROVE  Recent' /\ PromisedLifetime'
    BY <1>0, <1>5 DEF BeginRevokeAll, TypeInv, TypeOK
  <1>6. ASSUME NEW s \in Slots, RevokeDevice(s)
        PROVE  Recent' /\ PromisedLifetime'
    BY <1>0, <1>6 DEF RevokeDevice, Absent, TypeInv, TypeOK
  <1>7. CASE Tick
    BY <1>0, <1>7 DEF Tick, TypeInv, TypeOK, HasNew, Token
  <1>8. CASE UNCHANGED vars
    BY <1>8 DEF vars
  <1> QED
    BY <1>1, <1>2, <1>3, <1>4, <1>5, <1>6, <1>7, <1>8 DEF Next, CallStep

(* When the store's TTL covers the life of a refresh token, no key lapses  *)
(* before the token it holds.                                              *)
THEOREM LifetimeKept ==
    ASSUME StoreTtl >= RefreshLife
    PROVE  Spec => []PromisedLifetime
  <1>1. Init => LifetimeInv
    BY TypeInit DEF Init, LifetimeInv, Recent, PromisedLifetime, Absent
  <1>2. LifetimeInv /\ [Next]_vars => LifetimeInv'
    BY LifetimeStep
  <1>3. LifetimeInv => PromisedLifetime
    BY DEF LifetimeInv
  <1> QED BY <1>1, <1>2, <1>3, PTL DEF Spec

-----------------------------------------------------------------------------
LEMMA CompleteStep ==
    TypeInv /\ RevokeAllComplete /\ [Next]_vars => RevokeAllComplete'
  <1> SUFFICES ASSUME TypeInv, RevokeAllComplete, [Next]_vars
               PROVE  RevokeAllComplete'
    OBVIOUS
  <1> USE RefreshAssumption
      DEF RevokeAllComplete, Lookup, TypeInv, TypeOK, scanVars
  <1>a. ASSUME NEW c \in Calls, Finish(c), UNCHANGED <<now, store>>
        PROVE  RevokeAllComplete'
    BY <1>a DEF Finish
  <1>1. ASSUME NEW c \in Calls, NEW s \in Slots, BeginLogin(c, s)
        PROVE  RevokeAllComplete'
    BY <1>1 DEF BeginLogin
  <1>2. ASSUME NEW c \in Calls, NEW s \in Slots, ScanKey(c, s)
        PROVE  RevokeAllComplete'
    BY <1>2 DEF ScanKey
  <1>3. ASSUME NEW c \in Calls, NEW t \in delivered, BeginRefresh(c, t)
        PROVE  RevokeAllComplete'
    BY <1>3 DEF BeginRefresh
  <1>4. ASSUME NEW c \in Calls, CallStep(c)
        PROVE  RevokeAllComplete'
    <2>1. CASE Validate(c)
      <3>1. CASE Lookup(slot[c]) = old[c]
        BY <2>1, <3>1 DEF Validate
      <3>2. CASE Lookup(slot[c]) # old[c]
        <4>1. Finish(c) /\ UNCHANGED <<now, store>>
          BY <2>1, <3>2 DEF Validate
        <4> QED BY <4>1, <1>a
      <3> QED BY <3>1, <3>2
    <2>2. CASE RevokeOld(c)
      BY <2>2 DEF RevokeOld, Absent
    <2>3. CASE MintSuccessor(c)
      BY <2>3 DEF MintSuccessor
    <2>4. CASE StoreNew(c)
      BY <2>4 DEF StoreNew, Setex
    <2>5. CASE Return(c)
      BY <2>5, <1>a DEF Return
    <2>6. CASE Fail(c)
      BY <2>6, <1>a DEF Fail
    <2>7. CASE EndScan(c)
      <3>1. CASE found[c] = {}
        <4>1. Finish(c) /\ UNCHANGED <<now, store>>
          BY <2>7, <3>1 DEF EndScan
        <4> QED BY <4>1, <1>a
      <3>2. CASE found[c] # {}
        BY <2>7, <3>2 DEF EndScan
      <3> QED BY <3>1, <3>2
    <2>8. CASE DeleteKeys(c)
      BY <2>8 DEF DeleteKeys, Finish, Absent
    <2> QED BY <1>4, <2>1, <2>2, <2>3, <2>4, <2>5, <2>6, <2>7, <2>8
               DEF CallStep
  <1>5. ASSUME NEW c \in Calls, NEW u \in Users, BeginRevokeAll(c, u)
        PROVE  RevokeAllComplete'
    BY <1>5 DEF BeginRevokeAll
  <1>6. ASSUME NEW s \in Slots, RevokeDevice(s)
        PROVE  RevokeAllComplete'
    BY <1>6 DEF RevokeDevice, Absent
  <1>7. CASE Tick
    BY <1>7 DEF Tick
  <1>8. CASE UNCHANGED vars
    BY <1>8 DEF vars
  <1> QED
    BY <1>1, <1>2, <1>3, <1>4, <1>5, <1>6, <1>7, <1>8 DEF Next, CallStep

(* revoke_all_user_tokens overlooks nothing but concurrent stores. *)
THEOREM RevokeAllIsComplete == Spec => []RevokeAllComplete
  <1>1. Init => RevokeAllComplete
    BY DEF Init, RevokeAllComplete
  <1> QED BY TypeInit, TypeStep, CompleteStep, <1>1, PTL DEF Spec

-----------------------------------------------------------------------------
QuietStep == \A s \in Slots : Quiet(s) => \/ Quiet(s)'
                                          \/ \E c \in Calls : BeginLogin(c, s)

LEMMA QuietKept == TypeInv /\ [Next]_vars => QuietStep
  <1> SUFFICES ASSUME TypeInv, [Next]_vars, NEW s \in Slots, Quiet(s)
               PROVE  Quiet(s)' \/ \E c \in Calls : BeginLogin(c, s)
    BY DEF QuietStep
  <1> USE RefreshAssumption DEF Quiet, Writer, Lookup, TypeInv, TypeOK
  <1>a. ASSUME NEW c \in Calls, Finish(c), UNCHANGED <<now, store>>
        PROVE  Quiet(s)'
    BY <1>a DEF Finish
  <1>1. ASSUME NEW c \in Calls, NEW r \in Slots, BeginLogin(c, r), r # s
        PROVE  Quiet(s)'
    BY <1>1 DEF BeginLogin
  <1>2. ASSUME NEW c \in Calls, NEW r \in Slots, ScanKey(c, r)
        PROVE  Quiet(s)'
    BY <1>2 DEF ScanKey
  <1>3. ASSUME NEW c \in Calls, NEW t \in delivered, BeginRefresh(c, t)
        PROVE  Quiet(s)'
    BY <1>3 DEF BeginRefresh
  <1>4. ASSUME NEW c \in Calls, CallStep(c)
        PROVE  Quiet(s)'
    <2>1. CASE Validate(c)
      <3>1. CASE Lookup(slot[c]) = old[c]
        <4>1. slot[c] # s
          BY <2>1, <3>1 DEF Validate, HasOld
        <4> QED BY <2>1, <3>1, <4>1 DEF Validate
      <3>2. CASE Lookup(slot[c]) # old[c]
        <4>1. Finish(c) /\ UNCHANGED <<now, store>>
          BY <2>1, <3>2 DEF Validate
        <4> QED BY <4>1, <1>a
      <3> QED BY <3>1, <3>2
    <2>2. CASE RevokeOld(c)
      BY <2>2 DEF RevokeOld
    <2>3. CASE MintSuccessor(c)
      BY <2>3 DEF MintSuccessor
    <2>4. CASE StoreNew(c)
      BY <2>4 DEF StoreNew, Setex, HasSlot
    <2>5. CASE Return(c)
      BY <2>5, <1>a DEF Return
    <2>6. CASE Fail(c)
      BY <2>6, <1>a DEF Fail
    <2>7. CASE EndScan(c)
      <3>1. CASE found[c] = {}
        <4>1. Finish(c) /\ UNCHANGED <<now, store>>
          BY <2>7, <3>1 DEF EndScan
        <4> QED BY <4>1, <1>a
      <3>2. CASE found[c] # {}
        BY <2>7, <3>2 DEF EndScan
      <3> QED BY <3>1, <3>2
    <2>8. CASE DeleteKeys(c)
      BY <2>8 DEF DeleteKeys, Finish, Absent
    <2> QED BY <1>4, <2>1, <2>2, <2>3, <2>4, <2>5, <2>6, <2>7, <2>8
               DEF CallStep
  <1>5. ASSUME NEW c \in Calls, NEW u \in Users, BeginRevokeAll(c, u)
        PROVE  Quiet(s)'
    BY <1>5 DEF BeginRevokeAll
  <1>6. ASSUME NEW r \in Slots, RevokeDevice(r)
        PROVE  Quiet(s)'
    BY <1>6 DEF RevokeDevice, Absent
  <1>7. CASE Tick
    BY <1>7 DEF Tick
  <1>8. CASE UNCHANGED vars
    BY <1>8 DEF vars
  <1> QED
    BY <1>1, <1>2, <1>3, <1>4, <1>5, <1>6, <1>7, <1>8 DEF Next, CallStep

(* Only a login brings a slot with no token and no writer back to life. *)
THEOREM RevocationIsFinal == Spec => QuietStaysQuiet
  <1>1. TypeInv /\ [Next]_vars => [QuietStep]_vars
    BY QuietKept
  <1>2. TypeInv /\ [Next]_vars => [\A s \in Slots : Quiet(s) =>
            \/ Quiet(s)'
            \/ \E c \in Calls : BeginLogin(c, s)]_vars
    BY <1>1 DEF QuietStep
  <1> QED BY TypeInit, TypeStep, <1>2, PTL DEF Spec, QuietStaysQuiet

-----------------------------------------------------------------------------
(* TokenRefresh implements TokenLife: each step of the store is one step   *)
(* of the abstract specification, or leaves it as it was.                  *)

(* No jti is in two places: the keys and the calls about to store. *)
Distinct ==
    /\ \A r, s \in Slots :
            r # s /\ store[r].token # NoToken /\ store[s].token # NoToken
                => store[r].token.jti # store[s].token.jti
    /\ \A c \in Calls : pc[c] = "store" => \A s \in Slots :
            store[s].token # NoToken => store[s].token.jti # new[c].jti
    /\ \A c, d \in Calls : c # d /\ pc[c] = "store" /\ pc[d] = "store"
            => new[c].jti # new[d].jti

LifeInv == RetireInv /\ Distinct

LEMMA DistinctStep == LifeInv /\ [Next]_vars => LifeInv'
  <1> SUFFICES ASSUME LifeInv, [Next]_vars PROVE Distinct'
    BY RetireStep DEF LifeInv
  <1>0. TypeInv /\ Ledger /\ Distinct
    BY DEF LifeInv, RetireInv
  <1> USE <1>0, RefreshAssumption DEF Distinct, scanVars
  <1>a. ASSUME NEW c \in Calls, Finish(c), UNCHANGED store
        PROVE  Distinct'
    BY <1>a DEF Finish, TypeInv, TypeOK
  <1>b. ASSUME NEW c \in Calls, NEW s \in Slots,
               new' = [new EXCEPT ![c] = Mint(s)],
               pc' = [pc EXCEPT ![c] = "store"], UNCHANGED store
        PROVE  Distinct'
    <2>1. Mint(s) \in Token /\ Mint(s).jti = lastJti + 1
      BY MintType DEF TypeInv
    <2>2. \A r \in Slots : store[r].token # NoToken
                => store[r].token.jti \in Nat /\ store[r].token.jti <= lastJti
      BY DEF Ledger, TypeInv, TypeOK, Token
    <2>3. \A d \in Calls : pc[d] = "store"
                => new[d].jti \in Nat /\ new[d].jti <= lastJti
      BY DEF Ledger, TypeInv, TypeOK, HasNew, Token
    <2>4. lastJti \in Nat
      BY DEF TypeInv, TypeOK
    <2> QED BY <1>b, <2>1, <2>2, <2>3, <2>4 DEF TypeInv, TypeOK
  <1>1. ASSUME NEW c \in Calls, NEW s \in Slots, BeginLogin(c, s)
        PROVE  Distinct'
    BY <1>1, <1>b DEF BeginLogin
  <1>2. ASSUME NEW c \in Calls, NEW s \in Slots, ScanKey(c, s)
        PROVE  Distinct'
    BY <1>2 DEF ScanKey
  <1>3. ASSUME NEW c \in Calls, NEW t \in delivered, BeginRefresh(c, t)
        PROVE  Distinct'
    BY <1>3 DEF BeginRefresh, TypeInv, TypeOK
  <1>4. ASSUME NEW c \in Calls, CallStep(c)
        PROVE  Distinct'
    <2>1. CASE Validate(c)
      <3>1. CASE Lookup(slot[c]) = old[c]
        <4>1. pc' = [pc EXCEPT ![c] = "revoke"] /\ UNCHANGED <<store, new>>
          BY <2>1, <3>1 DEF Validate
        <4> QED BY <4>1 DEF TypeInv, TypeOK
      <3>2. CASE Lookup(slot[c]) # old[c]
        <4>1. Finish(c) /\ UNCHANGED store
          BY <2>1, <3>2 DEF Validate
        <4> QED BY <4>1, <1>a
      <3> QED BY <3>1, <3>2
    <2>2. CASE RevokeOld(c)
      BY <2>2 DEF RevokeOld, Absent, TypeInv, TypeOK
    <2>3. CASE MintSuccessor(c)
      BY <2>3, <1>b DEF MintSuccessor, TypeInv, HasSlot
    <2>4. CASE StoreNew(c)
      <3>1. /\ slot[c] \in Slots /\ new[c] \in Token /\ pc[c] = "store"
            /\ store' = [store EXCEPT ![slot[c]] =
                            [token |-> new[c], until |-> now + StoreTtl]]
            /\ pc' = [pc EXCEPT ![c] = "return"]
            /\ new' = new
        BY <2>4 DEF StoreNew, Setex, TypeInv, HasSlot, HasNew
      <3>2. \A s \in Slots : store'[s].token = IF s = slot[c] THEN new[c]
                                               ELSE store[s].token
        BY <3>1 DEF TypeInv, TypeOK
      <3> QED BY <3>1, <3>2 DEF TypeInv, TypeOK
    <2>5. CASE Return(c)
      BY <2>5, <1>a DEF Return
    <2>6. CASE Fail(c)
      BY <2>6, <1>a DEF Fail
    <2>7. CASE EndScan(c)
      <3>1. CASE found[c] = {}
        <4>1. Finish(c) /\ UNCHANGED store
          BY <2>7, <3>1 DEF EndScan
        <4> QED BY <4>1, <1>a
      <3>2. CASE found[c] # {}
        <4>1. pc' = [pc EXCEPT ![c] = "delete"] /\ UNCHANGED <<store, new>>
          BY <2>7, <3>2 DEF EndScan
        <4> QED BY <4>1 DEF TypeInv, TypeOK
      <3> QED BY <3>1, <3>2
    <2>8. CASE DeleteKeys(c)
      BY <2>8 DEF DeleteKeys, Finish, Absent, TypeInv, TypeOK
    <2> QED BY <1>4, <2>1, <2>2, <2>3, <2>4, <2>5, <2>6, <2>7, <2>8
               DEF CallStep
  <1>5. ASSUME NEW c \in Calls, NEW u \in Users, BeginRevokeAll(c, u)
        PROVE  Distinct'
    BY <1>5 DEF BeginRevokeAll, TypeInv, TypeOK
  <1>6. ASSUME NEW s \in Slots, RevokeDevice(s)
        PROVE  Distinct'
    BY <1>6 DEF RevokeDevice, Absent, TypeInv, TypeOK
  <1>7. CASE Tick
    BY <1>7 DEF Tick
  <1>8. CASE UNCHANGED vars
    BY <1>8 DEF vars
  <1> QED
    BY <1>1, <1>2, <1>3, <1>4, <1>5, <1>6, <1>7, <1>8 DEF Next, CallStep

-----------------------------------------------------------------------------
(* The abstract state, spelled out. *)
LEMMA CurrentType ==
    ASSUME LifeInv
    PROVE  /\ CurrentJti \in [Slots -> Nat]
           /\ \A s \in Slots : CurrentJti[s] # 0 => /\ CurrentJti[s] \in 1..lastJti
                                                    /\ Lookup(s) # NoToken
                                                    /\ CurrentJti[s] = store[s].token.jti
  BY RefreshAssumption
     DEF LifeInv, RetireInv, TypeInv, TypeOK, Ledger, CurrentJti, Lookup, Token

LEMMA PendingMember ==
    ASSUME NEW j
    PROVE  j \in PendingJtis <=> \E c \in Calls : pc[c] = "store" /\ new[c].jti = j
  BY DEF PendingJtis

LEMMA CurrentDistinct ==
    ASSUME LifeInv
    PROVE  /\ \A r, s \in Slots : CurrentJti[r] = CurrentJti[s]
                                  /\ CurrentJti[s] # 0 => r = s
           /\ \A s \in Slots : CurrentJti[s] # 0
                                  => CurrentJti[s] \notin PendingJtis
  <1>1. \A s \in Slots : CurrentJti[s] # 0
            => store[s].token # NoToken /\ CurrentJti[s] = store[s].token.jti
    BY CurrentType DEF Lookup
  <1> QED BY <1>1, PendingMember DEF LifeInv, Distinct

(* Steps that touch no key, no pending token and no clock. *)
LEMMA Stutters ==
    ASSUME UNCHANGED <<now, store, lastJti>>, PendingJtis' = PendingJtis
    PROVE  UNCHANGED Life!lifeVars
  <1>1. CurrentJti' = CurrentJti
    BY DEF CurrentJti, Lookup
  <1>2. SpentJtis' = SpentJtis
    BY <1>1 DEF SpentJtis
  <1> QED BY <1>1, <1>2 DEF Life!lifeVars

(* Keys deleted or past their TTL. *)
LEMMA Retires ==
    ASSUME LifeInv, NEW S \in SUBSET Slots,
           lastJti' = lastJti, PendingJtis' = PendingJtis,
           \A s \in Slots : Lookup(s)' = IF s \in S THEN NoToken ELSE Lookup(s)
    PROVE  Life!Retire(S)
  <1>1. CurrentJti' = [s \in Slots |-> IF s \in S THEN 0 ELSE CurrentJti[s]]
    BY DEF CurrentJti
  <1>2. SpentJtis' = SpentJtis \cup ({CurrentJti[s] : s \in S} \ {0})
    <2>1. ASSUME NEW j \in SpentJtis'
          PROVE  j \in SpentJtis \cup ({CurrentJti[s] : s \in S} \ {0})
      <3>1. j \in 1..lastJti /\ j \notin PendingJtis /\ j # 0
        BY <2>1 DEF SpentJtis, LifeInv, RetireInv, TypeInv, TypeOK
      <3>2. \A s \in Slots \ S : CurrentJti[s] # j
        BY <2>1, <1>1 DEF SpentJtis
      <3> QED BY <3>1, <3>2 DEF SpentJtis
    <2>2. ASSUME NEW j \in SpentJtis PROVE j \in SpentJtis'
      <3>1. j # 0
        BY <2>2 DEF SpentJtis, LifeInv, RetireInv, TypeInv, TypeOK
      <3> QED BY <2>2, <3>1, <1>1 DEF SpentJtis
    <2>3. ASSUME NEW s \in S, CurrentJti[s] # 0 PROVE CurrentJti[s] \in SpentJtis'
      BY <2>3, <1>1, CurrentType, CurrentDistinct DEF SpentJtis
    <2> QED BY <2>1, <2>2, <2>3
  <1> QED BY <1>1, <1>2 DEF Life!Retire

LEMMA LifeStep ==
    LifeInv /\ LifeInv' /\ [Next]_vars => [Life!LifeNext]_(Life!lifeVars)
  <1> SUFFICES ASSUME LifeInv, LifeInv', [Next]_vars
               PROVE  Life!LifeNext \/ UNCHANGED Life!lifeVars
    OBVIOUS
  <1>0. TypeInv
    BY DEF LifeInv, RetireInv
  <1>a. ASSUME NEW S \in SUBSET Slots, Life!Retire(S) PROVE Life!LifeNext
    BY <1>a DEF Life!LifeNext
  <1>b. ASSUME NEW c \in Calls, Finish(c), pc[c] # "store"
        PROVE  PendingJtis' = PendingJtis
    BY <1>0, <1>b DEF Finish, PendingJtis, TypeInv, TypeOK
  <1>c. ASSUME NEW c \in Calls, NEW s \in Slots, pc[c] # "store",
               new' = [new EXCEPT ![c] = Mint(s)], lastJti' = lastJti + 1,
               pc' = [pc EXCEPT ![c] = "store"], UNCHANGED <<now, store>>
        PROVE  UNCHANGED Life!lifeVars
    <2>1. Mint(s) \in Token /\ Mint(s).jti = lastJti + 1 /\ lastJti \in Nat
      BY <1>0, MintType DEF TypeInv, TypeOK
    <2>2. CurrentJti' = CurrentJti
      BY <1>c DEF CurrentJti, Lookup
    <2>3. PendingJtis' = PendingJtis \cup {lastJti + 1}
      BY <1>0, <1>c, <2>1 DEF PendingJtis, TypeInv, TypeOK
    <2>4. SpentJtis' = SpentJtis
      BY <1>c, <2>1, <2>2, <2>3 DEF SpentJtis
    <2> QED BY <2>2, <2>4 DEF Life!lifeVars
  <1>1. ASSUME NEW c \in Calls, NEW s \in Slots, BeginLogin(c, s)
        PROVE  UNCHANGED Life!lifeVars
    BY <1>1, <1>c DEF BeginLogin
  <1>2. ASSUME NEW c \in Calls, NEW s \in Slots, ScanKey(c, s)
        PROVE  UNCHANGED Life!lifeVars
    BY <1>2, Stutters DEF ScanKey, PendingJtis
  <1>3. ASSUME NEW c \in Calls, NEW t \in delivered, BeginRefresh(c, t)
        PROVE  UNCHANGED Life!lifeVars
    <2>1. PendingJtis' = PendingJtis
      BY <1>0, <1>3 DEF BeginRefresh, PendingJtis, TypeInv, TypeOK
    <2> QED BY <1>3, <2>1, Stutters DEF BeginRefresh
  <1>4. ASSUME NEW c \in Calls, CallStep(c)
        PROVE  Life!LifeNext \/ UNCHANGED Life!lifeVars
    <2>1. CASE Validate(c)
      <3>1. PendingJtis' = PendingJtis
        <4>1. CASE Lookup(slot[c]) = old[c]
          <5>1. /\ pc[c] = "validate" /\ pc' = [pc EXCEPT ![c] = "revoke"]
                /\ new' = new
            BY <2>1, <4>1 DEF Validate
          <5> QED BY <1>0, <5>1 DEF PendingJtis, TypeInv, TypeOK
        <4>2. CASE Lookup(slot[c]) # old[c]
          BY <2>1, <4>2, <1>b DEF Validate
        <4> QED BY <4>1, <4>2
      <3> QED BY <2>1, <3>1, Stutters DEF Validate
    <2>2. CASE RevokeOld(c)
      <3>1. slot[c] \in Slots
        BY <1>0, <2>2 DEF RevokeOld, TypeInv, HasSlot
      <3>2. PendingJtis' = PendingJtis
        BY <1>0, <2>2 DEF RevokeOld, PendingJtis, TypeInv, TypeOK
      <3>3. \A s \in Slots : Lookup(s)' = IF s \in {slot[c]} THEN NoToken
                                          ELSE Lookup(s)
        BY <1>0, <2>2, <3>1 DEF RevokeOld, Lookup, Absent, TypeInv, TypeOK
      <3> QED BY <2>2, <3>1, <3>2, <3>3, Retires, <1>a DEF RevokeOld
    <2>3. CASE MintSuccessor(c)
      BY <1>0, <2>3, <1>c DEF MintSuccessor, TypeInv, HasSlot
    <2>4. CASE StoreNew(c)
      <3> DEFINE j == new[c].jti
                 s == slot[c]
      <3>1. /\ s \in Slots /\ new[c] \in Token /\ pc[c] = "store"
            /\ store' = [store EXCEPT ![s] =
                            [token |-> new[c], until |-> now + StoreTtl]]
            /\ pc' = [pc EXCEPT ![c] = "return"]
            /\ UNCHANGED <<now, lastJti, new>>
        BY <1>0, <2>4 DEF StoreNew, Setex, TypeInv, HasSlot, HasNew
      <3>2. now \in Nat /\ now + StoreTtl > now /\ new[c] # NoToken
        BY <1>0, <3>1, RefreshAssumption DEF TypeInv, TypeOK
      <3>3. CurrentJti' = [CurrentJti EXCEPT ![s] = j]
        BY <1>0, <3>1, <3>2 DEF CurrentJti, Lookup, TypeInv, TypeOK
      <3>4. /\ j \in Nat \ {0} /\ j <= lastJti /\ lastJti \in Nat
            /\ j \in PendingJtis
        BY <1>0, <3>1 DEF Token, PendingJtis, LifeInv, RetireInv, Ledger,
                          TypeInv, TypeOK
      <3>5. PendingJtis' = PendingJtis \ {j}
        <4>1. \A d \in Calls : d # c /\ pc[d] = "store" => new[d].jti # j
          BY <3>1 DEF LifeInv, Distinct
        <4> QED BY <1>0, <3>1, <4>1 DEF PendingJtis, TypeInv, TypeOK
      <3>6. j \notin SpentJtis
        BY <3>4 DEF SpentJtis
      <3>7. \A r \in Slots : CurrentJti[r] # j
        BY <3>4, CurrentDistinct
      <3>8. SpentJtis' = SpentJtis \cup ({CurrentJti[s]} \ {0})
        <4>1. \A i : i \in SpentJtis' <=>
                        /\ i \in 1..lastJti /\ i # j
                        /\ \A r \in Slots : r # s => CurrentJti[r] # i
                        /\ i \notin PendingJtis
          BY <3>1, <3>3, <3>5, CurrentType DEF SpentJtis
        <4>2. \A i : i \in SpentJtis => i # j
          BY <3>6
        <4>3. ASSUME CurrentJti[s] # 0
              PROVE  /\ CurrentJti[s] \in 1..lastJti
                     /\ CurrentJti[s] # j
                     /\ \A r \in Slots : r # s => CurrentJti[r] # CurrentJti[s]
                     /\ CurrentJti[s] \notin PendingJtis
          BY <3>1, <3>7, <4>3, CurrentType, CurrentDistinct
        <4>4. \A i \in 1..lastJti : i # 0
          BY <3>4
        <4> QED BY <4>1, <4>2, <4>3, <4>4, <3>1 DEF SpentJtis
      <3>9. Life!Activate(s, j)
        BY <3>3, <3>4, <3>6, <3>7, <3>8 DEF Life!Activate
      <3>10. CurrentJti'[s] = j
        BY <3>1, <3>3, CurrentType
      <3> QED BY <3>1, <3>9, <3>10 DEF Life!LifeNext
    <2>5. CASE Return(c)
      BY <2>5, <1>b, Stutters DEF Return
    <2>6. CASE Fail(c)
      <3>1. CASE pc[c] # "store"
        BY <2>6, <3>1, <1>b, Stutters DEF Fail
      <3>2. CASE pc[c] = "store"
        <4> DEFINE j == new[c].jti
        <4>1. CurrentJti' = CurrentJti
          BY <2>6 DEF Fail, CurrentJti, Lookup
        <4>2. /\ j \in Nat \ {0} /\ j <= lastJti /\ lastJti \in Nat
              /\ j \in PendingJtis
          BY <1>0, <3>2 DEF Token, PendingJtis, LifeInv, RetireInv, Ledger,
                            TypeInv, TypeOK, HasNew
        <4>3. PendingJtis' = PendingJtis \ {j}
          <5>1. \A d \in Calls : d # c /\ pc[d] = "store" => new[d].jti # j
            BY <3>2 DEF LifeInv, Distinct
          <5> QED BY <1>0, <2>6, <5>1 DEF Fail, Finish, PendingJtis, TypeInv, TypeOK
        <4>4. \A s \in Slots : CurrentJti[s] # j
          BY <4>2, CurrentDistinct
        <4>5. SpentJtis' = SpentJtis \cup {j}
          BY <2>6, <4>1, <4>2, <4>3, <4>4 DEF Fail, SpentJtis
        <4>6. Life!Discard(j)
          BY <4>1, <4>2, <4>4, <4>5 DEF Life!Discard
        <4>7. j \in SpentJtis'
          BY <4>5
        <4> QED BY <4>6, <4>7 DEF Life!LifeNext
      <3> QED BY <3>1, <3>2
    <2>7. CASE EndScan(c)
      <3>1. PendingJtis' = PendingJtis
        <4>1. CASE found[c] = {}
          BY <2>7, <4>1, <1>b DEF EndScan
        <4>2. CASE found[c] # {}
          <5>1. /\ pc[c] = "scan" /\ pc' = [pc EXCEPT ![c] = "delete"]
                /\ new' = new
            BY <2>7, <4>2 DEF EndScan
          <5> QED BY <1>0, <5>1 DEF PendingJtis, TypeInv, TypeOK
        <4> QED BY <4>1, <4>2
      <3> QED BY <2>7, <3>1, Stutters DEF EndScan
    <2>8. CASE DeleteKeys(c)
      <3>1. found[c] \in SUBSET Slots
        BY <1>0 DEF TypeInv, TypeOK
      <3>2. PendingJtis' = PendingJtis
        BY <2>8, <1>b DEF DeleteKeys
      <3>3. \A s \in Slots : Lookup(s)' = IF s \in found[c] THEN NoToken
                                          ELSE Lookup(s)
        BY <1>0, <2>8 DEF DeleteKeys, Lookup, Absent, TypeInv, TypeOK
      <3> QED BY <2>8, <3>1, <3>2, <3>3, Retires, <1>a DEF DeleteKeys
    <2> QED BY <1>4, <2>1, <2>2, <2>3, <2>4, <2>5, <2>6, <2>7, <2>8
               DEF CallStep
  <1>5. ASSUME NEW c \in Calls, NEW u \in Users, BeginRevokeAll(c, u)
        PROVE  UNCHANGED Life!lifeVars
    <2>1. PendingJtis' = PendingJtis
      BY <1>0, <1>5 DEF BeginRevokeAll, PendingJtis, TypeInv, TypeOK
    <2> QED BY <1>5, <2>1, Stutters DEF BeginRevokeAll
  <1>6. ASSUME NEW s \in Slots, RevokeDevice(s)
        PROVE  Life!LifeNext
    <2>1. PendingJtis' = PendingJtis
      BY <1>6 DEF RevokeDevice, PendingJtis
    <2>2. \A r \in Slots : Lookup(r)' = IF r \in {s} THEN NoToken ELSE Lookup(r)
      BY <1>0, <1>6 DEF RevokeDevice, Lookup, Absent, TypeInv, TypeOK
    <2> QED BY <1>6, <2>1, <2>2, Retires, <1>a DEF RevokeDevice
  <1>7. CASE Tick
    <2> DEFINE S == {s \in Slots : store[s].until = now + 1}
    <2>1. PendingJtis' = PendingJtis
      BY <1>7 DEF Tick, PendingJtis, scanVars
    <2>2. ASSUME NEW r \in Slots
          PROVE  Lookup(r)' = IF r \in S THEN NoToken ELSE Lookup(r)
      <3>1. /\ now \in Nat /\ store[r].until \in Nat
            /\ now' = now + 1 /\ store' = store
        BY <1>0, <1>7 DEF Tick, TypeInv, TypeOK
      <3>2. store[r].until > now + 1 <=> store[r].until > now /\ r \notin S
        BY <3>1
      <3> QED BY <3>1, <3>2 DEF Lookup
    <2> QED BY <1>7, <2>1, <2>2, Retires, <1>a DEF Tick
  <1>8. CASE UNCHANGED vars
    <2>1. PendingJtis' = PendingJtis
      BY <1>8 DEF vars, PendingJtis
    <2> QED BY <1>8, <2>1, Stutters DEF vars
  <1> QED
    BY <1>1, <1>2, <1>3, <1>4, <1>5, <1>6, <1>7, <1>8 DEF Next, CallStep

LEMMA LifeInitial == Init => LifeInv /\ Life!LifeInit
  <1> SUFFICES ASSUME Init PROVE LifeInv /\ Life!LifeInit
    OBVIOUS
  <1>1. LifeInv
    BY RetireInit DEF Init, LifeInv, Distinct, Absent
  <1>2. CurrentJti = [s \in Slots |-> 0]
    BY DEF Init, CurrentJti, Lookup, Absent
  <1>3. SpentJtis = {}
    BY DEF Init, SpentJtis
  <1> QED BY <1>1, <1>2, <1>3 DEF Life!LifeInit

(* The store implements TokenLife: no token has two lives. *)
THEOREM StoreImplementsTokenLife == Spec => OneLifePerToken
  BY LifeInitial, DistinctStep, LifeStep, PTL DEF Spec, OneLifePerToken, Life!LifeSpec

LEMMA LifeTypes == LifeInv => Life!LifeTypeOK
  BY CurrentType DEF Life!LifeTypeOK, SpentJtis, LifeInv, RetireInv, TypeInv, TypeOK

LEMMA SpentGrows == [Life!LifeNext]_(Life!lifeVars) => SpentJtis \subseteq SpentJtis'
  BY DEF Life!LifeNext, Life!Activate, Life!Retire, Life!Discard, Life!lifeVars

(* What a client may rely on: a token that has been rotated, revoked or    *)
(* has expired, or was made and never stored, is spent, and no step makes  *)
(* it acceptable again: a spent token is one no slot accepts.              *)
THEOREM SpentForGood ==
    Spec => []Life!LifeTypeOK /\ [][SpentJtis \subseteq SpentJtis']_vars
  <1>1. LifeInv => Life!LifeTypeOK
    BY LifeTypes
  <1>2. LifeInv /\ LifeInv' /\ [Next]_vars => [SpentJtis \subseteq SpentJtis']_vars
    BY LifeStep, SpentGrows
  <1> QED BY <1>1, <1>2, LifeInitial, DistinctStep, PTL DEF Spec

-----------------------------------------------------------------------------
(* The queue of the lock *)

Apart(q) == \A i, j \in 1..Len(q) : q[i] = q[j] => i = j
InQueue(q, t) == \E i \in 1..Len(q) : q[i] = t

(* One task leaves the queue: the others keep their places behind one      *)
(* another, the first of them its place at the head.                       *)
LEMMA Leaving ==
    ASSUME NEW S, NEW q \in Seq(S), NEW t, Apart(q)
    PROVE  LET r == RemoveFirst(q, t) IN
           /\ r \in Seq(S) /\ Apart(r)
           /\ \A u : InQueue(r, u) <=> InQueue(q, u) /\ u # t
           /\ q # <<>> /\ Head(q) # t => r # <<>> /\ Head(r) = Head(q)
<1> DEFINE r == RemoveFirst(q, t)
<1>1. CASE ~InQueue(q, t)
    <2>1. r = q
        BY <1>1 DEF RemoveFirst, InQueue
    <2> QED BY <1>1, <2>1 DEF InQueue
<1>2. CASE InQueue(q, t)
    <2> DEFINE k == SelectInSeq(q, LAMBDA v : v = t)
    <2>1. k \in 1..Len(q) /\ q[k] = t
        <3>1. PICK i \in 1..Len(q) : q[i] = t
            BY <1>2 DEF InQueue
        <3>2. {j \in 1..Len(q) : q[j] = t} = {i}
            BY <3>1 DEF Apart
        <3>3. Min({i}) = i
            BY <3>1 DEF Min
        <3> QED BY <3>1, <3>2, <3>3 DEF SelectInSeq
    <2>2. r = SubSeq(q, 1, k - 1) \o SubSeq(q, k + 1, Len(q))
        BY <1>2 DEF RemoveFirst, RemoveAt, InQueue
    <2> HIDE DEF k, r
    <2>3. Len(q) \in Nat /\ k \in Nat /\ k >= 1 /\ k <= Len(q)
        BY <2>1
    <2> DEFINE a == SubSeq(q, 1, k - 1)
               b == SubSeq(q, k + 1, Len(q))
    <2>4. a \in Seq(S) /\ Len(a) = k - 1 /\ \A i \in 1..(k - 1) : a[i] = q[i]
        BY <2>3
    <2>5. b \in Seq(S) /\ Len(b) = Len(q) - k /\ \A i \in 1..(Len(q) - k) : b[i] = q[k + i]
        BY <2>3
    <2>a. r = a \o b
        BY <2>2
    <2> HIDE DEF a, b
    <2>b. r \in Seq(S) /\ Len(r) = Len(q) - 1
        BY <2>a, <2>3, <2>4, <2>5
    <2>c. ASSUME NEW i \in 1..(Len(q) - 1)
          PROVE  r[i] = IF i < k THEN q[i] ELSE q[i + 1]
        <3>1. CASE i < k
            <4>1. i \in 1..Len(a)
                BY <2>3, <2>4, <3>1
            <4>2. r[i] = a[i]
                BY <2>a, <2>4, <2>5, <4>1
            <4> QED BY <2>3, <2>4, <3>1, <4>2
        <3>2. CASE i >= k
            <4>1. i - Len(a) \in 1..Len(b) /\ i - Len(a) = i - (k - 1)
                BY <2>3, <2>4, <2>5, <3>2
            <4>2. r[i] = b[i - (k - 1)]
                BY <2>a, <2>3, <2>4, <2>5, <3>2, <4>1
            <4>3. b[i - (k - 1)] = q[k + (i - (k - 1))]
                BY <2>4, <2>5, <4>1
            <4>4. k + (i - (k - 1)) = i + 1
                BY <2>3
            <4> QED BY <3>2, <2>3, <4>2, <4>3, <4>4
        <3> QED BY <2>3, <3>1, <3>2
    <2>6. /\ r \in Seq(S) /\ Len(r) = Len(q) - 1
          /\ \A i \in 1..(Len(q) - 1) : r[i] = IF i < k THEN q[i] ELSE q[i + 1]
        BY <2>b, <2>c
    <2>7. Apart(r)
        BY <2>3, <2>6 DEF Apart
    <2>8. ASSUME NEW u
          PROVE  InQueue(r, u) <=> InQueue(q, u) /\ u # t
        <3>1. ASSUME InQueue(r, u) PROVE InQueue(q, u) /\ u # t
            BY <2>1, <2>3, <2>6, <3>1 DEF InQueue, Apart
        <3>2. ASSUME InQueue(q, u), u # t PROVE InQueue(r, u)
            <4>1. PICK j \in 1..Len(q) : q[j] = u
                BY <3>2 DEF InQueue
            <4>2. j # k
                BY <2>1, <3>2, <4>1
            <4>3. CASE j < k
                <5>1. j \in 1..(Len(q) - 1) /\ r[j] = q[j]
                    BY <2>3, <2>6, <4>1, <4>3
                <5> QED BY <2>6, <4>1, <5>1 DEF InQueue
            <4>4. CASE j > k
                <5>1. j - 1 \in 1..(Len(q) - 1) /\ r[j - 1] = q[j]
                    BY <2>3, <2>6, <4>1, <4>4
                <5> QED BY <2>6, <4>1, <5>1 DEF InQueue
            <4> QED BY <2>3, <4>1, <4>2, <4>3, <4>4
        <3> QED BY <3>1, <3>2
    <2>9. ASSUME q # <<>>, Head(q) # t
          PROVE  r # <<>> /\ Head(r) = Head(q)
        <3>1. k > 1
            BY <2>1, <2>3, <2>9
        <3>2. Len(r) >= 1 /\ r[1] = q[1]
            BY <2>3, <2>6, <3>1
        <3> QED BY <2>6, <2>9, <3>2
    <2> QED BY <2>6, <2>7, <2>8, <2>9 DEF r
<1> QED BY <1>1, <1>2

LEMMA Joining ==
    ASSUME NEW S, NEW q \in Seq(S), NEW t \in S, Apart(q), ~InQueue(q, t)
    PROVE  /\ Append(q, t) \in Seq(S) /\ Apart(Append(q, t))
           /\ \A u : InQueue(Append(q, t), u) <=> InQueue(q, u) \/ u = t
           /\ q # <<>> => Head(Append(q, t)) = Head(q)
<1> DEFINE r == Append(q, t)
<1>1. /\ r \in Seq(S) /\ Len(r) = Len(q) + 1 /\ Len(q) \in Nat /\ r[Len(q) + 1] = t
      /\ \A i \in 1..Len(q) : r[i] = q[i]
    OBVIOUS
<1> HIDE DEF r
<1>2. Apart(r)
    BY <1>1 DEF Apart, InQueue
<1>3. \A u : InQueue(r, u) <=> InQueue(q, u) \/ u = t
    BY <1>1 DEF InQueue
<1>4. q # <<>> => Head(r) = Head(q)
    BY <1>1
<1> QED BY <1>1, <1>2, <1>3, <1>4 DEF r

-----------------------------------------------------------------------------
(* The lock *)

(* The queue holds the tasks at the lock or under it, and only its head is *)
(* refreshing: the one whose call of the manager is in progress.           *)
LockInv ==
    /\ queue \in Seq(Calls) /\ Apart(queue)
    /\ \A t \in Calls :
          /\ InQueue(queue, t) <=> phase[t] \in {"lock", "refresh"}
          /\ phase[t] = "refresh" => Head(queue) = t
          /\ pc[t] # "idle" <=> phase[t] = "refresh"

ClientTypes ==
    /\ held \in Token
    /\ phase \in [Calls -> {"idle", "lock", "refresh", "send", "backoff"}]
    /\ after \in [Calls -> {"idle", "send", "backoff"}]
    /\ attempt \in [Calls -> Nat]
    /\ disturbed \in BOOLEAN

(* All that goes on is about the one slot of the client; and unless a      *)
(* refresh broke off or the token was revoked outside, the pair that is    *)
(* held is the stored one before the DEL, and the new one after the SETEX. *)
HeldInv ==
    /\ held.slot = ClientSlot
    /\ \A t \in Calls :
          /\ pc[t] \in {"idle", "validate", "revoke", "mint", "store", "return"}
          /\ pc[t] # "idle" => slot[t] = ClientSlot
          /\ ~disturbed /\ pc[t] = "return" => store[ClientSlot].token = new[t]
          /\ pc[t] \in {"store", "return"} => new[t].slot = ClientSlot
    /\ HeldIsCurrent

ClientInv == TypeInv /\ ClientTypes /\ LockInv /\ HeldInv

LEMMA OnlyOne == LockInv => OneRefreshAtATime
BY DEF LockInv, OneRefreshAtATime

(* A task leaves the lock, or ends without having been there. *)
LEMMA LockLeft ==
    ASSUME LockInv, NEW t \in Calls, Release(t),
           phase'[t] \notin {"lock", "refresh"}, pc'[t] = "idle",
           \A u \in Calls \ {t} : phase'[u] = phase[u] /\ pc'[u] = pc[u]
    PROVE  LockInv'
<1> DEFINE r == RemoveFirst(queue, t)
<1>1. /\ r \in Seq(Calls) /\ Apart(r)
      /\ \A u : InQueue(r, u) <=> InQueue(queue, u) /\ u # t
      /\ queue # <<>> /\ Head(queue) # t => r # <<>> /\ Head(r) = Head(queue)
    BY Leaving DEF LockInv
<1>2. queue' = r
    BY DEF Release
<1> HIDE DEF r
<1>3. \A u \in Calls : InQueue(queue, u) => queue # <<>>
    BY DEF InQueue, LockInv
<1> QED BY <1>1, <1>2, <1>3 DEF LockInv

LEMMA LockJoined ==
    ASSUME LockInv, NEW t \in Calls, NEW next, Enqueue(t, next), ClientTypes,
           phase[t] \notin {"lock", "refresh"}, pc' = pc
    PROVE  LockInv'
<1> DEFINE r == Append(queue, t)
<1>1. ~InQueue(queue, t) /\ queue \in Seq(Calls) /\ Apart(queue)
    BY DEF LockInv
<1>2. /\ r \in Seq(Calls) /\ Apart(r)
      /\ \A u : InQueue(r, u) <=> InQueue(queue, u) \/ u = t
      /\ queue # <<>> => Head(r) = Head(queue)
    BY <1>1, Joining
<1>3. queue' = r /\ phase' = [phase EXCEPT ![t] = "lock"]
    BY DEF Enqueue
<1> HIDE DEF r
<1>4. \A u \in Calls : InQueue(queue, u) => queue # <<>>
    BY DEF InQueue, LockInv
<1> QED BY <1>2, <1>3, <1>4 DEF LockInv, ClientTypes

(* Nothing happens at the lock. *)
LEMMA LockSame ==
    ASSUME LockInv, queue' = queue,
           \A u \in Calls : phase'[u] \in {"lock", "refresh"} <=> phase[u] \in {"lock", "refresh"},
           \A u \in Calls : phase'[u] = "refresh" => phase[u] = "refresh" \/ Head(queue) = u,
           \A u \in Calls : pc'[u] # "idle" <=> phase'[u] = "refresh"
    PROVE  LockInv'
BY DEF LockInv

LEMMA EndTypes ==
    ASSUME ClientTypes, NEW t \in Calls, EndTask(t), held' \in Token, disturbed' \in BOOLEAN
    PROVE  /\ ClientTypes' /\ phase'[t] = "idle"
           /\ \A u \in Calls \ {t} : phase'[u] = phase[u]
BY DEF ClientTypes, EndTask

LEMMA ContinueTypes ==
    ASSUME ClientTypes, NEW t \in Calls, Continue(t), held' \in Token, disturbed' \in BOOLEAN
    PROVE  /\ ClientTypes' /\ phase'[t] \notin {"lock", "refresh"}
           /\ \A u \in Calls \ {t} : phase'[u] = phase[u]
<1>1. CASE after[t] = "idle"
    BY <1>1, EndTypes DEF Continue
<1>2. CASE after[t] # "idle"
    BY <1>2 DEF Continue, ClientTypes
<1> QED BY <1>1, <1>2

(* The steps of the client are steps of the store and the manager.         *)
LEMMA ClientStepIsStep == ClientNext => [Next]_vars
<1> SUFFICES ASSUME ClientNext PROVE [Next]_vars
    OBVIOUS
<1>1. ASSUME NEW t \in Calls, StartRequest(t) \/ TaskStep(t) \/ Abort(t)
      PROVE  [Next]_vars
    <2>1. CASE StartRefresh(t)
        <3>1. held \in delivered /\ BeginRefresh(t, held)
            BY <2>1 DEF StartRefresh, BeginRefresh
        <3> QED BY <3>1 DEF Next
    <2>2. CASE RefreshStep(t)
        BY <2>2 DEF RefreshStep, Next
    <2>3. CASE FinishRefresh(t)
        BY <2>3 DEF FinishRefresh, Next
    <2>4. CASE Abort(t)
        BY <2>4 DEF Abort, Next
    <2>5. CASE StartRequest(t) \/ AlreadyRefreshed(t) \/ RefreshExpired(t)
               \/ Unauthorized(t) \/ Answered(t) \/ Resend(t)
        BY <2>5 DEF StartRequest, AlreadyRefreshed, RefreshExpired, Unauthorized, Answered, Resend
    <2> QED BY <1>1, <2>1, <2>2, <2>3, <2>4, <2>5 DEF TaskStep
<1>2. CASE WakeBackground
    BY <1>2 DEF WakeBackground
<1>3. CASE RevokedOutside
    BY <1>3, ClientAssumption DEF RevokedOutside, Next
<1>4. CASE ClientTick
    BY <1>4 DEF ClientTick, Next
<1> QED BY <1>1, <1>2, <1>3, <1>4 DEF ClientNext

(* Where the manager's call goes in each step of a refresh.                *)
LEMMA RefreshMoves ==
    ASSUME TypeInv, NEW t \in Calls,
           Validate(t) \/ RevokeOld(t) \/ MintSuccessor(t) \/ StoreNew(t)
    PROVE  pc[t] # "idle" /\ \A u \in Calls \ {t} : pc'[u] = pc[u]
<1>1. CASE Validate(t)
    <2>1. CASE Lookup(slot[t]) = old[t]
        BY <1>1, <2>1 DEF Validate, TypeInv, TypeOK
    <2>2. CASE Lookup(slot[t]) # old[t]
        BY <1>1, <2>2 DEF Validate, Finish, TypeInv, TypeOK
    <2> QED BY <2>1, <2>2
<1>2. CASE RevokeOld(t) \/ MintSuccessor(t) \/ StoreNew(t)
    BY <1>2 DEF RevokeOld, MintSuccessor, StoreNew, Setex, TypeInv, TypeOK
<1> QED BY <1>1, <1>2

LEMMA LockStep == TypeInv /\ ClientTypes /\ LockInv /\ ClientNext => LockInv' /\ ClientTypes'
<1> SUFFICES ASSUME TypeInv, ClientTypes, LockInv, ClientNext PROVE LockInv' /\ ClientTypes'
    OBVIOUS
<1>1. ASSUME UNCHANGED <<queue, phase, pc>> PROVE LockInv'
    BY <1>1 DEF LockInv
<1>2. ASSUME NEW t \in Calls, StartRequest(t)
      PROVE  LockInv' /\ ClientTypes'
    <2>1. UNCHANGED vars /\ pc' = pc /\ phase[t] = "idle" /\ UNCHANGED <<held, attempt, disturbed>>
        BY <1>2 DEF StartRequest, vars
    <2>2. CASE NearExpiry(held, RefreshThreshold)
        <3>1. Enqueue(t, "send")
            BY <1>2, <2>2 DEF StartRequest
        <3>2. LockInv'
            BY <2>1, <3>1, LockJoined
        <3> QED BY <2>1, <3>1, <3>2 DEF Enqueue, ClientTypes
    <2>3. CASE ~NearExpiry(held, RefreshThreshold)
        <3>1. phase' = [phase EXCEPT ![t] = "send"] /\ UNCHANGED <<queue, after>>
            BY <1>2, <2>3 DEF StartRequest
        <3>2. LockInv'
            BY <2>1, <3>1 DEF LockInv, ClientTypes
        <3> QED BY <2>1, <3>1, <3>2 DEF ClientTypes
    <2> QED BY <2>2, <2>3
<1>3. CASE WakeBackground
    <2>1. /\ UNCHANGED vars /\ pc' = pc /\ phase[Background] = "idle"
          /\ Enqueue(Background, "idle") /\ UNCHANGED <<held, attempt, disturbed>>
        BY <1>3 DEF WakeBackground, vars
    <2>2. LockInv'
        BY <2>1, LockJoined, ClientAssumption
    <2> QED BY <2>1, <2>2 DEF Enqueue, ClientTypes
<1>4. ASSUME NEW t \in Calls, Unauthorized(t)
      PROVE  LockInv' /\ ClientTypes'
    <2>1. /\ UNCHANGED vars /\ pc' = pc /\ phase[t] = "send"
          /\ Enqueue(t, "backoff") /\ UNCHANGED <<held, attempt, disturbed>>
        BY <1>4 DEF Unauthorized, vars
    <2>2. LockInv'
        BY <2>1, LockJoined
    <2> QED BY <2>1, <2>2 DEF Enqueue, ClientTypes
<1>5. ASSUME NEW t \in Calls, AlreadyRefreshed(t) \/ RefreshExpired(t)
      PROVE  LockInv' /\ ClientTypes'
    <2>1. /\ phase[t] = "lock" /\ Release(t) /\ pc' = pc /\ UNCHANGED <<held, disturbed>>
          /\ Continue(t) \/ EndTask(t)
        BY <1>5 DEF AlreadyRefreshed, RefreshExpired, vars
    <2>2. pc[t] = "idle"
        BY <2>1 DEF LockInv
    <2>3. held' \in Token /\ disturbed' \in BOOLEAN
        BY <2>1 DEF ClientTypes
    <2>4. /\ ClientTypes' /\ phase'[t] \notin {"lock", "refresh"}
          /\ \A u \in Calls \ {t} : phase'[u] = phase[u]
        BY <2>1, <2>3, EndTypes, ContinueTypes
    <2> QED BY <2>1, <2>2, <2>4, LockLeft
<1>6. ASSUME NEW t \in Calls, StartRefresh(t)
      PROVE  LockInv' /\ ClientTypes'
    <2>1. /\ phase[t] = "lock" /\ Head(queue) = t /\ pc' = [pc EXCEPT ![t] = "validate"]
          /\ phase' = [phase EXCEPT ![t] = "refresh"]
          /\ UNCHANGED <<held, queue, after, attempt, disturbed>>
        BY <1>6 DEF StartRefresh, BeginRefresh
    <2>2. pc \in [Calls -> {"idle", "validate", "revoke", "mint", "store", "return", "scan", "delete"}]
        BY DEF TypeInv, TypeOK
    <2>3. LockInv'
        BY <2>1, <2>2 DEF LockInv, ClientTypes
    <2> QED BY <2>1, <2>3 DEF ClientTypes
<1>7. ASSUME NEW t \in Calls, RefreshStep(t)
      PROVE  LockInv' /\ ClientTypes'
    <2>1. /\ phase[t] = "refresh" /\ UNCHANGED <<held, disturbed>>
          /\ \A u \in Calls \ {t} : pc'[u] = pc[u]
        BY <1>7, RefreshMoves DEF RefreshStep
    <2>2. CASE pc'[t] = "idle"
        <3>1. Release(t) /\ EndTask(t)
            BY <1>7, <2>2 DEF RefreshStep
        <3>2. held' \in Token /\ disturbed' \in BOOLEAN
            BY <2>1 DEF ClientTypes
        <3>3. /\ ClientTypes' /\ phase'[t] = "idle"
              /\ \A u \in Calls \ {t} : phase'[u] = phase[u]
            BY <3>1, <3>2, EndTypes
        <3> QED BY <2>1, <2>2, <3>1, <3>3, LockLeft
    <2>3. CASE pc'[t] # "idle"
        <3>1. UNCHANGED <<queue, phase, after, attempt>>
            BY <1>7, <2>3 DEF RefreshStep
        <3>2. LockInv'
            BY <2>1, <2>3, <3>1 DEF LockInv
        <3> QED BY <2>1, <3>1, <3>2 DEF ClientTypes
    <2> QED BY <2>2, <2>3
<1>8. ASSUME NEW t \in Calls, FinishRefresh(t)
      PROVE  LockInv' /\ ClientTypes'
    <2>1. /\ phase[t] = "refresh" /\ pc[t] = "return" /\ Release(t) /\ Continue(t)
          /\ held' = new[t] /\ UNCHANGED disturbed /\ pc' = [pc EXCEPT ![t] = "idle"]
        BY <1>8 DEF FinishRefresh, Return, Finish
    <2>2. held' \in Token /\ disturbed' \in BOOLEAN
        BY <2>1 DEF ClientTypes, TypeInv, HasNew
    <2>3. /\ ClientTypes' /\ phase'[t] \notin {"lock", "refresh"}
          /\ \A u \in Calls \ {t} : phase'[u] = phase[u]
        BY <2>1, <2>2, ContinueTypes
    <2>4. pc'[t] = "idle" /\ \A u \in Calls \ {t} : pc'[u] = pc[u]
        BY <2>1 DEF TypeInv, TypeOK
    <2> QED BY <2>1, <2>3, <2>4, LockLeft
<1>9. ASSUME NEW t \in Calls, Abort(t)
      PROVE  LockInv' /\ ClientTypes'
    <2>1. Release(t) /\ EndTask(t) /\ held' = held
        BY <1>9 DEF Abort
    <2>2. pc'[t] = "idle" /\ \A u \in Calls \ {t} : pc'[u] = pc[u]
        BY <1>9 DEF Abort, Fail, Finish, vars, TypeInv, TypeOK
    <2>3. held' \in Token /\ disturbed' \in BOOLEAN
        BY <1>9 DEF Abort, ClientTypes
    <2>4. /\ ClientTypes' /\ phase'[t] = "idle"
          /\ \A u \in Calls \ {t} : phase'[u] = phase[u]
        BY <2>1, <2>3, EndTypes
    <2> QED BY <2>1, <2>2, <2>4, LockLeft
<1>10. ASSUME NEW t \in Calls, Answered(t) \/ Resend(t)
       PROVE  LockInv' /\ ClientTypes'
    <2>1. /\ phase[t] \in {"send", "backoff"} /\ phase' = [phase EXCEPT ![t] = phase'[t]]
          /\ phase'[t] \in {"idle", "send"} /\ pc' = pc /\ queue' = queue
        BY <1>10 DEF Answered, Resend, EndTask, vars, ClientTypes
    <2>2. LockInv'
        BY <2>1 DEF LockInv, ClientTypes
    <2> QED BY <1>10, <2>2 DEF Answered, Resend, EndTask, ClientTypes
<1>11. CASE RevokedOutside
    BY <1>1, <1>11 DEF RevokedOutside, RevokeDevice, ClientTypes
<1>12. CASE ClientTick
    BY <1>1, <1>12 DEF ClientTick, clientVars, Tick, ClientTypes
<1> QED BY <1>2, <1>3, <1>4, <1>5, <1>6, <1>7, <1>8, <1>9, <1>10, <1>11, <1>12 DEF ClientNext, TaskStep

-----------------------------------------------------------------------------
(* The pair that is held *)

LEMMA HeldStep ==
    TypeInv /\ ClientTypes /\ LockInv /\ HeldInv /\ ClientNext => HeldInv'
<1> SUFFICES ASSUME TypeInv, ClientTypes, LockInv, HeldInv, ClientNext PROVE HeldInv'
    OBVIOUS
<1>1. \A t, u \in Calls : pc[t] # "idle" /\ pc[u] # "idle" => t = u
    BY OnlyOne DEF OneRefreshAtATime
<1>2. ASSUME UNCHANGED <<held, disturbed, pc, slot, new>>,
             store'[ClientSlot].token = store[ClientSlot].token
      PROVE  HeldInv'
    BY <1>2 DEF HeldInv, HeldIsCurrent
<1>3. ASSUME UNCHANGED vars, UNCHANGED <<held, disturbed>>
      PROVE  HeldInv'
    BY <1>2, <1>3 DEF vars
<1>4. ASSUME NEW t \in Calls, StartRefresh(t)
      PROVE  HeldInv'
    <2>1. /\ pc' = [pc EXCEPT ![t] = "validate"] /\ slot' = [slot EXCEPT ![t] = held.slot]
          /\ UNCHANGED <<held, disturbed, store, new>> /\ pc[t] = "idle"
        BY <1>4 DEF StartRefresh, BeginRefresh
    <2> QED BY <2>1 DEF HeldInv, HeldIsCurrent, TypeInv, TypeOK
<1>5. ASSUME NEW t \in Calls, RefreshStep(t)
      PROVE  HeldInv'
    <2>1. UNCHANGED <<held, disturbed>>
        BY <1>5 DEF RefreshStep
    <2>2. CASE Validate(t)
        <3>1. CASE Lookup(slot[t]) = old[t]
            <4>1. pc' = [pc EXCEPT ![t] = "revoke"] /\ UNCHANGED <<store, slot, new>> /\ pc[t] = "validate"
                BY <2>2, <3>1 DEF Validate
            <4> QED BY <2>1, <4>1 DEF HeldInv, HeldIsCurrent, TypeInv, TypeOK
        <3>2. CASE Lookup(slot[t]) # old[t]
            <4>1. Finish(t) /\ UNCHANGED store /\ pc[t] = "validate"
                BY <2>2, <3>2 DEF Validate
            <4> QED BY <2>1, <4>1 DEF Finish, HeldInv, HeldIsCurrent, TypeInv, TypeOK
        <3> QED BY <3>1, <3>2
    <2>3. CASE RevokeOld(t)
        BY <2>1, <2>3, <1>1 DEF RevokeOld, HeldInv, HeldIsCurrent, TypeInv, TypeOK
    <2>4. CASE MintSuccessor(t)
        <3>1. slot[t] = ClientSlot /\ Mint(ClientSlot).slot = ClientSlot
            BY <2>4, MintType, ClientAssumption DEF MintSuccessor, HeldInv, TypeInv
        <3> QED BY <2>1, <2>4, <1>1, <3>1 DEF MintSuccessor, HeldInv, HeldIsCurrent, TypeInv, TypeOK
    <2>5. CASE StoreNew(t)
        <3>1. /\ pc[t] = "store" /\ slot[t] = ClientSlot /\ store'[ClientSlot].token = new[t]
              /\ pc' = [pc EXCEPT ![t] = "return"] /\ UNCHANGED <<slot, new>>
            BY <2>5, ClientAssumption DEF StoreNew, Setex, HeldInv, TypeInv, TypeOK
        <3> QED BY <2>1, <1>1, <3>1 DEF HeldInv, HeldIsCurrent, TypeInv, TypeOK
    <2> QED BY <1>5, <2>2, <2>3, <2>4, <2>5 DEF RefreshStep
<1>6. ASSUME NEW t \in Calls, FinishRefresh(t)
      PROVE  HeldInv'
    <2>1. /\ pc[t] = "return" /\ held' = new[t] /\ disturbed' = disturbed /\ store' = store
          /\ pc' = [pc EXCEPT ![t] = "idle"] /\ slot' = [slot EXCEPT ![t] = NoSlot]
          /\ new' = [new EXCEPT ![t] = NoToken]
        BY <1>6 DEF FinishRefresh, Return, Finish
    <2> QED BY <1>1, <2>1 DEF HeldInv, HeldIsCurrent, TypeInv, TypeOK
<1>7. ASSUME NEW t \in Calls, Abort(t)
      PROVE  HeldInv'
    <2>1. CASE pc[t] = "idle"
        BY <1>3, <1>7, <2>1 DEF Abort
    <2>2. CASE pc[t] # "idle"
        <3>1. Finish(t) /\ disturbed' = TRUE /\ held' = held
            BY <1>7, <2>2 DEF Abort, Fail
        <3> QED BY <3>1 DEF Finish, HeldInv, HeldIsCurrent, TypeInv, TypeOK
    <2> QED BY <2>1, <2>2
<1>8. ASSUME NEW t \in Calls,
             \/ StartRequest(t) \/ AlreadyRefreshed(t) \/ RefreshExpired(t)
             \/ Unauthorized(t) \/ Answered(t) \/ Resend(t)
      PROVE  HeldInv'
    BY <1>3, <1>8 DEF StartRequest, AlreadyRefreshed, RefreshExpired, Unauthorized, Answered, Resend
<1>9. CASE WakeBackground
    BY <1>3, <1>9 DEF WakeBackground
<1>10. CASE RevokedOutside
    BY <1>10 DEF RevokedOutside, RevokeDevice, HeldInv, HeldIsCurrent
<1>11. CASE ClientTick
    BY <1>2, <1>11 DEF ClientTick, clientVars, Tick
<1> QED BY <1>4, <1>5, <1>6, <1>7, <1>8, <1>9, <1>10, <1>11 DEF ClientNext, TaskStep

LEMMA ClientInitial == ClientInit => ClientInv
<1> SUFFICES ASSUME ClientInit PROVE ClientInv
    OBVIOUS
<1>1. ClientSlot \in Slots /\ FirstToken \in Token /\ FirstToken.slot = ClientSlot
    BY ClientAssumption, RefreshAssumption DEF FirstToken, Token
<1>2. store = [s \in Slots |-> IF s = ClientSlot THEN [token |-> FirstToken, until |-> StoreTtl] ELSE Absent]
    BY DEF ClientInit
<1>3. store \in [Slots -> [token : Token \cup {NoToken}, until : Nat]] /\ store[ClientSlot].token = FirstToken
    BY <1>1, <1>2, RefreshAssumption DEF Absent
<1>4. TypeInv
    BY <1>1, <1>3 DEF ClientInit, TypeInv, TypeOK, HasSlot, HasNew, HasOld
<1>5. LockInv
    BY DEF ClientInit, LockInv, Apart, InQueue
<1>6. ClientTypes
    BY <1>1 DEF ClientInit, ClientTypes
<1>7. HeldInv
    BY <1>1, <1>3 DEF ClientInit, HeldInv, HeldIsCurrent
<1> QED BY <1>4, <1>5, <1>6, <1>7 DEF ClientInv

LEMMA ClientKeeps == ClientInv /\ [ClientNext]_allVars => ClientInv'
<1> SUFFICES ASSUME ClientInv, [ClientNext]_allVars PROVE ClientInv'
    OBVIOUS
<1>1. CASE ClientNext
    BY <1>1, ClientStepIsStep, TypeStep, LockStep, HeldStep DEF ClientInv
<1>2. CASE UNCHANGED allVars
    <2>1. UNCHANGED <<vars, held, queue, phase, after, attempt, disturbed>>
        BY <1>2 DEF allVars, clientVars
    <2>2. TypeInv'
        BY <2>1, TypeStep DEF ClientInv
    <2> QED BY <2>1, <2>2 DEF vars, ClientInv, ClientTypes, LockInv, HeldInv, HeldIsCurrent
<1> QED BY <1>1, <1>2

LEMMA ClientHolds == ClientSpec => []ClientInv
BY ClientInitial, ClientKeeps, PTL DEF ClientSpec

(* "Refresh tokens with lock to prevent concurrent refresh": whichever     *)
(* tasks ask and whichever break off when, one call of the manager at most *)
(* is in progress (jwt_manager.py, AutoRefreshClient._refresh_tokens).     *)
THEOREM RefreshesAreSerial == ClientFairSpec => []OneRefreshAtATime
<1>1. ClientInv => OneRefreshAtATime
    BY OnlyOne DEF ClientInv
<1> QED BY <1>1, ClientHolds, PTL DEF ClientFairSpec

(* The tasks of one client never lock one another out: unless a refresh    *)
(* broke off midway or the token was revoked outside, what is held is what *)
(* the store would accept.                                                 *)
THEOREM HeldPairIsCurrent == ClientFairSpec => []HeldIsCurrent
<1>1. ClientInv => HeldIsCurrent
    BY DEF ClientInv, HeldInv
<1> QED BY <1>1, ClientHolds, PTL DEF ClientFairSpec

(* Type correctness of the client and of the store under it.               *)
THEOREM ClientTypeCorrect == ClientFairSpec => []ClientTypeOK
<1>1. ClientInv => ClientTypeOK
    BY DEF ClientInv, ClientTypeOK, ClientTypes, LockInv, TypeInv
<1> QED BY <1>1, ClientHolds, PTL DEF ClientFairSpec

-----------------------------------------------------------------------------
(* The store under the client                                              *)

LEMMA ClientStarts == ClientInit => LifeInv
<1> SUFFICES ASSUME ClientInit PROVE LifeInv
    OBVIOUS
<1>1. TypeInv
    BY ClientInitial DEF ClientInv
<1>2. ClientSlot \in Slots /\ FirstToken.slot = ClientSlot /\ FirstToken.jti = 1
    BY ClientAssumption DEF FirstToken
<1>3. \A s \in Slots : store[s].token # NoToken => s = ClientSlot /\ store[s].token = FirstToken
    BY DEF ClientInit, Absent
<1>4. Ledger
    BY <1>2, <1>3 DEF ClientInit, Ledger
<1>5. RotationRetires
    BY DEF ClientInit, RotationRetires
<1>6. Distinct
    BY <1>3 DEF ClientInit, Distinct
<1> QED BY <1>1, <1>4, <1>5, <1>6 DEF LifeInv, RetireInv

LEMMA ClientMoves == [ClientNext]_allVars => [Next]_vars
<1>1. UNCHANGED allVars => UNCHANGED vars
    BY DEF allVars
<1> QED BY <1>1, ClientStepIsStep

(* A task of the client starts nothing in the manager but a refresh. *)
LEMMA ClientOnlyRefreshes ==
    ASSUME ClientInv, [ClientNext]_allVars, NEW c \in Calls, pc[c] = "idle"
    PROVE  pc'[c] \in {"idle", "validate"}
<1> USE DEF ClientInv, TypeInv, TypeOK
<1>1. ASSUME NEW t \in Calls, StartRefresh(t) PROVE pc'[c] \in {"idle", "validate"}
    BY <1>1 DEF StartRefresh, BeginRefresh
<1>2. ASSUME NEW t \in Calls, RefreshStep(t) PROVE pc'[c] \in {"idle", "validate"}
    BY <1>2, RefreshMoves DEF RefreshStep
<1>3. ASSUME NEW t \in Calls, FinishRefresh(t) \/ Abort(t) PROVE pc'[c] \in {"idle", "validate"}
    BY <1>3 DEF FinishRefresh, Return, Abort, Fail, Finish, vars
<1>4. ASSUME NEW t \in Calls,
             \/ StartRequest(t) \/ AlreadyRefreshed(t) \/ RefreshExpired(t)
             \/ Unauthorized(t) \/ Answered(t) \/ Resend(t)
      PROVE  pc'[c] \in {"idle", "validate"}
    BY <1>4 DEF StartRequest, AlreadyRefreshed, RefreshExpired, Unauthorized, Answered, Resend, vars
<1>5. CASE WakeBackground \/ RevokedOutside \/ ClientTick \/ UNCHANGED allVars
    BY <1>5 DEF WakeBackground, RevokedOutside, RevokeDevice, ClientTick, Tick, allVars, vars
<1> QED BY <1>1, <1>2, <1>3, <1>4, <1>5 DEF ClientNext, TaskStep

(* What the store promises of itself it promises under the client too: the *)
(* token of a refresh is retired, and no token is current twice, whatever  *)
(* the tasks of the client retry, give up or overlap.                      *)
THEOREM StoreServesTheClient ==
    ClientSpec => []RotationRetires /\ [][Life!LifeNext]_(Life!lifeVars)
<1>1. LifeInv /\ [ClientNext]_allVars => LifeInv'
    BY ClientMoves, DistinctStep
<1>2. LifeInv /\ LifeInv' /\ [ClientNext]_allVars => [Life!LifeNext]_(Life!lifeVars)
    BY ClientMoves, LifeStep
<1>3. LifeInv => RotationRetires
    BY DEF LifeInv, RetireInv
<1> QED BY <1>1, <1>2, <1>3, ClientStarts, PTL DEF ClientSpec

(* The client never logs itself in again: a slot that has no token, and no *)
(* refresh past its validation, stays so for ever, however often requests  *)
(* are repeated after a 401 and whenever the background task wakes up.     *)
THEOREM ClientStaysLoggedOut == ClientSpec => [][\A s \in Slots : Quiet(s) => Quiet(s)']_vars
<1>1. ASSUME ClientInv, [ClientNext]_allVars
      PROVE  \A s \in Slots : Quiet(s) => Quiet(s)'
    <2>1. QuietStep
        BY <1>1, ClientMoves, QuietKept DEF ClientInv
    <2>2. ASSUME NEW c \in Calls, NEW s \in Slots, BeginLogin(c, s) PROVE FALSE
        <3>1. pc[c] = "idle" /\ pc'[c] = "store"
            BY <1>1, <2>2 DEF BeginLogin, ClientInv, TypeInv, TypeOK
        <3> QED BY <1>1, <3>1, ClientOnlyRefreshes
    <2> QED BY <2>1, <2>2 DEF QuietStep
<1>2. ClientInv /\ [ClientNext]_allVars => [\A s \in Slots : Quiet(s) => Quiet(s)']_vars
    BY <1>1
<1> QED BY <1>2, ClientInitial, ClientKeeps, PTL DEF ClientSpec
===============================================================================
