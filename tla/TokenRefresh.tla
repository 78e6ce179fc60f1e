----------------------------- MODULE TokenRefresh -----------------------------
(***************************************************************************)
(* RefreshTokenStore and JWTManager of src/src/auth/jwt_manager.py.        *)
(*                                                                         *)
(* The store keeps ONE refresh token per Redis key                         *)
(* refresh_token:{user}:{device}, with a TTL.  A refresh is a sequence of  *)
(* awaits (GET, DEL, SETEX) with nothing that serialises two calls, so     *)
(* each Redis command is an action of its own and any number of calls      *)
(* interleave.  Time is an abstract clock; a token carries its expiry as   *)
(* the JWT does, and a key is absent for Redis from its TTL on.            *)
(***************************************************************************)
EXTENDS Naturals, FiniteSets

CONSTANTS Users, Devices,
          Calls,        \* the calls that may be in progress at once
          NoToken,      \* "no token", not a token
          NoSlot,       \* "no slot", not a slot
          RefreshLife,  \* refresh_token_expire_days of JWTManager
          StoreTtl,     \* token_ttl of RefreshTokenStore
          MaxTime,      \* bound on the clock
          MaxTokens     \* bound on the tokens created

Slots == Users \X Devices
Token == [slot : Slots, jti : Nat \ {0}, exp : Nat]

ASSUME RefreshAssumption ==
    /\ NoToken \notin Token
    /\ NoSlot \notin Slots
    /\ RefreshLife \in Nat \ {0}
    /\ StoreTtl \in Nat \ {0}
    /\ MaxTime \in Nat
    /\ MaxTokens \in Nat

VARIABLES
    now,        \* the clock
    store,      \* Redis: slot -> the token stored and when its TTL runs out
    lastJti,    \* the jtis 1..lastJti have been used (uuid4 never repeats)
    delivered,  \* refresh tokens a completed call has handed to its caller
    pc,         \* where each call is
    slot,       \* the (user, device) a refresh or a login is for
    old, new,   \* the token a refresh was given, the one it created
    pattern,    \* the keys a revoke_all_user_tokens scan matches
    todo,       \* of those, the ones the SCAN has not come to yet
    found,      \* the keys the SCAN has collected
    missed      \* history: slots stored to while the scan was running

vars == <<now, store, lastJti, delivered, pc, slot, old, new,
          pattern, todo, found, missed>>
scanVars == <<pattern, todo, found, missed>>

Absent == [token |-> NoToken, until |-> 0]

(* What GET answers: a key past its TTL is no longer there. *)
Lookup(s) == IF store[s].until > now THEN store[s].token ELSE NoToken

(* create_refresh_token: the claims are all a token is. *)
Mint(s) == [slot |-> s, jti |-> lastJti + 1, exp |-> now + RefreshLife]

TypeOK ==
    /\ now \in Nat
    /\ store \in [Slots -> [token : Token \cup {NoToken}, until : Nat]]
    /\ lastJti \in Nat
    /\ delivered \subseteq Token
    /\ pc \in [Calls -> {"idle", "validate", "revoke", "mint", "store",
                         "return", "scan", "delete"}]
    /\ slot \in [Calls -> Slots \cup {NoSlot}]
    /\ old \in [Calls -> Token \cup {NoToken}]
    /\ new \in [Calls -> Token \cup {NoToken}]
    /\ pattern \in [Calls -> SUBSET Slots]
    /\ todo \in [Calls -> SUBSET Slots]
    /\ found \in [Calls -> SUBSET Slots]
    /\ missed \in [Calls -> SUBSET Slots]

Init ==
    /\ now = 0
    /\ store = [s \in Slots |-> Absent]
    /\ lastJti = 0
    /\ delivered = {}
    /\ pc = [c \in Calls |-> "idle"]
    /\ slot = [c \in Calls |-> NoSlot]
    /\ old = [c \in Calls |-> NoToken]
    /\ new = [c \in Calls |-> NoToken]
    /\ pattern = [c \in Calls |-> {}]
    /\ todo = [c \in Calls |-> {}]
    /\ found = [c \in Calls |-> {}]
    /\ missed = [c \in Calls |-> {}]

(* A call is over: its locals are gone. *)
Finish(c) ==
    /\ pc' = [pc EXCEPT ![c] = "idle"]
    /\ slot' = [slot EXCEPT ![c] = NoSlot]
    /\ old' = [old EXCEPT ![c] = NoToken]
    /\ new' = [new EXCEPT ![c] = NoToken]
    /\ pattern' = [pattern EXCEPT ![c] = {}]
    /\ todo' = [todo EXCEPT ![c] = {}]
    /\ found' = [found EXCEPT ![c] = {}]
    /\ missed' = [missed EXCEPT ![c] = {}]

-----------------------------------------------------------------------------
(* JWTManager *)

(* create_token_pair on its own: a login, up to its await of store_token. *)
BeginLogin(c, s) ==
    /\ pc[c] = "idle"
    /\ lastJti < MaxTokens
    /\ pc' = [pc EXCEPT ![c] = "store"]
    /\ slot' = [slot EXCEPT ![c] = s]
    /\ new' = [new EXCEPT ![c] = Mint(s)]
    /\ lastJti' = lastJti + 1
    /\ UNCHANGED <<now, store, delivered, old, scanVars>>

(* refresh_tokens up to its first await: the token must decode and must    *)
(* not have expired; every early raise leaves the state as it was.         *)
BeginRefresh(c, t) ==
    /\ pc[c] = "idle"
    /\ t \in delivered
    /\ t.exp > now
    /\ pc' = [pc EXCEPT ![c] = "validate"]
    /\ slot' = [slot EXCEPT ![c] = t.slot]
    /\ old' = [old EXCEPT ![c] = t]
    /\ UNCHANGED <<now, store, lastJti, delivered, new, scanVars>>

(* Mutant: a key that is gone counts as a match. *)
AcceptsAbsent(c) ==
    /\ pc[c] = "validate"
    /\ IF Lookup(slot[c]) \in {old[c], NoToken}
       THEN /\ pc' = [pc EXCEPT ![c] = "revoke"]
            /\ UNCHANGED <<slot, old, new, scanVars>>
       ELSE Finish(c)
    /\ UNCHANGED <<now, store, lastJti, delivered>>

(* validate_token: GET and compare; a mismatch raises TokenRefreshError. *)
Validate(c) ==
    /\ pc[c] = "validate"
    /\ IF Lookup(slot[c]) = old[c]
       THEN /\ pc' = [pc EXCEPT ![c] = "revoke"]
            /\ UNCHANGED <<slot, old, new, scanVars>>
       ELSE Finish(c)
    /\ UNCHANGED <<now, store, lastJti, delivered>>

(* Mutant: the key stays. *)
SkipsRevoke(c) ==
    /\ pc[c] = "revoke"
    /\ pc' = [pc EXCEPT ![c] = "mint"]
    /\ UNCHANGED <<now, store, lastJti, delivered, slot, old, new, scanVars>>

(* revoke_token inside refresh_tokens: DEL of the key, whatever it holds. *)
RevokeOld(c) ==
    /\ pc[c] = "revoke"
    /\ store' = [store EXCEPT ![slot[c]] = Absent]
    /\ pc' = [pc EXCEPT ![c] = "mint"]
    /\ UNCHANGED <<now, lastJti, delivered, slot, old, new, scanVars>>

(* create_token_pair inside refresh_tokens, up to its await. *)
MintSuccessor(c) ==
    /\ pc[c] = "mint"
    /\ lastJti < MaxTokens
    /\ new' = [new EXCEPT ![c] = Mint(slot[c])]
    /\ lastJti' = lastJti + 1
    /\ pc' = [pc EXCEPT ![c] = "store"]
    /\ UNCHANGED <<now, store, delivered, slot, old, scanVars>>

(* store_token: SETEX overwrites whatever the key holds and restarts the   *)
(* TTL.  Scans in progress note that the slot was written.                 *)
Setex(c, t, until) ==
    /\ pc[c] = "store"
    /\ store' = [store EXCEPT ![slot[c]] = [token |-> t, until |-> until]]
    /\ pc' = [pc EXCEPT ![c] = "return"]
    /\ missed' = [d \in Calls |-> missed[d] \cup ({slot[c]} \cap pattern[d])]
    /\ UNCHANGED <<now, lastJti, delivered, slot, old, new,
                   pattern, todo, found>>

(* Mutant: the key lives one second less than the token. *)
LapsesEarly(c) == Setex(c, new[c], now + StoreTtl - 1)

(* store_token of the pair just made: its TTL is the store's own. *)
StoreNew(c) == Setex(c, new[c], now + StoreTtl)

(* The pair reaches the caller. *)
Return(c) ==
    /\ pc[c] = "return"
    /\ delivered' = delivered \cup {new[c]}
    /\ Finish(c)
    /\ UNCHANGED <<now, store, lastJti>>

(* Mutant: a refresh that fails puts the old token back. *)
FailPutsBack(c) ==
    /\ pc[c] # "idle"
    /\ store' = IF pc[c] \in {"mint", "store"} /\ old[c] # NoToken
                THEN [store EXCEPT ![slot[c]] =
                         [token |-> old[c], until |-> now + StoreTtl]]
                ELSE store
    /\ Finish(c)
    /\ UNCHANGED <<now, lastJti, delivered>>

(* A Redis command raises, the task is cancelled or the process stops at   *)
(* one of the awaits: the call ends and nothing is undone.                 *)
Fail(c) ==
    /\ pc[c] # "idle"
    /\ Finish(c)
    /\ UNCHANGED <<now, store, lastJti, delivered>>

-----------------------------------------------------------------------------
(* RefreshTokenStore: revocation from outside a refresh *)

(* revoke_token called for a logout of one device: one DEL. *)
RevokeDevice(s) ==
    /\ store' = [store EXCEPT ![s] = Absent]
    /\ UNCHANGED <<now, lastJti, delivered, pc, slot, old, new, scanVars>>

(* revoke_all_user_tokens: the SCAN meets each key of the user that is     *)
(* there from its beginning to its end, and any other one or not, ...      *)
BeginRevokeAll(c, u) ==
    /\ pc[c] = "idle"
    /\ pc' = [pc EXCEPT ![c] = "scan"]
    /\ pattern' = [pattern EXCEPT ![c] = {u} \X Devices]
    /\ todo' = [todo EXCEPT ![c] = {u} \X Devices]
    /\ UNCHANGED <<now, store, lastJti, delivered, slot, old, new,
                   found, missed>>

(* Mutant: a key found is not collected. *)
ScanDropsKey(c, s) ==
    /\ pc[c] = "scan"
    /\ s \in todo[c]
    /\ todo' = [todo EXCEPT ![c] = @ \ {s}]
    /\ UNCHANGED <<now, store, lastJti, delivered, pc, slot, old, new,
                   pattern, found, missed>>

(* ... collecting those it meets that hold a token, ... *)
ScanKey(c, s) ==
    /\ pc[c] = "scan"
    /\ s \in todo[c]
    /\ todo' = [todo EXCEPT ![c] = @ \ {s}]
    /\ found' = [found EXCEPT ![c] = IF Lookup(s) = NoToken THEN @
                                     ELSE @ \cup {s}]
    /\ UNCHANGED <<now, store, lastJti, delivered, pc, slot, old, new,
                   pattern, missed>>

(* ... and the scan over, one DEL of the keys collected, if any. *)
EndScan(c) ==
    /\ pc[c] = "scan"
    /\ todo[c] = {}
    /\ IF found[c] = {} THEN Finish(c)
       ELSE /\ pc' = [pc EXCEPT ![c] = "delete"]
            /\ UNCHANGED <<slot, old, new, scanVars>>
    /\ UNCHANGED <<now, store, lastJti, delivered>>

DeleteKeys(c) ==
    /\ pc[c] = "delete"
    /\ store' = [s \in Slots |-> IF s \in found[c] THEN Absent ELSE store[s]]
    /\ Finish(c)
    /\ UNCHANGED <<now, lastJti, delivered>>

Tick ==
    /\ now < MaxTime
    /\ now' = now + 1
    /\ UNCHANGED <<store, lastJti, delivered, pc, slot, old, new, scanVars>>

-----------------------------------------------------------------------------
Next ==
    \/ \E c \in Calls, s \in Slots : BeginLogin(c, s) \/ ScanKey(c, s)
    \/ \E c \in Calls, t \in delivered : BeginRefresh(c, t)
    \/ \E c \in Calls : \/ Validate(c) \/ RevokeOld(c) \/ MintSuccessor(c)
                        \/ StoreNew(c) \/ Return(c) \/ Fail(c)
                        \/ EndScan(c) \/ DeleteKeys(c)
    \/ \E c \in Calls, u \in Users : BeginRevokeAll(c, u)
    \/ \E s \in Slots : RevokeDevice(s)
    \/ Tick

Spec == Init /\ [][Next]_vars

-----------------------------------------------------------------------------
(* Properties *)

(* Past its validation, before its end: c will delete or overwrite a key. *)
Writer(c) == pc[c] \in {"revoke", "mint", "store"}

(* Once a refresh has revoked the token it was given, that token is never  *)
(* again the one the store would accept, whatever else is running: a       *)
(* refresh that starts after another one returned cannot reuse its token.  *)
RotationRetires ==
    \A c \in Calls : pc[c] \in {"mint", "store", "return"} /\ old[c] # NoToken
                        => \A s \in Slots : store[s].token # old[c]

(* The TTL of a key never ends before the JWT stored under it does, so a   *)
(* pair stays refreshable for the refresh_expires_in it was issued with.   *)
PromisedLifetime ==
    \A s \in Slots : store[s].token # NoToken
                        => store[s].until >= store[s].token.exp

(* A slot without a token and without a call about to write it comes back  *)
(* to life only through a login: a revocation that overlaps no refresh is  *)
(* final.                                                                  *)
Quiet(s) == /\ Lookup(s) = NoToken
            /\ \A c \in Calls : Writer(c) => slot[c] # s

QuietStaysQuiet ==
    [][\A s \in Slots : Quiet(s) => \/ Quiet(s)'
                                    \/ \E c \in Calls : BeginLogin(c, s)]_vars

(* revoke_all_user_tokens misses no token but one stored while its SCAN    *)
(* was under way: every key of the user that still answers is to be        *)
(* scanned, is collected, or was written since.                            *)
RevokeAllComplete ==
    \A c \in Calls : \A s \in pattern[c] :
        Lookup(s) # NoToken => s \in todo[c] \cup found[c] \cup missed[c]

-----------------------------------------------------------------------------
(* Refinement: the store implements TokenLife. *)

CurrentJti == [s \in Slots |-> IF Lookup(s) = NoToken THEN 0 ELSE Lookup(s).jti]
PendingJtis == {new[c].jti : c \in {d \in Calls : pc[d] = "store"}}
SpentJtis == {j \in 1..lastJti : /\ \A s \in Slots : CurrentJti[s] # j
                                 /\ j \notin PendingJtis}

Life == INSTANCE TokenLife WITH current <- CurrentJti, spent <- SpentJtis

(* Every token is current for at most one stretch of time (TokenLife):     *)
(* no interleaving of logins, refreshes, revocations, failures and TTLs    *)
(* makes a token acceptable again once it has stopped being so.            *)
OneLifePerToken == Life!LifeSpec
=============================================================================
