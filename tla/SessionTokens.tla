---------------------------- MODULE SessionTokens ----------------------------
(***************************************************************************)
(* The refresh tokens of JWTService and their RedisTokenRepository         *)
(* (src/src/auth/services/jwt_service.py, repositories/token_repository.py *)
(* and the services that call them, auth_service_sqlite_async.py and       *)
(* auth_service.py), for one user.  Every call is a chain of Redis         *)
(* commands, each awaited, each of which may fail; a failure ends          *)
(* store_refresh_token or revoke_token where it is, with False for an      *)
(* answer.  create_refresh_token returns a token at once and leaves        *)
(* storing it to a task of its own.                                        *)
(***************************************************************************)
EXTENDS Naturals, FiniteSets

CONSTANTS Tasks,     \* calls that overlap
          Jtis,      \* tokens
          NoJti,     \* a call about no token, or about all of them
          Lives,     \* how long the tokens of direct callers live
          Life,      \* refresh_token_expire_minutes of JWTService
          MaxTime    \* the model's clock stops here

ASSUME SessionsAssumption ==
    /\ NoJti \notin Jtis /\ Lives \subseteq Nat \ {0} /\ Life \in Nat \ {0} /\ MaxTime \in Nat

VARIABLES
    now,
    exp,       \* when the JWT of a token expires, 0 before it is issued
    token,     \* when the key refresh_token:<jti> expires, 0 without the key
    marker,    \* the same of revoked_tokens:<jti>
    list,      \* the members of user_tokens:<user>
    listEnd,   \* when that key expires, 0 if it does not
    pending,   \* issued tokens whose storing has not run yet
    task,      \* where each call is
    revoked,   \* tokens that a revoke_token has answered True for
    astray     \* tokens the list may not have, for a reason named below

redis == <<token, marker, list, listEnd>>
history == <<revoked, astray>>
vars == <<now, exp, redis, pending, task, history>>

Storing == {"setex", "sadd", "expire"}
Revoking == {"get", "mark", "del", "srem"}
Places == Storing \cup Revoking \cup {"idle", "lookup", "drop", "out"}

Call == [op : {"none", "store", "revoke", "refresh", "logout"}, at : Places, jti : Jtis \cup {NoJti},
         ttl : Nat,
         todo : SUBSET Jtis,    \* a logout: the members still to be revoked
         failed : SUBSET Jtis,  \* whose revocation failed
         late : SUBSET Jtis]    \* who joined the list after it was read

TypeOK ==
    /\ now \in 0..MaxTime
    /\ exp \in [Jtis -> Nat] /\ token \in [Jtis -> Nat] /\ marker \in [Jtis -> Nat]
    /\ list \subseteq Jtis /\ listEnd \in Nat
    /\ \A j \in Jtis : token[j] # 0 => token[j] > now /\ exp[j] # 0
    /\ listEnd # 0 => listEnd > now
    /\ pending \subseteq Jtis /\ task \in [Tasks -> Call]
    /\ revoked \cup astray \subseteq {j \in Jtis : exp[j] # 0}

Resting == [op |-> "none", at |-> "idle", jti |-> NoJti, ttl |-> 0,
            todo |-> {}, failed |-> {}, late |-> {}]

Init ==
    /\ now = 0 /\ exp = [j \in Jtis |-> 0]
    /\ token = [j \in Jtis |-> 0] /\ marker = [j \in Jtis |-> 0]
    /\ list = {} /\ listEnd = 0
    /\ pending = {} /\ task = [t \in Tasks |-> Resting]
    /\ revoked = {} /\ astray = {}

At(t) == task[t].at
Op(t) == task[t].op
Jti(t) == task[t].jti

Goto(t, place) == task' = [task EXCEPT ![t].at = place]
End(t) == task' = [task EXCEPT ![t] = Resting]

Unissued == {j \in Jtis : exp[j] = 0}

(* is_token_valid(j) *)
Valid(j) == marker[j] = 0 /\ token[j] # 0

(* int() of the seconds that are left cuts their fraction. *)
Ttls(j) == IF exp[j] <= now THEN {0} ELSE {exp[j] - now, exp[j] - now - 1}

(* Time passes; Redis drops the keys whose time has come. *)
Tick ==
    LET Kept(key) == [j \in Jtis |-> IF key[j] <= now + 1 THEN 0 ELSE key[j]]
        over == listEnd # 0 /\ listEnd <= now + 1
    IN  /\ now < MaxTime
        /\ now' = now + 1
        /\ token' = Kept(token) /\ marker' = Kept(marker)
        /\ list' = IF over THEN {} ELSE list
        /\ listEnd' = IF over THEN 0 ELSE listEnd
        /\ UNCHANGED <<exp, pending, task, history>>

-----------------------------------------------------------------------------
(* Storing *)

(* A direct call of store_refresh_token, whose expiry has no time zone.    *)
Store(t) ==
    \E j \in Unissued, d \in Lives :
        /\ At(t) = "idle"
        /\ exp' = [exp EXCEPT ![j] = now + d]
        /\ \E ttl \in {d, d - 1} \ {0} :
              task' = [task EXCEPT ![t] = [Resting EXCEPT !.op = "store", !.at = "setex",
                                                          !.jti = j, !.ttl = ttl]]
        /\ UNCHANGED <<now, redis, pending, history>>

(* login, refresh: create_refresh_token makes the token and a task to      *)
(* store it, which begins when the caller next waits.                      *)
Issued(j) ==
    /\ exp' = [exp EXCEPT ![j] = now + Life]
    /\ pending' = pending \cup {j}

Login == \E j \in Unissued : Issued(j) /\ UNCHANGED <<now, redis, task, history>>

(* That task: the expiry has a time zone, expires_at - datetime.utcnow()   *)
(* raises a TypeError, and the token is not stored.                        *)
StoreIssued ==
    \E j \in pending :
        /\ pending' = pending \ {j}
        /\ UNCHANGED <<now, exp, redis, task, history>>

StoreSetex(t) ==
    /\ At(t) = "setex"
    /\ token' = [token EXCEPT ![Jti(t)] = now + task[t].ttl]
    /\ Goto(t, "sadd")
    /\ UNCHANGED <<now, exp, marker, list, listEnd, pending, history>>

(* Mutant: the list is set to the new member. *)
StoreReplaces(t) ==
    /\ At(t) = "sadd"
    /\ list' = {Jti(t)}
    /\ Goto(t, "expire")
    /\ UNCHANGED <<now, exp, token, marker, listEnd, pending, history>>

(* Logouts that have read the list will not see the new member. *)
StoreSadd(t) ==
    /\ At(t) = "sadd"
    /\ list' = list \cup {Jti(t)}
    /\ task' = [u \in Tasks |-> IF u = t THEN [task[u] EXCEPT !.at = "expire"]
                                ELSE IF Op(u) = "logout" THEN [task[u] EXCEPT !.late = @ \cup {Jti(t)}]
                                ELSE task[u]]
    /\ UNCHANGED <<now, exp, token, marker, listEnd, pending, history>>

(* The list lives as long as the token stored last: members that live      *)
(* longer will outlive it.  The list may have ended since the command      *)
(* before, with the new member.                                            *)
StoreExpire(t) ==
    /\ At(t) = "expire"
    /\ listEnd' = IF list = {} THEN 0 ELSE now + task[t].ttl
    /\ astray' = (astray \ list) \cup {j \in list : token[j] > now + task[t].ttl}
                 \cup ({Jti(t)} \ list)
    /\ End(t)
    /\ UNCHANGED <<now, exp, token, marker, list, pending, revoked>>

(* Redis refuses one of the commands. *)
StoreFails(t) ==
    /\ At(t) \in Storing
    /\ astray' = astray \cup {Jti(t)}
    /\ End(t)
    /\ UNCHANGED <<now, exp, redis, pending, revoked>>

-----------------------------------------------------------------------------
(* revoke_token, by itself, in a refresh and in revoke_user_tokens *)

Revoke(t) ==
    \E j \in Jtis \ Unissued :
        /\ At(t) = "idle"
        /\ task' = [task EXCEPT ![t] = [Resting EXCEPT !.op = "revoke", !.at = "get", !.jti = j]]
        /\ UNCHANGED <<now, exp, redis, pending, history>>

(* decode_token asks the repository only where no event loop is running,   *)
(* which is nowhere a service calls it: a revoked token will do.           *)
Decoded(j) == now < exp[j]

(* refresh_tokens revokes the token it was given. *)
RefreshTokens(t) ==
    \E j \in Jtis \ Unissued :
        /\ At(t) = "idle" /\ Decoded(j)
        /\ task' = [task EXCEPT ![t] = [Resting EXCEPT !.op = "refresh", !.at = "get", !.jti = j]]
        /\ UNCHANGED <<now, exp, redis, pending, history>>

(* Mutant: one member is enough. *)
TakeOne(call) == IF call.failed # {} \/ call.jti # NoJti
                 THEN {[call EXCEPT !.at = "drop", !.jti = NoJti, !.ttl = 0]}
                 ELSE {[call EXCEPT !.at = "get", !.jti = j, !.todo = @ \ {j}] : j \in call.todo}

(* A logout takes the next member, in any order. *)
TakeNext(call) == IF call.todo = {} THEN {[call EXCEPT !.at = "drop", !.jti = NoJti, !.ttl = 0]}
               ELSE {[call EXCEPT !.at = "get", !.jti = j, !.ttl = 0, !.todo = @ \ {j}] : j \in call.todo}

(* revoke_token has answered: a logout goes on to the next member, and a   *)
(* refresh to its user, whatever the answer was.                           *)
Answer(t, ok) ==
    \/ Op(t) = "revoke" /\ End(t)
    \/ Op(t) = "refresh" /\ task' = [task EXCEPT ![t] = [Resting EXCEPT !.op = "refresh", !.at = "lookup"]]
    \/ /\ Op(t) = "logout"
       /\ \E call \in TakeNext([task[t] EXCEPT !.failed = IF ok THEN @ ELSE @ \cup {Jti(t)}]) :
             task' = [task EXCEPT ![t] = call]

(* A token without a key is answered False, which is no failure here. *)
RevokeGet(t) ==
    /\ At(t) = "get"
    /\ IF token[Jti(t)] = 0 THEN Answer(t, TRUE)
       ELSE \E d \in Ttls(Jti(t)) :
              task' = [task EXCEPT ![t].at = IF d = 0 THEN "del" ELSE "mark", ![t].ttl = d]
    /\ UNCHANGED <<now, exp, redis, pending, history>>

RevokeMark(t) ==
    /\ At(t) = "mark"
    /\ marker' = [marker EXCEPT ![Jti(t)] = now + task[t].ttl]
    /\ task' = [task EXCEPT ![t].at = "del", ![t].ttl = 0]
    /\ UNCHANGED <<now, exp, token, list, listEnd, pending, history>>

(* Mutant: the marker is thought to be enough. *)
RevokeKeeps(t) == At(t) = "del" /\ Goto(t, "srem") /\ UNCHANGED <<now, exp, redis, pending, history>>

RevokeDel(t) ==
    /\ At(t) = "del"
    /\ token' = [token EXCEPT ![Jti(t)] = 0]
    /\ Goto(t, "srem")
    /\ UNCHANGED <<now, exp, marker, list, listEnd, pending, history>>

(* A set that loses its last member is gone, and so is its expiry. *)
RevokeSrem(t) ==
    /\ At(t) = "srem"
    /\ list' = list \ {Jti(t)}
    /\ listEnd' = IF list' = {} THEN 0 ELSE listEnd
    /\ revoked' = revoked \cup {Jti(t)}
    /\ Answer(t, TRUE)
    /\ UNCHANGED <<now, exp, token, marker, pending, astray>>

RevokeFails(t) ==
    /\ At(t) \in Revoking
    /\ Answer(t, FALSE)
    /\ UNCHANGED <<now, exp, redis, pending, history>>

(* The rest of a refresh: the user may be gone, or his table not to be     *)
(* read, after his token has been revoked; otherwise he gets a new one.    *)
RefreshEnds(t) ==
    /\ At(t) = "lookup"
    /\ End(t)
    /\ \/ UNCHANGED <<exp, pending>>
       \/ \E j \in Unissued : Issued(j)
    /\ UNCHANGED <<now, redis, history>>

-----------------------------------------------------------------------------
(* revoke_user_tokens *)

(* revoke_refresh_token and revoke_all_user_tokens; a device makes no      *)
(* difference.  An empty list ends the call.                               *)
Logout(t) ==
    /\ At(t) = "idle" /\ list # {}
    /\ \E call \in TakeNext([Resting EXCEPT !.op = "logout", !.todo = list]) :
          task' = [task EXCEPT ![t] = call]
    /\ UNCHANGED <<now, exp, redis, pending, history>>

(* The list is deleted with whoever is on it: tokens that came late, and   *)
(* those whose revocation failed.                                          *)
LogoutDrop(t) ==
    /\ At(t) = "drop"
    /\ list' = {} /\ listEnd' = 0
    /\ astray' = astray \cup (list \cap (task[t].failed \cup task[t].late))
    /\ Goto(t, "out")
    /\ UNCHANGED <<now, exp, token, marker, pending, revoked>>

(* Redis refuses the deletion, or the call returns. *)
LogoutEnds(t) ==
    /\ At(t) \in {"drop", "out"}
    /\ End(t)
    /\ UNCHANGED <<now, exp, redis, pending, history>>

Next ==
    \/ Tick \/ Login \/ StoreIssued
    \/ \E t \in Tasks :
          \/ Store(t) \/ StoreSetex(t) \/ StoreSadd(t)
          \/ StoreExpire(t) \/ StoreFails(t)
          \/ Revoke(t) \/ RefreshTokens(t) \/ RevokeGet(t) \/ RevokeMark(t) \/ RevokeDel(t)
          \/ RevokeSrem(t) \/ RevokeFails(t) \/ RefreshEnds(t)
          \/ Logout(t) \/ LogoutDrop(t) \/ LogoutEnds(t)

Spec == Init /\ [][Next]_vars

-----------------------------------------------------------------------------
(* Properties *)

(* A token whose revocation has been answered True is never valid again,   *)
(* though its marker may expire before the key it replaces would have.     *)
RevokedStaysInvalid == \A j \in revoked : ~Valid(j)

(* A stored token is on the list of its user, where a logout finds it;     *)
(* unless it is being stored, storing it failed half way, a token of a     *)
(* shorter life was stored after it, or a logout that it had joined late,  *)
(* or that had failed to revoke it, deleted the list.                      *)
ValidIsListed ==
    \A j \in Jtis :
        Valid(j) => \/ j \in list \cup astray
                    \/ \E t \in Tasks : Jti(t) = j /\ At(t) \in {"sadd", "expire"}

(* When a logout returns, the tokens that are still valid are those it     *)
(* failed to revoke, those stored while it ran, and those off the list.    *)
LogoutIsComplete ==
    \A t \in Tasks :
        At(t) = "out" =>
            \A j \in Jtis :
                Valid(j) => \/ j \in task[t].failed \cup task[t].late \cup astray
                            \/ \E u \in Tasks : Jti(u) = j /\ At(u) \in {"sadd", "expire"}

(* jwt_service.py:324 stores every refresh token it issues, so that it can *)
(* be revoked: a token that has not expired is about to be stored, is      *)
(* stored, was revoked, or met a failing Redis.  The code never stores one *)
(* of them.                                                                *)
IssuedIsTracked ==
    \A j \in Jtis :
        exp[j] > now => \/ j \in pending \cup astray \cup revoked
                        \/ token[j] # 0 \/ marker[j] # 0
                        \/ \E t \in Tasks : Jti(t) = j
===============================================================================
