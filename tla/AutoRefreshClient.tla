--------------------------- MODULE AutoRefreshClient ---------------------------
(***************************************************************************)
(* AutoRefreshClient of src/src/auth/jwt_manager.py on top of the store    *)
(* and the manager (TokenRefresh): requests and the background task share  *)
(* one token pair and refresh it under an asyncio.Lock.  The calls of      *)
(* TokenRefresh are the tasks of one client of one (user, device); an      *)
(* access token is the one created with the refresh token of the same pair.*)
(***************************************************************************)
EXTENDS TokenRefresh, SequencesExt

CONSTANTS Background,        \* the task of start_background_refresh
          ClientSlot,        \* the (user, device) of the client
          AccessLife,        \* access_token_expire_minutes
          RefreshThreshold,  \* refresh_threshold_minutes of the client
          LockThreshold,     \* threshold_minutes' default, used under the lock
          RetryAttempts      \* retry_attempts

ASSUME ClientAssumption ==
    /\ Background \in Calls
    /\ ClientSlot \in Slots
    /\ {AccessLife, RefreshThreshold, LockThreshold, RetryAttempts} \subseteq Nat

VARIABLES
    held,       \* _access_token and _refresh_token
    queue,      \* _refresh_lock: its holder, then the tasks waiting, in order
    phase,      \* where each task is
    after,      \* where it goes when its refresh is over
    attempt,    \* the loop counter of request
    disturbed   \* history: a refresh broke off, or the token was revoked

clientVars == <<held, queue, phase, after, attempt, disturbed>>
allVars == <<vars, clientVars>>

ClientTypeOK ==
    /\ TypeOK
    /\ held \in Token
    /\ queue \in Seq(Calls)
    /\ phase \in [Calls -> {"idle", "lock", "refresh", "send", "backoff"}]
    /\ after \in [Calls -> {"idle", "send", "backoff"}]
    /\ attempt \in [Calls -> Nat]
    /\ disturbed \in BOOLEAN

(* is_token_near_expiry *)
AccessExp(t) == t.exp + AccessLife - RefreshLife
NearExpiry(t, threshold) == AccessExp(t) < now + threshold

FirstToken == [slot |-> ClientSlot, jti |-> 1, exp |-> RefreshLife]

(* create_token_pair has returned and set_tokens was called with its pair. *)
ClientInit ==
    /\ now = 0
    /\ store = [s \in Slots |-> IF s = ClientSlot
                                THEN [token |-> FirstToken, until |-> StoreTtl]
                                ELSE Absent]
    /\ lastJti = 1
    /\ delivered = {FirstToken}
    /\ pc = [c \in Calls |-> "idle"]
    /\ slot = [c \in Calls |-> NoSlot]
    /\ old = [c \in Calls |-> NoToken]
    /\ new = [c \in Calls |-> NoToken]
    /\ pattern = [c \in Calls |-> {}]
    /\ todo = [c \in Calls |-> {}]
    /\ found = [c \in Calls |-> {}]
    /\ missed = [c \in Calls |-> {}]
    /\ held = FirstToken
    /\ queue = <<>>
    /\ phase = [t \in Calls |-> "idle"]
    /\ after = [t \in Calls |-> "idle"]
    /\ attempt = [t \in Calls |-> 0]
    /\ disturbed = FALSE

-----------------------------------------------------------------------------
(* Moves of one task *)

(* await _refresh_lock.acquire(): asyncio.Lock serves in order of arrival. *)
Enqueue(t, next) ==
    /\ queue' = Append(queue, t)
    /\ phase' = [phase EXCEPT ![t] = "lock"]
    /\ after' = [after EXCEPT ![t] = next]

(* Leaving async with self._refresh_lock, normally or not. *)
Release(t) == queue' = RemoveFirst(queue, t)

(* The request or the background iteration is over. *)
EndTask(t) ==
    /\ phase' = [phase EXCEPT ![t] = "idle"]
    /\ after' = [after EXCEPT ![t] = "idle"]
    /\ attempt' = [attempt EXCEPT ![t] = 0]

(* _refresh_tokens returned: what called it goes on.                       *)
Continue(t) ==
    IF after[t] = "idle" THEN EndTask(t)
    ELSE /\ phase' = [phase EXCEPT ![t] = after[t]]
         /\ after' = [after EXCEPT ![t] = "idle"]
         /\ UNCHANGED attempt

(* request, up to its first await: a proactive refresh or the first send.  *)
StartRequest(t) ==
    /\ t # Background
    /\ phase[t] = "idle"
    /\ IF NearExpiry(held, RefreshThreshold)
       THEN Enqueue(t, "send")
       ELSE /\ phase' = [phase EXCEPT ![t] = "send"]
            /\ UNCHANGED <<queue, after>>
    /\ UNCHANGED <<vars, held, attempt, disturbed>>

(* refresh_loop after its sleep. *)
WakeBackground ==
    /\ phase[Background] = "idle"
    /\ NearExpiry(held, RefreshThreshold)
    /\ Enqueue(Background, "idle")
    /\ UNCHANGED <<vars, held, attempt, disturbed>>

(* _refresh_tokens with the lock: already refreshed by another task, ...   *)
AlreadyRefreshed(t) ==
    /\ phase[t] = "lock" /\ Head(queue) = t
    /\ ~NearExpiry(held, LockThreshold)
    /\ Release(t)
    /\ Continue(t)
    /\ UNCHANGED <<vars, held, disturbed>>

(* Mutant: the lock is not waited for. *)
StartUnlocked(t) ==
    /\ phase[t] = "lock"
    /\ NearExpiry(held, LockThreshold)
    /\ BeginRefresh(t, held)
    /\ phase' = [phase EXCEPT ![t] = "refresh"]
    /\ UNCHANGED <<held, queue, after, attempt, disturbed>>

(* ... or to be refreshed by this one, up to the first await, ...          *)
StartRefresh(t) ==
    /\ phase[t] = "lock" /\ Head(queue) = t
    /\ NearExpiry(held, LockThreshold)
    /\ BeginRefresh(t, held)
    /\ phase' = [phase EXCEPT ![t] = "refresh"]
    /\ UNCHANGED <<held, queue, after, attempt, disturbed>>

(* ... unless the refresh token itself has expired: TokenRefreshError.     *)
RefreshExpired(t) ==
    /\ phase[t] = "lock" /\ Head(queue) = t
    /\ NearExpiry(held, LockThreshold)
    /\ held.exp <= now
    /\ Release(t)
    /\ EndTask(t)
    /\ UNCHANGED <<vars, held, disturbed>>

(* jwt_manager.refresh_tokens goes on; when the store rejects the token,   *)
(* TokenRefreshError leaves the lock and ends the task.                    *)
RefreshStep(t) ==
    /\ phase[t] = "refresh"
    /\ Validate(t) \/ RevokeOld(t) \/ MintSuccessor(t) \/ StoreNew(t)
    /\ IF pc'[t] = "idle" THEN Release(t) /\ EndTask(t)
       ELSE UNCHANGED <<queue, phase, after, attempt>>
    /\ UNCHANGED <<held, disturbed>>

(* Mutant: the new pair is not kept. *)
KeepsOldPair(t) ==
    /\ phase[t] = "refresh"
    /\ Return(t)
    /\ Release(t)
    /\ Continue(t)
    /\ UNCHANGED <<held, disturbed>>

(* It returned: the client takes the new pair, still under the lock.       *)
FinishRefresh(t) ==
    /\ phase[t] = "refresh"
    /\ Return(t)
    /\ held' = new[t]
    /\ Release(t)
    /\ Continue(t)
    /\ UNCHANGED disturbed

(* Mutant: a task that breaks off in a refresh keeps the lock. *)
LeaksLock(t) ==
    /\ phase[t] # "idle"
    /\ IF pc[t] = "idle" THEN UNCHANGED <<vars, disturbed>> /\ Release(t)
       ELSE Fail(t) /\ disturbed' = TRUE /\ UNCHANGED queue
    /\ EndTask(t)
    /\ UNCHANGED held

(* A command raises in the middle of the refresh, or the task is cancelled *)
(* at any await (stop_background_refresh, the caller of request).          *)
Abort(t) ==
    /\ phase[t] # "idle"
    /\ IF pc[t] = "idle" THEN UNCHANGED <<vars, disturbed>>
       ELSE Fail(t) /\ disturbed' = TRUE
    /\ Release(t)
    /\ EndTask(t)
    /\ UNCHANGED held

(* The answer to an attempt: 401 with attempts left asks for a refresh, ...*)
Unauthorized(t) ==
    /\ phase[t] = "send"
    /\ attempt[t] + 1 < RetryAttempts
    /\ Enqueue(t, "backoff")
    /\ UNCHANGED <<vars, held, attempt, disturbed>>

(* ... anything else, a 401 on the last attempt included, ends the request.*)
Answered(t) ==
    /\ phase[t] = "send"
    /\ EndTask(t)
    /\ UNCHANGED <<vars, held, queue, disturbed>>

(* After retry_delay_seconds, the next attempt, with the pair then held.   *)
Resend(t) ==
    /\ phase[t] = "backoff"
    /\ phase' = [phase EXCEPT ![t] = "send"]
    /\ attempt' = [attempt EXCEPT ![t] = @ + 1]
    /\ UNCHANGED <<vars, held, queue, after, disturbed>>

(* The device's token is revoked from outside the client. *)
RevokedOutside ==
    /\ RevokeDevice(ClientSlot)
    /\ disturbed' = TRUE
    /\ UNCHANGED <<held, queue, phase, after, attempt>>

ClientTick == Tick /\ UNCHANGED clientVars

-----------------------------------------------------------------------------
TaskStep(t) == \/ AlreadyRefreshed(t) \/ StartRefresh(t) \/ RefreshExpired(t)
               \/ RefreshStep(t) \/ FinishRefresh(t)
               \/ Unauthorized(t) \/ Answered(t) \/ Resend(t)

ClientNext == \/ \E t \in Calls : StartRequest(t) \/ TaskStep(t) \/ Abort(t)
              \/ WakeBackground
              \/ RevokedOutside
              \/ ClientTick

ClientSpec == ClientInit /\ [][ClientNext]_allVars

(* A refresh that would create one token more than MaxTokens breaks off.   *)
AtBound(t) == lastJti = MaxTokens /\ pc[t] = "mint" /\ Abort(t)

(* The event loop runs every task that can run, and Redis and the API      *)
(* answer or raise; nothing is assumed of the caller or of the clock.      *)
ClientFairSpec ==
    ClientSpec /\ \A t \in Calls : WF_allVars(TaskStep(t) \/ AtBound(t))

-----------------------------------------------------------------------------
(* Properties *)

(* "Refresh tokens with lock to prevent concurrent refresh": the client    *)
(* never has two refreshes in progress, whichever task breaks off when.    *)
OneRefreshAtATime ==
    \A t, u \in Calls : pc[t] # "idle" /\ pc[u] # "idle" => t = u

(* Unless a refresh broke off midway or the token was revoked outside, the *)
(* pair the client holds is the one the store would accept, at every time  *)
(* no refresh is between its DEL and its return: the tasks of one client   *)
(* never lock one another out.                                             *)
HeldIsCurrent ==
    ~disturbed /\ (\A t \in Calls : pc[t] \in {"idle", "validate", "revoke"})
        => store[ClientSlot].token = held

(* Every request and every background iteration comes to an end: retries   *)
(* are bounded and the lock is left on every path out of a refresh.        *)
TasksEnd == \A t \in Calls : phase[t] # "idle" ~> phase[t] = "idle"

=============================================================================
