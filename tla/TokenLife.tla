------------------------------ MODULE TokenLife ------------------------------
(***************************************************************************)
(* What the refresh-token store of src/src/auth/jwt_manager.py promises    *)
(* about one token, whatever the interleaving of the calls that use it:    *)
(* a token is the current one of its (user, device) slot during at most    *)
(* one interval of time.  Tokens are named by their jti, a positive        *)
(* number; 0 stands for "no current token".                                *)
(***************************************************************************)
EXTENDS Naturals

CONSTANT Slots      \* the (user, device) pairs

VARIABLES current,  \* the jti each slot accepts, 0 when it accepts none
          spent     \* the jtis no slot will ever accept (again)

lifeVars == <<current, spent>>

LifeTypeOK == /\ current \in [Slots -> Nat]
              /\ spent \subseteq Nat

LifeInit == /\ current = [s \in Slots |-> 0]
            /\ spent = {}

(* A token becomes the current one of s; the token it replaces is spent. *)
Activate(s, j) ==
    /\ j \in Nat \ ({0} \cup spent)
    /\ \A r \in Slots : current[r] # j
    /\ current' = [current EXCEPT ![s] = j]
    /\ spent' = spent \cup ({current[s]} \ {0})

(* The tokens of some slots stop being accepted: revocation or expiry. *)
Retire(S) ==
    /\ current' = [s \in Slots |-> IF s \in S THEN 0 ELSE current[s]]
    /\ spent' = spent \cup ({current[s] : s \in S} \ {0})

(* A token that was created and never became current is given up. *)
Discard(j) ==
    /\ j \in Nat \ {0}
    /\ \A s \in Slots : current[s] # j
    /\ spent' = spent \cup {j}
    /\ UNCHANGED current

LifeNext ==
    \/ \E s \in Slots : Activate(s, current'[s])
    \/ \E S \in SUBSET Slots : Retire(S)
    \/ \E j \in spent' : Discard(j)

LifeSpec == LifeInit /\ [][LifeNext]_lifeVars
=============================================================================
