------------------------- MODULE UserAccounts_proofs --------------------------
(***************************************************************************)
(* Theorems about UserAccounts, for any number of tasks and any supply of  *)
(* ids.  The inductive invariant says of every call what it may rely on at *)
(* the place where it is: what the tables still show of the account it     *)
(* knows, unless somebody has overtaken it, and that an account which is   *)
(* gone while roles are about to be added to it is on record as deleted    *)
(* late.                                                                   *)
(***************************************************************************)
EXTENDS UserAccounts, FiniteSetTheorems, TLAPS

(* Where a call knows an account, and where it has seen it in the table.   *)
Knowing == Adding \cup {"get", "write", "roles", "check", "done"}
Seeing == Knowing \ {"get"}

Reads == {"login", "renew", "profile"}

(* Which calls are where, and what they carry.                             *)
Sits(c) ==
    /\ c.at = "refresh" => c.op = "register"
    /\ c.at \in {"insert", "assign"} => c.op \in {"register", "startup"}
    /\ c.at \in {"reading", "promote"} => c.op = "startup"
    /\ c.at \in {"get", "write"} => c.op = "update"
    /\ c.at = "roles" => c.op \in Reads
    /\ c.at = "check" => c.op = "profile"
    /\ c.op \in {"register", "startup"} => c.roles # {}
    /\ c.op = "startup" => c.roles = {"admin"}
    /\ c.allowed # {} => c.at = "done" /\ c.op = "profile"

(* Roles as ReadRoles reports them: an account without any counts as user. *)
Shown(c, r) == c.roles = IF r = {} THEN {"user"} ELSE r

(* What a call that nobody has overtaken relies on, of its account and the *)
(* account's roles.                                                        *)
Sees(c, user, r) ==
    /\ c.at \in Seeing => user # "none"
    /\ c.at = "write" => user = c.seen
    /\ c.at \in {"roles", "check"} => user = "active"
    /\ c.at = "check" => Shown(c, r)
    /\ c.at = "done" =>
          /\ c.op \in {"register", "startup"} => c.roles \subseteq r
          /\ c.op = "update" => user = c.active /\ (~c.keep => r = c.roles)
          /\ c.op \in Reads => user = "active" /\ Shown(c, r)
          /\ c.allowed # {} => c.allowed \cap c.roles # {}

Fits(c, us, rs, fr, lt) ==
    /\ c \in Call
    /\ Sits(c)
    /\ c.at \in Knowing => c.id \in Ids \ fr
    /\ c.at \in Adding /\ us[c.id] = "none" => c.id \in lt
    /\ ~c.touched => Sees(c, us[c.id], rs[c.id])

Tables ==
    /\ users \in [Ids -> {"none", "active", "inactive"}]
    /\ roles \in [Ids -> SUBSET Roles]
    /\ fresh \subseteq Ids /\ \A i \in fresh : users[i] = "none" /\ roles[i] = {}
    /\ \A i, j \in Accounts : i = j
    /\ broken \subseteq Ids /\ emptied \subseteq Ids /\ late \subseteq Ids

Tasked ==
    /\ task = [u \in Tasks |-> task[u]]
    /\ \A u \in Tasks : Fits(task[u], users, roles, fresh, late)

IInv == Tables /\ Tasked /\ RolelessIsUnfinished /\ OrphansComeLate

-----------------------------------------------------------------------------
(* Two kinds of step *)

Marked(c, i) == IF c.id = i THEN [c EXCEPT !.touched = TRUE] ELSE c

(* A call that is elsewhere stays true to what it relies on when account i *)
(* is written, because the write marks it as overtaken.                    *)
LEMMA Overtaken ==
    ASSUME NEW c, NEW us, NEW rs, NEW fr, NEW lt, NEW us2, NEW rs2, NEW lt2, NEW i,
           Fits(c, us, rs, fr, lt),
           \A j \in Ids \ {i} : us2[j] = us[j] /\ rs2[j] = rs[j],
           lt \subseteq lt2,
           c.at \in Adding /\ c.id = i /\ us2[i] = "none" /\ us[i] # "none" => i \in lt2
    PROVE  Fits(Marked(c, i), us2, rs2, fr, lt2)
<1>1. CASE c.id = i
    <2> DEFINE d == [c EXCEPT !.touched = TRUE]
    <2>1. /\ d \in Call /\ d.touched = TRUE
          /\ d.at = c.at /\ d.id = c.id /\ d.op = c.op /\ d.roles = c.roles /\ d.allowed = c.allowed
        BY DEF Fits, Call
    <2> HIDE DEF d
    <2>2. Fits(d, us2, rs2, fr, lt2)
        BY <1>1, <2>1 DEF Fits, Sits
    <2> QED BY <1>1, <2>2 DEF d, Marked
<1>2. CASE c.id # i
    <2>1. c.at \in Knowing => us2[c.id] = us[c.id] /\ rs2[c.id] = rs[c.id]
        BY <1>2 DEF Fits
    <2>2. c.at \in Adding \cup Seeing => c.at \in Knowing
        BY DEF Knowing, Seeing
    <2>3. c.at \notin Knowing => \A u, r : Sees(c, u, r)
        BY DEF Sees, Knowing, Seeing
    <2> QED BY <1>2, <2>1, <2>2, <2>3 DEF Fits, Marked
<1> QED BY <1>1, <1>2

(* A step that changes nothing but what its own call knows.                *)
LEMMA Moved ==
    ASSUME IInv, NEW t \in Tasks, NEW c,
           Fits(c, users, roles, fresh, late),
           task' = [task EXCEPT ![t] = c],
           At(t) \in Creating => \/ c.at \in Creating /\ c.id = Id(t)
                                 \/ users[Id(t)] = "none",
           UNCHANGED <<db, history>>
    PROVE  IInv'
<1>1. Tables'
    BY DEF IInv, Tables, Accounts, db, history
<1>2. Tasked'
    BY DEF IInv, Tasked, db, history
<1>3. RolelessIsUnfinished'
    <2> SUFFICES ASSUME NEW i \in Accounts, roles[i] = {}, i \notin broken \cup emptied
                 PROVE  \E u \in Tasks : (At(u) \in Creating /\ Id(u) = i)'
        BY DEF RolelessIsUnfinished, Accounts, db, history
    <2>1. PICK u \in Tasks : At(u) \in Creating /\ Id(u) = i
        BY DEF IInv, RolelessIsUnfinished
    <2>2. (At(u) \in Creating /\ Id(u) = i)'
        BY <2>1 DEF IInv, Tasked, Accounts, At, Id
    <2> QED BY <2>2
<1>4. OrphansComeLate'
    BY DEF IInv, OrphansComeLate, db, history
<1> QED BY <1>1, <1>2, <1>3, <1>4 DEF IInv

(* A call that has not found an account yet, or is at rest, relies on      *)
(* nothing.                                                                *)
LEMMA Fresh ==
    ASSUME NEW c, c \in Call, c.at \in {"idle", "find", "insert"}, c.allowed = {},
           c.at = "insert" => c.op \in {"register", "startup"},
           c.op \in {"register", "startup"} => c.roles # {},
           c.op = "startup" => c.roles = {"admin"}
    PROVE  Fits(c, users, roles, fresh, late)
BY DEF Fits, Sits, Sees, Knowing, Seeing, Adding, Creating

LEMMA RestingIsCall == Resting \in Call /\ Resting.at = "idle" /\ Resting.op = "none" /\ Resting.allowed = {}
BY DEF Resting, Call, Places, Adding, Creating, Roles

LEMMA RestingFits == Fits(Resting, users, roles, fresh, late)
BY RestingIsCall, Fresh

LEMMA InitIsFine == ASSUME Init PROVE IInv
<1>1. Tables
    BY DEF Init, Tables, Accounts
<1>2. Tasked
    BY RestingFits DEF Init, Tasked
<1> QED BY <1>1, <1>2 DEF Init, IInv, RolelessIsUnfinished, OrphansComeLate, Accounts

-----------------------------------------------------------------------------
(* The steps that leave the tables alone *)

LEMMA BeginWith ==
    ASSUME IInv, NEW t \in Tasks, NEW c, Begin(t, c), Fits(c, users, roles, fresh, late)
    PROVE  IInv'
<1>1. At(t) \notin Creating
    BY DEF Begin, Creating
<1> QED BY <1>1, Moved DEF Begin

LEMMA BeginKeeps ==
    ASSUME IInv, NEW t \in Tasks,
           Register(t) \/ Startup(t) \/ Update(t) \/ Login(t) \/ Renew(t) \/ Profile(t)
    PROVE  IInv'
<1>1. ASSUME NEW R \in SUBSET Roles, NEW S, S = IF R = {} THEN {"user"} ELSE R,
             Begin(t, [Resting EXCEPT !.op = "register", !.at = "find", !.roles = S])
      PROVE  IInv'
    <2> DEFINE c == [Resting EXCEPT !.op = "register", !.at = "find", !.roles = S]
    <2>1. c \in Call /\ c.allowed = {} /\ c.at = "find" /\ c.op = "register" /\ c.roles = S
        BY RestingIsCall, <1>1 DEF Call, Places, Roles
    <2> HIDE DEF c
    <2>2. Fits(c, users, roles, fresh, late)
        BY <1>1, <2>1, Fresh
    <2> QED BY BeginWith, <1>1, <2>2 DEF c
<1>2. CASE Startup(t)
    <2> DEFINE c == [Resting EXCEPT !.op = "startup", !.at = "find", !.roles = {"admin"}]
    <2>1. c \in Call /\ c.allowed = {} /\ c.at = "find" /\ c.op = "startup" /\ c.roles = {"admin"}
        BY RestingIsCall DEF Call, Places, Roles
    <2> HIDE DEF c
    <2>2. Fits(c, users, roles, fresh, late)
        BY <2>1, Fresh
    <2> QED BY BeginWith, <1>2, <2>2 DEF c, Startup
<1>3. ASSUME NEW i \in Ids \ fresh, NEW R \in SUBSET Roles, NEW a \in {"active", "inactive"},
             NEW keep \in BOOLEAN,
             Begin(t, [Resting EXCEPT !.op = "update", !.at = "get", !.id = i, !.roles = R,
                                      !.active = a, !.keep = keep])
      PROVE  IInv'
    <2> DEFINE c == [Resting EXCEPT !.op = "update", !.at = "get", !.id = i, !.roles = R,
                                    !.active = a, !.keep = keep]
    <2>1. c \in Call /\ c.allowed = {} /\ c.at = "get" /\ c.op = "update" /\ c.id = i
        BY RestingIsCall DEF Call, Places, Roles
    <2> HIDE DEF c
    <2>2. Fits(c, users, roles, fresh, late)
        BY <2>1 DEF Fits, Sits, Sees, Seeing, Knowing, Adding, Creating
    <2> QED BY BeginWith, <1>3, <2>2 DEF c
<1>4. CASE Login(t)
    <2> DEFINE c == [Resting EXCEPT !.op = "login", !.at = "find"]
    <2>1. c \in Call /\ c.allowed = {} /\ c.at = "find" /\ c.op = "login"
        BY RestingIsCall DEF Call, Places, Roles
    <2> HIDE DEF c
    <2>2. Fits(c, users, roles, fresh, late)
        BY <2>1, Fresh
    <2> QED BY BeginWith, <1>4, <2>2 DEF c, Login
<1>5. ASSUME NEW i \in Ids \ fresh, NEW op \in {"renew", "profile"},
             Begin(t, [Resting EXCEPT !.op = op, !.at = "find", !.id = i])
      PROVE  IInv'
    <2> DEFINE c == [Resting EXCEPT !.op = op, !.at = "find", !.id = i]
    <2>1. c \in Call /\ c.allowed = {} /\ c.at = "find" /\ c.op = op
        BY RestingIsCall DEF Call, Places, Roles
    <2> HIDE DEF c
    <2>2. Fits(c, users, roles, fresh, late)
        BY <2>1, Fresh
    <2> QED BY BeginWith, <1>5, <2>2 DEF c
<1>6. CASE Register(t)
    BY <1>1, <1>6 DEF Register
<1>7. CASE Update(t)
    BY <1>3, <1>7 DEF Update
<1>8. CASE Renew(t)
    BY <1>5, <1>8 DEF Renew
<1>9. CASE Profile(t)
    BY <1>5, <1>9 DEF Profile
<1> QED BY <1>2, <1>4, <1>6, <1>7, <1>8, <1>9

(* What is known of a call before its step.                                *)
LEMMA Known ==
    ASSUME IInv, NEW t \in Tasks
    PROVE  /\ Fits(task[t], users, roles, fresh, late) /\ task[t] \in Call
           /\ task = [u \in Tasks |-> task[u]]
BY DEF IInv, Tasked, Fits

(* A call ends: it fails before it has written, finds nothing, or answers. *)
LEMMA EndKeeps ==
    ASSUME IInv, NEW t \in Tasks, End(t), UNCHANGED <<db, history>>,
           At(t) \in Creating => users[Id(t)] = "none"
    PROVE  IInv'
BY RestingFits, Moved DEF End

(* A call goes on to another place, and what it relies on there holds.     *)
LEMMA GotoKeeps ==
    ASSUME IInv, NEW t \in Tasks, NEW place \in Places, Goto(t, place), UNCHANGED <<db, history>>,
           Fits([task[t] EXCEPT !.at = place], users, roles, fresh, late),
           At(t) \in Creating => place \in Creating
    PROVE  IInv'
<1> DEFINE c == [task[t] EXCEPT !.at = place]
<1>1. c.at = place /\ c.id = Id(t)
    BY Known DEF Id, Call
<1>2. task' = [task EXCEPT ![t] = c]
    BY Known DEF Goto
<1> HIDE DEF c
<1> QED BY <1>1, <1>2, Moved DEF c

LEMMA LookupsKeep ==
    ASSUME IInv, NEW t \in Tasks,
           FindForRegister(t) \/ FindForStartup(t) \/ ReadForStartup(t)
    PROVE  IInv'
<1> USE Known
<1>1. At(t) \notin Creating
    BY DEF FindForRegister, FindForStartup, ReadForStartup, Creating
<1>2. ASSUME At(t) = "find", Op(t) \in {"register", "startup"}, Goto(t, "insert"),
             UNCHANGED <<db, history>>
      PROVE  IInv'
    <2> DEFINE c == [task[t] EXCEPT !.at = "insert"]
    <2>1. c \in Call /\ c.at = "insert" /\ c.op = Op(t) /\ c.roles = task[t].roles /\ c.allowed = task[t].allowed
        BY DEF Call, Places, Op
    <2>2. Sits(task[t])
        BY DEF Fits
    <2> HIDE DEF c
    <2>3. Fits(c, users, roles, fresh, late)
        BY <1>2, <2>1, <2>2, Fresh DEF Sits, Op, At
    <2> QED BY <1>1, <1>2, <2>3, GotoKeeps DEF c, Places
<1>3. ASSUME NEW i \in Accounts, At(t) = "find", Op(t) = "startup",
             task' = [task EXCEPT ![t].at = "reading", ![t].id = i], UNCHANGED <<db, history>>
      PROVE  IInv'
    <2> DEFINE c == [task[t] EXCEPT !.at = "reading", !.id = i]
    <2>1. /\ c \in Call /\ c.at = "reading" /\ c.id = i
          /\ c.op = Op(t) /\ c.roles = task[t].roles /\ c.allowed = task[t].allowed
        BY DEF Call, Places, Adding, Op, Accounts
    <2>2. task' = [task EXCEPT ![t] = c]
        BY <1>3
    <2> HIDE DEF c
    <2>3. i \in Ids \ fresh /\ users[i] # "none"
        BY DEF IInv, Tables, Accounts
    <2>4. Sits(task[t])
        BY DEF Fits
    <2>5. Fits(c, users, roles, fresh, late)
        BY <1>3, <2>1, <2>3, <2>4 DEF Fits, Sits, Sees, Op, At
    <2> QED BY <1>1, <1>3, <2>2, <2>5, Moved
<1>4. CASE ReadForStartup(t)
    <2> DEFINE p == IF "admin" \in roles[Id(t)] THEN "done" ELSE "promote"
               c == [task[t] EXCEPT !.at = p]
    <2>1. p \in {"done", "promote"} /\ (p = "done" => "admin" \in roles[Id(t)])
        OBVIOUS
    <2>2. Goto(t, p)
        BY <1>4 DEF ReadForStartup
    <2> HIDE DEF p
    <2>3. /\ c \in Call /\ c.at = p /\ c.id = Id(t) /\ c.touched = task[t].touched
          /\ c.op = Op(t) /\ c.roles = task[t].roles /\ c.allowed = task[t].allowed
        BY <2>1 DEF Call, Places, Adding, Op, Id
    <2> HIDE DEF c
    <2>4. At(t) = "reading"
        BY <1>4 DEF ReadForStartup
    <2>5. c.op = "startup" /\ c.roles = {"admin"} /\ c.allowed = {}
        BY <2>3, <2>4 DEF Fits, Sits, At, Op
    <2>6. Sees(task[t], users[Id(t)], roles[Id(t)]) => Sees(c, users[Id(t)], roles[Id(t)])
        BY <2>1, <2>3, <2>4, <2>5 DEF Sees, Seeing, Knowing, Adding, Reads, At
    <2>7. Fits(c, users, roles, fresh, late)
        BY <2>1, <2>3, <2>4, <2>5, <2>6 DEF Fits, Sits, Knowing, Adding, Creating, Reads, At, Id
    <2>8. p \in Places
        BY <2>1 DEF Places, Adding
    <2> QED BY <1>1, <1>4, <2>2, <2>7, <2>8, GotoKeeps DEF c, ReadForStartup
<1>5. CASE FindForRegister(t)
    BY <1>1, <1>2, <1>5, EndKeeps DEF FindForRegister
<1>6. CASE FindForStartup(t)
    BY <1>1, <1>2, <1>3, <1>6 DEF FindForStartup
<1> QED BY <1>4, <1>5, <1>6

(* An active account is found.                                             *)
LEMMA SeenKeeps ==
    ASSUME IInv, NEW t \in Tasks, NEW i \in Accounts, users[i] = "active", Op(t) \in Reads,
           At(t) = "find", task' = [task EXCEPT ![t].at = "roles", ![t].id = i],
           UNCHANGED <<db, history>>
    PROVE  IInv'
<1> USE Known
<1> DEFINE c == [task[t] EXCEPT !.at = "roles", !.id = i]
<1>1. /\ c \in Call /\ c.at = "roles" /\ c.id = i
      /\ c.op = Op(t) /\ c.roles = task[t].roles /\ c.allowed = task[t].allowed
    BY DEF Call, Places, Op, Accounts
<1>2. task' = [task EXCEPT ![t] = c]
    OBVIOUS
<1> HIDE DEF c
<1>3. i \in Ids \ fresh
    BY DEF IInv, Tables, Accounts
<1>4. Fits(c, users, roles, fresh, late)
    BY <1>1, <1>3 DEF Fits, Sits, Sees, Seeing, Knowing, Adding, Creating, Op, At, Reads
<1> QED BY <1>2, <1>4, Moved DEF Creating

LEMMA FindsKeep ==
    ASSUME IInv, NEW t \in Tasks, FindByAddress(t) \/ FindById(t)
    PROVE  IInv'
<1>1. At(t) = "find" /\ Op(t) \in Reads /\ UNCHANGED <<db, history>>
    BY DEF FindByAddress, FindById, Reads
<1>2. PICK S \in SUBSET {i \in Accounts : users[i] = "active"} : Seen(t, S)
    BY DEF FindByAddress, FindById
<1> QED BY <1>1, <1>2, SeenKeeps, EndKeeps DEF Seen, Creating

LEMMA ReadRolesKeeps ==
    ASSUME IInv, NEW t \in Tasks, ReadRoles(t)
    PROVE  IInv'
<1> USE Known
<1> DEFINE p == IF Op(t) = "profile" THEN "check" ELSE "done"
           r == IF roles[Id(t)] = {} THEN {"user"} ELSE roles[Id(t)]
           c == [task[t] EXCEPT !.at = p, !.roles = r]
<1>1. At(t) = "roles" /\ UNCHANGED <<db, history>>
    BY DEF ReadRoles
<1>2. Id(t) \in Ids \ fresh /\ Op(t) \in Reads /\ task[t].allowed = {}
    BY <1>1 DEF Fits, Sits, Knowing, At, Id, Op
<1>3. r \in SUBSET Roles
    BY <1>2 DEF IInv, Tables, Roles
<1>4. p \in {"check", "done"} /\ (p = "check" => Op(t) = "profile")
    OBVIOUS
<1>5. task' = [task EXCEPT ![t] = c]
    BY DEF ReadRoles
<1>6. Shown(c, roles[Id(t)]) /\ c.roles = r
    BY DEF Shown, Call
<1> HIDE DEF p, r
<1>7. /\ c \in Call /\ c.at = p /\ c.id = Id(t) /\ c.op = Op(t)
      /\ c.allowed = task[t].allowed /\ c.touched = task[t].touched
    BY <1>3, <1>4 DEF Call, Places, Op, Id
<1> HIDE DEF c
<1>8. Sees(task[t], users[Id(t)], roles[Id(t)]) => Sees(c, users[Id(t)], roles[Id(t)])
    BY <1>1, <1>2, <1>4, <1>6, <1>7 DEF Sees, Seeing, Knowing, Reads, At
<1>9. Fits(c, users, roles, fresh, late)
    BY <1>1, <1>2, <1>4, <1>7, <1>8 DEF Fits, Sits, Knowing, Adding, Creating, Reads, At, Id
<1> QED BY <1>1, <1>5, <1>9, Moved DEF Creating

(* Whoever is admitted to an endpoint has one of the roles it demands.     *)
LEMMA AdmitsKeep ==
    ASSUME IInv, NEW t \in Tasks, AdmitActive(t) \/ CheckRoles(t)
    PROVE  IInv'
<1> USE Known
<1>1. At(t) = "check" /\ UNCHANGED <<db, history>>
    BY DEF AdmitActive, CheckRoles
<1>2. Id(t) \in Ids \ fresh /\ Op(t) = "profile" /\ task[t].allowed = {}
    BY <1>1 DEF Fits, Sits, Knowing, At, Id, Op
<1>3. ASSUME NEW R \in SUBSET Roles, R = {} \/ R \cap task[t].roles # {},
             task' = [task EXCEPT ![t] = [task[t] EXCEPT !.at = "done", !.allowed = R]]
      PROVE  IInv'
    <2> DEFINE c == [task[t] EXCEPT !.at = "done", !.allowed = R]
    <2>1. /\ c \in Call /\ c.at = "done" /\ c.id = Id(t) /\ c.op = Op(t)
          /\ c.allowed = R /\ c.roles = task[t].roles /\ c.touched = task[t].touched
        BY <1>3 DEF Call, Places, Op, Id
    <2> HIDE DEF c
    <2>2. Sees(task[t], users[Id(t)], roles[Id(t)]) => Sees(c, users[Id(t)], roles[Id(t)])
        BY <1>1, <1>2, <1>3, <2>1 DEF Sees, Seeing, Knowing, Reads, At, Shown
    <2>3. Fits(c, users, roles, fresh, late)
        BY <1>1, <1>2, <1>3, <2>1, <2>2 DEF Fits, Sits, Knowing, Adding, Creating, Reads, At, Id
    <2> QED BY <1>1, <1>3, <2>3, Moved DEF Creating, c
<1>4. CASE AdmitActive(t)
    <2>1. task' = [task EXCEPT ![t] = [task[t] EXCEPT !.at = "done", !.allowed = {}]]
        <3>1. [task[t] EXCEPT !.at = "done", !.allowed = {}] = [task[t] EXCEPT !.at = "done"]
            BY <1>2 DEF Call
        <3> QED BY <1>4, <3>1 DEF AdmitActive, Goto
    <2> QED BY <1>3, <2>1
<1>5. CASE CheckRoles(t)
    <2>1. PICK R \in {{"admin"}, {"user", "admin"}} :
                IF R \cap task[t].roles = {} THEN End(t)
                ELSE task' = [task EXCEPT ![t].at = "done", ![t].allowed = R]
        BY <1>5 DEF CheckRoles
    <2>2. R \in SUBSET Roles
        BY DEF Roles
    <2>3. CASE R \cap task[t].roles = {}
        BY <1>1, <2>1, <2>3, EndKeeps DEF Creating
    <2>4. CASE R \cap task[t].roles # {}
        BY <1>3, <2>1, <2>2, <2>4
    <2> QED BY <2>3, <2>4
<1> QED BY <1>4, <1>5

LEMMA RefreshKeeps ==
    ASSUME IInv, NEW t \in Tasks, Refresh(t)
    PROVE  IInv'
<1> USE Known
<1>1. At(t) = "refresh" /\ UNCHANGED <<db, history>>
    BY DEF Refresh
<1>2. CASE users[Id(t)] = "none"
    BY <1>1, <1>2, EndKeeps DEF Refresh
<1>3. CASE users[Id(t)] # "none"
    <2> DEFINE c == [task[t] EXCEPT !.at = "assign"]
    <2>1. /\ c \in Call /\ c.at = "assign" /\ c.id = Id(t) /\ c.op = Op(t)
          /\ c.allowed = task[t].allowed /\ c.roles = task[t].roles /\ c.touched = task[t].touched
        BY DEF Call, Places, Adding, Creating, Op, Id
    <2> HIDE DEF c
    <2>2. Fits(c, users, roles, fresh, late)
        BY <1>1, <1>3, <2>1 DEF Fits, Sits, Sees, Seeing, Knowing, Adding, Creating, At, Id, Op
    <2> QED BY <1>1, <1>3, <2>2, GotoKeeps DEF Refresh, Places, Adding, Creating, c
<1> QED BY <1>2, <1>3

LEMMA GetKeeps ==
    ASSUME IInv, NEW t \in Tasks, GetForUpdate(t)
    PROVE  IInv'
<1> USE Known
<1>1. At(t) = "get" /\ UNCHANGED <<db, history>> /\ At(t) \notin Creating
    BY DEF GetForUpdate, Creating
<1>2. CASE users[Id(t)] = "none"
    BY <1>1, <1>2, EndKeeps DEF GetForUpdate
<1>3. CASE users[Id(t)] # "none"
    <2> DEFINE c == [task[t] EXCEPT !.at = "write", !.seen = users[Id(t)]]
    <2>1. Id(t) \in Ids \ fresh
        BY <1>1 DEF Fits, Knowing, At, Id
    <2>2. users[Id(t)] \in {"active", "inactive"}
        BY <1>3, <2>1 DEF IInv, Tables
    <2>3. /\ c \in Call /\ c.at = "write" /\ c.id = Id(t) /\ c.op = Op(t) /\ c.seen = users[Id(t)]
          /\ c.allowed = task[t].allowed /\ c.roles = task[t].roles /\ c.touched = task[t].touched
        BY <2>2 DEF Call, Places, Op, Id
    <2>4. task' = [task EXCEPT ![t] = c]
        BY <1>3 DEF GetForUpdate
    <2> HIDE DEF c
    <2>5. Fits(c, users, roles, fresh, late)
        BY <1>1, <1>3, <2>1, <2>3 DEF Fits, Sits, Sees, Seeing, Knowing, Adding, Creating, At, Id, Op
    <2> QED BY <1>1, <2>4, <2>5, Moved
<1> QED BY <1>2, <1>3

LEMMA AnswerKeeps == ASSUME IInv, NEW t \in Tasks, Answer(t) PROVE IInv'
BY EndKeeps DEF Answer, Creating

LEMMA StopKeeps == ASSUME IInv, NEW t \in Tasks, Stop(t) PROVE IInv'
<1> USE Known
<1>1. task' = [task EXCEPT ![t] = Resting] /\ UNCHANGED <<users, roles, fresh, emptied, late>>
    BY DEF Stop, End, db
<1>2. broken' = IF At(t) \in Creating THEN broken \cup {Id(t)} ELSE broken
    BY DEF Stop
<1>3. At(t) \in Creating => Id(t) \in Ids
    BY DEF Fits, Knowing, Adding, At, Id
<1>4. Tables'
    BY <1>1, <1>2, <1>3 DEF IInv, Tables, Accounts
<1>5. Tasked'
    BY <1>1, RestingFits DEF IInv, Tasked
<1>6. RolelessIsUnfinished'
    <2> SUFFICES ASSUME NEW i \in Accounts, roles[i] = {}, i \notin broken' \cup emptied
                 PROVE  \E u \in Tasks : (At(u) \in Creating /\ Id(u) = i)'
        BY <1>1 DEF RolelessIsUnfinished, Accounts
    <2>1. PICK u \in Tasks : At(u) \in Creating /\ Id(u) = i
        BY <1>2 DEF IInv, RolelessIsUnfinished
    <2>2. u # t
        BY <1>2, <2>1
    <2> QED BY <1>1, <2>1, <2>2 DEF At, Id
<1>7. OrphansComeLate'
    BY <1>1 DEF IInv, OrphansComeLate
<1> QED BY <1>4, <1>5, <1>6, <1>7 DEF IInv

-----------------------------------------------------------------------------
(* The steps that write *)

(* The unique constraint: an account is inserted where there is none, so   *)
(* no call can know it yet.                                                *)
LEMMA InsertedKeeps ==
    ASSUME IInv, NEW t \in Tasks, NEW next \in Creating, At(t) = "insert",
           next = "refresh" => Op(t) = "register", Inserted(t, next)
    PROVE  IInv'
<1> USE Known
<1>1. CASE Accounts # {}
    BY <1>1, EndKeeps DEF Inserted, Creating, db
<1>2. ASSUME NEW i \in fresh, Accounts = {},
             users' = [users EXCEPT ![i] = "active"], fresh' = fresh \ {i},
             task' = [task EXCEPT ![t].id = i, ![t].at = next],
             UNCHANGED <<roles, history>>
      PROVE  IInv'
    <2> DEFINE c == [task[t] EXCEPT !.id = i, !.at = next]
    <2>1. /\ c \in Call /\ c.at = next /\ c.id = i /\ c.op = Op(t)
          /\ c.allowed = task[t].allowed /\ c.roles = task[t].roles
        BY <1>2 DEF IInv, Tables, Call, Places, Adding, Op
    <2>2. task' = [task EXCEPT ![t] = c]
        BY <1>2
    <2> HIDE DEF c
    <2>3. /\ i \in Ids /\ users'[i] = "active" /\ Accounts' = {i}
          /\ \A j \in Ids \ {i} : users'[j] = users[j]
        BY <1>2 DEF IInv, Tables, Accounts
    <2>4. Fits(c, users', roles', fresh', late')
        BY <1>2, <2>1, <2>3 DEF Fits, Sits, Sees, Seeing, Knowing, Adding, Creating, At, Op
    <2>5. ASSUME NEW u \in Tasks
          PROVE  Fits(task[u], users', roles', fresh', late')
        <3>1. Fits(task[u], users, roles, fresh, late)
            BY DEF IInv, Tasked
        <3>2. CASE task[u].at \in Knowing
            <4>1. task[u].id \in Ids \ fresh /\ task[u].id # i
                BY <1>2, <3>1, <3>2 DEF Fits
            <4> QED BY <1>2, <2>3, <3>1, <4>1 DEF Fits, history
        <3>3. CASE task[u].at \notin Knowing
            BY <1>2, <3>1, <3>3 DEF Fits, Sees, Knowing, Seeing, history
        <3> QED BY <3>2, <3>3
    <2>6. Tables'
        BY <1>2, <2>3 DEF IInv, Tables, history
    <2>7. Tasked'
        BY <2>2, <2>4, <2>5 DEF Tasked
    <2>8. RolelessIsUnfinished'
        <3>1. (At(t) \in Creating /\ Id(t) = i)'
            BY <2>1, <2>2 DEF At, Id
        <3> QED BY <2>3, <3>1 DEF RolelessIsUnfinished
    <2>9. OrphansComeLate'
        BY <1>2, <2>3 DEF IInv, OrphansComeLate, history
    <2> QED BY <2>6, <2>7, <2>8, <2>9 DEF IInv
<1> QED BY <1>1, <1>2 DEF Inserted

LEMMA InsertsKeep == ASSUME IInv, NEW t \in Tasks, Insert(t) \/ InsertAdmin(t) PROVE IInv'
BY InsertedKeeps DEF Insert, InsertAdmin, Creating

(* What a write to account i, marked in the other calls, does to them.     *)
LEMMA WrittenSpreads ==
    ASSUME IInv, NEW t \in Tasks, NEW i \in Ids, NEW place, Written(t, i, place),
           \A j \in Ids \ {i} : users'[j] = users[j] /\ roles'[j] = roles[j],
           fresh' = fresh, late \subseteq late',
           \A u \in Tasks : At(u) \in Adding /\ Id(u) = i /\ users'[i] = "none" /\ users[i] # "none"
                               => i \in late',
           Fits([task[t] EXCEPT !.at = place], users', roles', fresh, late')
    PROVE  Tasked' /\ \A u \in Tasks \ {t} : At(u)' = At(u) /\ Id(u)' = Id(u)
<1> DEFINE d(u) == IF u = t THEN [task[u] EXCEPT !.at = place]
                   ELSE Marked(task[u], i)
<1>1. task' = [u \in Tasks |-> d(u)]
    BY DEF Written, Id, Marked
<1>2. ASSUME NEW u \in Tasks
      PROVE  Fits(d(u), users', roles', fresh, late')
    <2>1. CASE u = t
        BY <2>1
    <2>2. CASE u # t
        <3>1. Fits(task[u], users, roles, fresh, late)
            BY DEF IInv, Tasked
        <3>2. task[u].at \in Adding /\ task[u].id = i /\ users'[i] = "none" /\ users[i] # "none" => i \in late'
            BY DEF At, Id
        <3>3. Fits(Marked(task[u], i), users', roles', fresh, late')
            BY <3>1, <3>2, Overtaken
        <3> QED BY <2>2, <3>3
    <2> QED BY <2>1, <2>2
<1>3. ASSUME NEW u \in Tasks \ {t}
      PROVE  At(u)' = At(u) /\ Id(u)' = Id(u)
    BY <1>1, Known DEF At, Id, Call, Marked
<1> HIDE DEF d
<1>4. \A u \in Tasks : task'[u] = d(u)
    BY <1>1
<1>5. task' = [u \in Tasks |-> task'[u]]
    BY <1>1
<1> QED BY <1>2, <1>3, <1>4, <1>5 DEF Tasked

(* Nothing asks whether the account is still there: if it is not, it was   *)
(* deleted late.                                                           *)
LEMMA AddRolesKeeps ==
    ASSUME IInv, NEW t \in Tasks, At(t) \in {"assign", "promote"}, AddRoles(t)
    PROVE  IInv'
<1> USE Known
<1> DEFINE i == task[t].id
           c == [task[t] EXCEPT !.at = "done"]
<1>1. /\ users' = users /\ fresh' = fresh /\ late' = late
      /\ roles' = [roles EXCEPT ![i] = @ \cup task[t].roles]
      /\ broken' = broken \ {i} /\ emptied' = emptied \ {i}
      /\ Written(t, i, "done")
    BY DEF AddRoles, Id
<1>2. /\ i \in Ids /\ i \notin fresh /\ task[t].roles \subseteq Roles /\ task[t].roles # {}
      /\ Op(t) \in {"register", "startup"} /\ task[t].allowed = {}
      /\ users[i] = "none" => i \in late
      /\ Op(t) = "startup" => task[t].roles = {"admin"}
    BY DEF Fits, Sits, Knowing, Adding, Creating, At, Op, Call
<1>3. /\ c \in Call /\ c.at = "done" /\ c.id = i /\ c.op = Op(t)
      /\ c.allowed = {} /\ c.roles = task[t].roles /\ c.touched = task[t].touched
    BY <1>2 DEF Call, Places, Op
<1>4. /\ roles'[i] = roles[i] \cup task[t].roles /\ roles'[i] \subseteq Roles
      /\ \A j \in Ids \ {i} : roles'[j] = roles[j]
      /\ roles' \in [Ids -> SUBSET Roles]
    BY <1>1, <1>2 DEF IInv, Tables
<1> HIDE DEF c
<1>5. ~task[t].touched => users[i] # "none"
    BY DEF Fits, Sees, Seeing, Knowing, Adding, Creating, At
<1>6. Fits(c, users', roles', fresh, late')
    <2>1. Sits(c)
        BY <1>2, <1>3 DEF Sits, Reads
    <2>2. ~c.touched => Sees(c, users'[c.id], roles'[c.id])
        BY <1>1, <1>2, <1>3, <1>4, <1>5 DEF Sees, Reads
    <2> QED BY <1>2, <1>3, <2>1, <2>2 DEF Fits, Adding, Creating
<1> HIDE DEF i
<1>7. Tasked' /\ \A u \in Tasks \ {t} : At(u)' = At(u) /\ Id(u)' = Id(u)
    BY <1>1, <1>2, <1>4, <1>6, WrittenSpreads DEF c
<1>8. Tables'
    BY <1>1, <1>2, <1>4 DEF IInv, Tables, Accounts
<1>9. RolelessIsUnfinished'
    <2> SUFFICES ASSUME NEW j \in Accounts, roles'[j] = {}, j \notin broken' \cup emptied'
                 PROVE  \E u \in Tasks : (At(u) \in Creating /\ Id(u) = j)'
        BY <1>1 DEF RolelessIsUnfinished, Accounts
    <2>1. j # i /\ roles[j] = {}
        BY <1>2, <1>4 DEF Accounts
    <2>2. PICK u \in Tasks : At(u) \in Creating /\ Id(u) = j
        BY <1>1, <2>1 DEF IInv, RolelessIsUnfinished
    <2>3. u # t
        BY <2>1, <2>2 DEF Id, i
    <2> QED BY <1>7, <2>2, <2>3
<1>10. OrphansComeLate'
    BY <1>1, <1>2, <1>4 DEF IInv, OrphansComeLate
<1> QED BY <1>7, <1>8, <1>9, <1>10 DEF IInv

(* An update writes the roles and the row together, or nothing.            *)
LEMMA WriteKeeps ==
    ASSUME IInv, NEW t \in Tasks, Write(t)
    PROVE  IInv'
<1> USE Known
<1>1. At(t) = "write" /\ At(t) \notin Creating
    BY DEF Write, Creating
<1>2. CASE users[Id(t)] = "none"
    BY <1>1, <1>2, EndKeeps DEF Write, db, history
<1>3. CASE users[Id(t)] # "none"
    <2> DEFINE i == task[t].id
               c == [task[t] EXCEPT !.at = "done"]
    <2>1. /\ users' = [users EXCEPT ![i] = IF task[t].seen = task[t].active THEN @ ELSE task[t].active]
          /\ task[t].keep => roles' = roles /\ broken' = broken /\ emptied' = emptied
          /\ ~task[t].keep => /\ roles' = [roles EXCEPT ![i] = task[t].roles]
                              /\ broken' = broken \ {i}
                              /\ emptied' = IF task[t].roles = {} THEN emptied \cup {i} ELSE emptied \ {i}
          /\ Written(t, i, "done") /\ fresh' = fresh /\ late' = late
        BY <1>3 DEF Write, Id
    <2>2. /\ i \in Ids /\ i \notin fresh /\ Op(t) = "update" /\ task[t].allowed = {}
          /\ task[t].roles \subseteq Roles /\ task[t].active \in {"active", "inactive"}
          /\ task[t].keep \in BOOLEAN
        BY <1>1 DEF Fits, Sits, Knowing, At, Op, Call
    <2>3. /\ c \in Call /\ c.at = "done" /\ c.id = i /\ c.op = Op(t) /\ c.allowed = {}
          /\ c.roles = task[t].roles /\ c.active = task[t].active /\ c.keep = task[t].keep
          /\ c.touched = task[t].touched
        BY <2>2 DEF Call, Places, Op
    <2>4. /\ users' \in [Ids -> {"none", "active", "inactive"}]
          /\ users'[i] = IF task[t].seen = task[t].active THEN users[i] ELSE task[t].active
          /\ users'[i] # "none"
          /\ \A j \in Ids \ {i} : users'[j] = users[j]
        BY <1>3, <2>1, <2>2 DEF IInv, Tables, Id
    <2>5. /\ roles' \in [Ids -> SUBSET Roles]
          /\ roles'[i] = IF task[t].keep THEN roles[i] ELSE task[t].roles
          /\ \A j \in Ids \ {i} : roles'[j] = roles[j]
        BY <2>1, <2>2 DEF IInv, Tables
    <2> HIDE DEF c
    <2>6. ~task[t].touched => users[i] = task[t].seen
        BY <1>1 DEF Fits, Sees, At
    <2>7. Fits(c, users', roles', fresh, late')
        BY <2>2, <2>3, <2>4, <2>5, <2>6 DEF Fits, Sits, Sees, Knowing, Adding, Creating, Reads
    <2> HIDE DEF i
    <2>8. Accounts' = Accounts
        BY <1>3, <2>2, <2>4 DEF Accounts, i, Id
    <2>9. Tasked' /\ \A u \in Tasks \ {t} : At(u)' = At(u) /\ Id(u)' = Id(u)
        BY <2>1, <2>2, <2>4, <2>5, <2>7, WrittenSpreads DEF c
    <2>10. Tables'
        <3>1. \A k \in fresh' : users'[k] = "none" /\ roles'[k] = {}
            BY <2>1, <2>2, <2>4, <2>5 DEF IInv, Tables
        <3>2. broken' \subseteq Ids /\ emptied' \subseteq Ids /\ late' \subseteq Ids
            BY <2>1, <2>2 DEF IInv, Tables
        <3> QED BY <2>1, <2>4, <2>5, <2>8, <3>1, <3>2 DEF IInv, Tables
    <2>11. RolelessIsUnfinished'
        <3> SUFFICES ASSUME NEW j \in Accounts, roles'[j] = {}, j \notin broken' \cup emptied'
                     PROVE  \E u \in Tasks : (At(u) \in Creating /\ Id(u) = j)'
            BY <2>8 DEF RolelessIsUnfinished
        <3>1. roles[j] = {} /\ j \notin broken \cup emptied
            BY <2>1, <2>2, <2>5 DEF Accounts
        <3>2. PICK u \in Tasks : At(u) \in Creating /\ Id(u) = j
            BY <3>1 DEF IInv, RolelessIsUnfinished
        <3>3. u # t
            BY <1>1, <3>2
        <3> QED BY <2>9, <3>2, <3>3
    <2>12. OrphansComeLate'
        BY <2>1, <2>4, <2>5 DEF IInv, OrphansComeLate
    <2> QED BY <2>9, <2>10, <2>11, <2>12 DEF IInv
<1> QED BY <1>2, <1>3

(* A deletion takes the roles along, and puts on record who comes late.    *)
LEMMA DeleteKeeps ==
    ASSUME IInv, NEW t \in Tasks, Delete(t)
    PROVE  IInv'
<1> USE Known
<1>1. PICK i \in Ids \ fresh :
        /\ At(t) = "idle"
        /\ users' = [users EXCEPT ![i] = "none"]
        /\ roles' = [roles EXCEPT ![i] = {}]
        /\ late' = IF \E u \in Tasks : At(u) \in Adding /\ Id(u) = i THEN late \cup {i} ELSE late
        /\ Written(t, i, "idle")
        /\ UNCHANGED <<fresh, broken, emptied>>
    BY DEF Delete
<1> DEFINE c == [task[t] EXCEPT !.at = "idle"]
<1>2. /\ c \in Call /\ c.at = "idle" /\ c.op = task[t].op
      /\ c.roles = task[t].roles /\ c.allowed = task[t].allowed
    BY DEF Call, Places
<1> HIDE DEF c
<1>3. Fits(c, users', roles', fresh, late')
    BY <1>1, <1>2 DEF Fits, Sits, Sees, Seeing, Knowing, Adding, Creating, At
<1>4. /\ users' \in [Ids -> {"none", "active", "inactive"}] /\ users'[i] = "none"
      /\ roles' \in [Ids -> SUBSET Roles] /\ roles'[i] = {}
      /\ \A j \in Ids \ {i} : users'[j] = users[j] /\ roles'[j] = roles[j]
    BY <1>1 DEF IInv, Tables
<1>5. late \subseteq late' /\ late' \subseteq late \cup {i}
    BY <1>1
<1>6. \A u \in Tasks : At(u) \in Adding /\ Id(u) = i => i \in late'
    BY <1>1
<1>7. Tasked' /\ \A u \in Tasks \ {t} : At(u)' = At(u) /\ Id(u)' = Id(u)
    BY <1>1, <1>3, <1>4, <1>5, <1>6, WrittenSpreads DEF c
<1>8. Tables'
    BY <1>1, <1>4, <1>5 DEF IInv, Tables, Accounts
<1>9. RolelessIsUnfinished'
    <2> SUFFICES ASSUME NEW j \in Ids, users'[j] # "none", roles'[j] = {}, j \notin broken \cup emptied
                 PROVE  \E u \in Tasks : (At(u) \in Creating /\ Id(u) = j)'
        BY <1>1 DEF RolelessIsUnfinished, Accounts
    <2>1. PICK u \in Tasks : At(u) \in Creating /\ Id(u) = j
        BY <1>4 DEF IInv, RolelessIsUnfinished, Accounts
    <2>2. u # t
        BY <1>1, <2>1 DEF Creating
    <2> QED BY <1>7, <2>1, <2>2
<1>10. OrphansComeLate'
    BY <1>4, <1>5 DEF IInv, OrphansComeLate
<1> QED BY <1>7, <1>8, <1>9, <1>10 DEF IInv

-----------------------------------------------------------------------------
(* The invariant and what follows from it *)

LEMMA NextKeeps == ASSUME IInv, [Next]_vars PROVE IInv'
<1>1. CASE UNCHANGED vars
    <2>1. UNCHANGED <<db, history, task>>
        BY <1>1 DEF vars
    <2> QED BY <2>1 DEF IInv, Tables, Tasked, RolelessIsUnfinished, OrphansComeLate, Accounts, At, Id, db, history
<1>2. ASSUME NEW t \in Tasks,
             \/ Register(t) \/ Startup(t) \/ Update(t) \/ Login(t) \/ Renew(t) \/ Profile(t)
             \/ FindForRegister(t) \/ FindForStartup(t) \/ ReadForStartup(t)
             \/ FindByAddress(t) \/ FindById(t) \/ ReadRoles(t) \/ AdmitActive(t) \/ CheckRoles(t)
             \/ Insert(t) \/ InsertAdmin(t) \/ Refresh(t) \/ Assign(t) \/ Promote(t)
             \/ GetForUpdate(t) \/ Write(t) \/ Delete(t)
             \/ Stop(t) \/ Answer(t)
      PROVE  IInv'
    <2>1. CASE Assign(t) \/ Promote(t)
        BY <2>1, AddRolesKeeps DEF Assign, Promote
    <2> QED BY <1>2, <2>1, BeginKeeps, LookupsKeep, FindsKeep, ReadRolesKeeps, AdmitsKeep, InsertsKeep,
               RefreshKeeps, GetKeeps, WriteKeeps, DeleteKeeps, StopKeeps, AnswerKeeps
<1> QED BY <1>1, <1>2 DEF Next

LEMMA IInvHolds == Spec => []IInv
BY InitIsFine, NextKeeps, PTL DEF Spec

LEMMA AtMostOne ==
    ASSUME NEW S, \A x, y \in S : x = y
    PROVE  Cardinality(S) <= 1
<1>1. CASE S = {}
    BY <1>1, FS_EmptySet
<1>2. CASE S # {}
    <2>1. PICK x \in S : TRUE
        BY <1>2
    <2>2. S = {x}
        BY <2>1
    <2> QED BY <2>2, FS_Singleton
<1> QED BY <1>1, <1>2

(* Type correctness: among other things there is at most one account of    *)
(* the address, however many registrations and start-ups race to create it *)
(* (sqlite_user_repository.py:83-101, init_admin.py:91-128).               *)
THEOREM AccountsTypeCorrect == Spec => []TypeOK
<1>1. ASSUME IInv PROVE TypeOK
    <2>1. Cardinality(Accounts) <= 1
        BY <1>1, AtMostOne DEF IInv, Tables
    <2>2. task \in [Tasks -> Call]
        BY <1>1 DEF IInv, Tasked, Fits
    <2> QED BY <1>1, <2>1, <2>2 DEF IInv, Tables, TypeOK, Accounts
<1> QED BY <1>1, IInvHolds, PTL

(* An account without roles is between its creator's two commits, was left *)
(* there by a failure, or was emptied by an update that asked for it: no   *)
(* interleaving shows an account in the middle of an update                *)
(* (sqlite_user_repository.py:214-246).                                    *)
THEOREM RolelessAccountsAreUnfinished == Spec => []RolelessIsUnfinished
BY IInvHolds, PTL DEF IInv

(* Roles without an account come only from a creator or a start-up that a  *)
(* deletion overtook (sqlite_user_repository.py:103-115, 261-295).         *)
THEOREM OrphanedRolesComeLate == Spec => []OrphansComeLate
BY IInvHolds, PTL DEF IInv

(* What a call answers holds when it answers, unless it was overtaken      *)
(* (auth_service_sqlite_async.py:60-290, dependencies.py:398-436).         *)
THEOREM UnovertakenAnswersHold == Spec => []AnswersHold
<1>1. ASSUME IInv, NEW t \in Tasks, At(t) = "done", ~task[t].touched
      PROVE  /\ users[Id(t)] # "none"
             /\ Op(t) \in {"register", "startup"} => task[t].roles \subseteq roles[Id(t)]
             /\ Op(t) = "update" => /\ users[Id(t)] = task[t].active
                                    /\ ~task[t].keep => roles[Id(t)] = task[t].roles
             /\ Op(t) \in Reads => users[Id(t)] = "active" /\ roles[Id(t)] \in {task[t].roles, {}}
             /\ task[t].allowed # {} =>
                   IF roles[Id(t)] = {} THEN "user" \in task[t].allowed
                   ELSE roles[Id(t)] \cap task[t].allowed # {}
    <2>1. Sees(task[t], users[Id(t)], roles[Id(t)])
        BY <1>1 DEF IInv, Tasked, Fits, Id
    <2>2. task[t].allowed # {} => Op(t) = "profile"
        BY <1>1 DEF IInv, Tasked, Fits, Sits, Op
    <2> QED BY <1>1, <2>1, <2>2 DEF Sees, Seeing, Knowing, Shown, Reads, At, Op
<1>2. IInv => AnswersHold
    BY <1>1 DEF AnswersHold, Reads
<1> QED BY <1>2, IInvHolds, PTL
===============================================================================
