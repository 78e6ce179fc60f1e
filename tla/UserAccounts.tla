----------------------------- MODULE UserAccounts -----------------------------
(***************************************************************************)
(* The accounts in SQLite: SQLiteUserRepository, the two SQLite services   *)
(* over it, the dependencies that admit a request to an endpoint, and the  *)
(* administrator that every process makes sure of when it starts           *)
(* (src/src/auth/repositories/sqlite_user_repository.py,                   *)
(* services/auth_service_sqlite.py, auth_service_sqlite_async.py,          *)
(* dependencies.py, init_admin.py, database.py).  A task is a request or a start-up, in any *)
(* of the processes that share the file.  A SELECT is a step of its own;   *)
(* the writes of a session up to its commit are one step, because SQLite   *)
(* lets one writer in at a time and readers see committed rows only.       *)
(* Foreign keys are declared but SQLite does not enforce them here.        *)
(*                                                                         *)
(* All accounts of a behaviour have one e-mail address, the one the        *)
(* administrator is configured with: accounts of other addresses share no  *)
(* row with these.                                                         *)
(***************************************************************************)
EXTENDS Naturals, FiniteSets

CONSTANTS Tasks,    \* requests and start-ups that overlap
          Ids,      \* the UUIDs accounts get
          NoId      \* no account yet

ASSUME AccountsAssumption == NoId \notin Ids

VARIABLES
    users,     \* the table users: "none", "active" or "inactive"
    roles,     \* the table user_roles
    fresh,     \* ids that no account has had
    task,      \* where each call is and what it knows
    broken,    \* accounts whose creator stopped between its two commits
    emptied,   \* accounts whose last roles were an empty list
    late       \* accounts deleted while somebody was about to add a role

history == <<broken, emptied, late>>
db == <<users, roles, fresh>>
vars == <<db, task, history>>

Roles == {"user", "admin"}

(* Whoever is at one of Adding will insert roles for the account it knows. *)
Creating == {"refresh", "assign"}
Adding == Creating \cup {"reading", "promote"}
Places == Adding \cup {"idle", "find", "insert", "get", "write", "roles", "check", "done"}

Call == [op : {"none", "register", "startup", "update", "login", "renew", "profile"}, at : Places,
         id : Ids \cup {NoId},
         roles : SUBSET Roles,               \* asked for, or read
         active : {"active", "inactive"},    \* asked for
         seen : {"active", "inactive"},      \* as the SELECT found it
         allowed : SUBSET Roles,             \* one of these was demanded; none: any role will do
         keep : BOOLEAN,                     \* an update that leaves the roles alone
         touched : BOOLEAN]                  \* somebody else has written the account since

TypeOK ==
    /\ users \in [Ids -> {"none", "active", "inactive"}]
    /\ roles \in [Ids -> SUBSET Roles]
    /\ fresh \subseteq Ids /\ \A i \in fresh : users[i] = "none" /\ roles[i] = {}
    /\ task \in [Tasks -> Call]
    /\ Cardinality({i \in Ids : users[i] # "none"}) <= 1
    /\ \A S \in {broken, emptied, late} : S \subseteq Ids

Resting == [op |-> "none", at |-> "idle", id |-> NoId, roles |-> {}, active |-> "active",
            seen |-> "active", allowed |-> {}, keep |-> FALSE, touched |-> FALSE]

Init ==
    /\ users = [i \in Ids |-> "none"] /\ roles = [i \in Ids |-> {}] /\ fresh = Ids
    /\ task = [t \in Tasks |-> Resting]
    /\ broken = {} /\ emptied = {} /\ late = {}

At(t) == task[t].at
Op(t) == task[t].op
Id(t) == task[t].id

Goto(t, place) == task' = [task EXCEPT ![t].at = place]
End(t) == task' = [task EXCEPT ![t] = Resting]

(* The accounts of the address: none or one, by its unique constraint.     *)
Accounts == {i \in Ids : users[i] # "none"}

(* t's step writes account i: the other calls that know i have been        *)
(* overtaken; t itself goes on at place, or ends.                          *)
Written(t, i, place) ==
    task' = [u \in Tasks |->
                IF u = t THEN [task[u] EXCEPT !.at = place]
                ELSE IF Id(u) = i THEN [task[u] EXCEPT !.touched = TRUE] ELSE task[u]]

-----------------------------------------------------------------------------
(* Calls begin *)

Begin(t, call) ==
    /\ At(t) = "idle"
    /\ task' = [task EXCEPT ![t] = call]
    /\ UNCHANGED <<db, history>>

(* register replaces an empty list by ["user"]. *)
Register(t) ==
    \E R \in SUBSET Roles :
        Begin(t, [Resting EXCEPT !.op = "register", !.at = "find", !.roles = IF R = {} THEN {"user"} ELSE R])

(* A start-up with AUTO_CREATE_ADMIN, the default. *)
Startup(t) == Begin(t, [Resting EXCEPT !.op = "startup", !.at = "find", !.roles = {"admin"}])

(* update changes fields that are given, and may be given any roles. *)
Update(t) ==
    \E i \in Ids \ fresh, R \in SUBSET Roles, a \in {"active", "inactive"}, keep \in BOOLEAN :
        /\ keep => R = {}
        /\ Begin(t, [Resting EXCEPT !.op = "update", !.at = "get", !.id = i, !.roles = R,
                                    !.active = a, !.keep = keep])

Login(t) == Begin(t, [Resting EXCEPT !.op = "login", !.at = "find"])

(* refresh_tokens looks up the id that the token names. *)
Renew(t) ==
    \E i \in Ids \ fresh : Begin(t, [Resting EXCEPT !.op = "renew", !.at = "find", !.id = i])

(* So does get_current_user, which every guarded endpoint depends on. *)
Profile(t) ==
    \E i \in Ids \ fresh : Begin(t, [Resting EXCEPT !.op = "profile", !.at = "find", !.id = i])

-----------------------------------------------------------------------------
(* Lookups *)

(* register: is there an account?  Its roles are read too, but not used; a *)
(* SELECT that fails is taken for a no.                                    *)
FindForRegister(t) ==
    /\ At(t) = "find" /\ Op(t) = "register"
    /\ \/ Accounts # {} /\ End(t)
       \/ Goto(t, "insert")
    /\ UNCHANGED <<db, history>>

FindForStartup(t) ==
    /\ At(t) = "find" /\ Op(t) = "startup"
    /\ \/ Accounts = {} /\ Goto(t, "insert")
       \/ \E i \in Accounts : task' = [task EXCEPT ![t].at = "reading", ![t].id = i]
    /\ UNCHANGED <<db, history>>

(* Mutant: any role will do. *)
ReadAnyRole(t) ==
    /\ At(t) = "reading"
    /\ Goto(t, IF roles[Id(t)] # {} THEN "done" ELSE "promote")
    /\ UNCHANGED <<db, history>>

(* Its roles are read: the account is an administrator, or will be. *)
ReadForStartup(t) ==
    /\ At(t) = "reading"
    /\ Goto(t, IF "admin" \in roles[Id(t)] THEN "done" ELSE "promote")
    /\ UNCHANGED <<db, history>>

(* The account first, its roles next.  An account that is not there, or    *)
(* not active, ends the call.                                              *)
Seen(t, found) ==
    \/ found = {} /\ End(t)
    \/ \E i \in found : task' = [task EXCEPT ![t].at = "roles", ![t].id = i]

FindByAddress(t) ==
    /\ At(t) = "find" /\ Op(t) = "login"
    /\ Seen(t, {i \in Accounts : users[i] = "active"})
    /\ UNCHANGED <<db, history>>

FindById(t) ==
    /\ At(t) = "find" /\ Op(t) \in {"renew", "profile"}
    /\ Seen(t, {i \in Accounts : users[i] = "active" /\ i = Id(t)})
    /\ UNCHANGED <<db, history>>

(* An account without roles counts as a user. *)
ReadRoles(t) ==
    /\ At(t) = "roles"
    /\ task' = [task EXCEPT ![t].at = IF Op(t) = "profile" THEN "check" ELSE "done",
                            ![t].roles = IF roles[Id(t)] = {} THEN {"user"} ELSE roles[Id(t)]]
    /\ UNCHANGED <<db, history>>

(* An endpoint for every active user: whoever got here was active when the *)
(* account was read.                                                       *)
AdmitActive(t) == At(t) = "check" /\ Goto(t, "done") /\ UNCHANGED <<db, history>>

(* An endpoint for administrators, or for users and administrators; who    *)
(* has none of the roles is answered 403.                                  *)
CheckRoles(t) ==
    /\ At(t) = "check"
    /\ \E R \in {{"admin"}, {"user", "admin"}} :
          IF R \cap task[t].roles = {} THEN End(t)
          ELSE task' = [task EXCEPT ![t].at = "done", ![t].allowed = R]
    /\ UNCHANGED <<db, history>>

-----------------------------------------------------------------------------
(* Creation: two commits *)

(* Mutant: the address is not unique. *)
InsertedAgain(t, next) ==
    /\ \E i \in fresh :
          /\ users' = [users EXCEPT ![i] = "active"]
          /\ fresh' = fresh \ {i}
          /\ task' = [task EXCEPT ![t].id = i, ![t].at = next]
    /\ UNCHANGED <<roles, history>>

(* The first commit; the unique constraint refuses a second account. *)
Inserted(t, next) ==
    /\ IF Accounts # {} THEN End(t) /\ UNCHANGED <<users, fresh>>
       ELSE \E i \in fresh :
              /\ users' = [users EXCEPT ![i] = "active"]
              /\ fresh' = fresh \ {i}
              /\ task' = [task EXCEPT ![t].id = i, ![t].at = next]
    /\ UNCHANGED <<roles, history>>

Insert(t) == At(t) = "insert" /\ Op(t) = "register" /\ Inserted(t, "refresh")

(* A start-up writes the same two commits without the repository, and does *)
(* not read the row again.                                                 *)
InsertAdmin(t) == At(t) = "insert" /\ Op(t) = "startup" /\ Inserted(t, "assign")

(* create reads the new row again: without it, it raises. *)
Refresh(t) ==
    /\ At(t) = "refresh"
    /\ IF users[Id(t)] = "none" THEN End(t) ELSE Goto(t, "assign")
    /\ UNCHANGED <<db, history>>

(* The second commit.  Nothing asks whether the account is still there. *)
AddRoles(t) ==
    /\ roles' = [roles EXCEPT ![Id(t)] = @ \cup task[t].roles]
    /\ broken' = broken \ {Id(t)} /\ emptied' = emptied \ {Id(t)}
    /\ Written(t, Id(t), "done")
    /\ UNCHANGED <<users, fresh, late>>

Assign(t) == At(t) = "assign" /\ AddRoles(t)

(* A start-up that has found the account without the admin role. *)
Promote(t) == At(t) = "promote" /\ AddRoles(t)

-----------------------------------------------------------------------------
(* Changes *)

GetForUpdate(t) ==
    /\ At(t) = "get"
    /\ IF users[Id(t)] = "none" THEN End(t)
       ELSE task' = [task EXCEPT ![t].at = "write", ![t].seen = users[Id(t)]]
    /\ UNCHANGED <<db, history>>

(* Mutant: the old roles are deleted by a commit of their own. *)
WriteDeletesFirst(t) ==
    /\ At(t) = "write" /\ ~task[t].keep /\ roles[Id(t)] # {}
    /\ roles' = [roles EXCEPT ![Id(t)] = {}]
    /\ Written(t, Id(t), "write")
    /\ UNCHANGED <<users, fresh, history>>

(* One commit: the roles deleted and inserted anew, the row updated in the *)
(* fields that differ from what was read.  If the row has gone, the ORM    *)
(* raises and everything is rolled back.                                   *)
Write(t) ==
    /\ At(t) = "write"
    /\ IF users[Id(t)] = "none" THEN End(t) /\ UNCHANGED <<users, roles, broken, emptied>>
       ELSE /\ users' = [users EXCEPT ![Id(t)] = IF task[t].seen = task[t].active THEN @
                                                 ELSE task[t].active]
            /\ IF task[t].keep THEN UNCHANGED <<roles, broken, emptied>>
               ELSE /\ roles' = [roles EXCEPT ![Id(t)] = task[t].roles]
                    /\ broken' = broken \ {Id(t)}
                    /\ emptied' = IF task[t].roles = {} THEN emptied \cup {Id(t)}
                                  ELSE emptied \ {Id(t)}
            /\ Written(t, Id(t), "done")
    /\ UNCHANGED <<fresh, late>>

(* Mutant: the roles are left to a foreign key that is not enforced. *)
DeleteUserOnly(t) ==
    \E i \in Ids \ fresh :
        /\ At(t) = "idle"
        /\ users' = [users EXCEPT ![i] = "none"]
        /\ late' = IF \E u \in Tasks : At(u) \in Adding /\ Id(u) = i THEN late \cup {i} ELSE late
        /\ Written(t, i, "idle")
        /\ UNCHANGED <<roles, fresh, broken, emptied>>

(* delete: roles, permissions and the row in one commit. *)
Delete(t) ==
    \E i \in Ids \ fresh :
        /\ At(t) = "idle"
        /\ users' = [users EXCEPT ![i] = "none"]
        /\ roles' = [roles EXCEPT ![i] = {}]
        /\ late' = IF \E u \in Tasks : At(u) \in Adding /\ Id(u) = i THEN late \cup {i} ELSE late
        /\ Written(t, i, "idle")
        /\ UNCHANGED <<fresh, broken, emptied>>

-----------------------------------------------------------------------------
(* Ends *)

(* A statement fails (the database is locked, the disk is full) or the     *)
(* process dies: the transaction is rolled back, and what has been         *)
(* committed stays.                                                        *)
Stop(t) ==
    /\ At(t) \notin {"idle", "done"}
    /\ broken' = IF At(t) \in Creating THEN broken \cup {Id(t)} ELSE broken
    /\ End(t)
    /\ UNCHANGED <<db, emptied, late>>

(* The answer: what was asked for and is stored. *)
Answer(t) == At(t) = "done" /\ End(t) /\ UNCHANGED <<db, history>>

Next ==
    \E t \in Tasks :
        \/ Register(t) \/ Startup(t) \/ Update(t) \/ Login(t) \/ Renew(t) \/ Profile(t)
        \/ FindForRegister(t) \/ FindForStartup(t) \/ ReadForStartup(t)
        \/ FindByAddress(t) \/ FindById(t) \/ ReadRoles(t) \/ AdmitActive(t) \/ CheckRoles(t)
        \/ Insert(t) \/ InsertAdmin(t) \/ Refresh(t) \/ Assign(t) \/ Promote(t)
        \/ GetForUpdate(t) \/ Write(t) \/ Delete(t)
        \/ Stop(t) \/ Answer(t)

Spec == Init /\ [][Next]_vars

-----------------------------------------------------------------------------
(* Properties *)

(* An account without roles is still between the two commits of its        *)
(* creator, was left there by an error or a crash, or had its roles taken  *)
(* by an update: no call ever works on an account in the middle of an      *)
(* update, which deletes the roles before it inserts them.                 *)
RolelessIsUnfinished ==
    \A i \in Accounts :
        roles[i] = {} => \/ i \in broken \cup emptied
                         \/ \E t \in Tasks : At(t) \in Creating /\ Id(t) = i

(* Roles of an account that does not exist were added by a creator or a    *)
(* start-up that the deletion overtook; neither update nor delete leaves   *)
(* any behind.                                                             *)
OrphansComeLate == \A i \in Ids : users[i] = "none" /\ roles[i] # {} => i \in late

(* What a call answers holds when it answers, unless another call has      *)
(* written the account since this one first saw it: a registered account   *)
(* has its roles, a start-up has an administrator, an update has been      *)
(* made, a token names the roles that are stored, and who was admitted to  *)
(* an endpoint has one of the roles it demands.                            *)
AnswersHold ==
    \A t \in Tasks :
        At(t) = "done" /\ ~task[t].touched =>
            /\ users[Id(t)] # "none"
            /\ Op(t) \in {"register", "startup"} => task[t].roles \subseteq roles[Id(t)]
            /\ Op(t) = "update" => /\ users[Id(t)] = task[t].active
                                   /\ ~task[t].keep => roles[Id(t)] = task[t].roles
            /\ Op(t) \in {"login", "renew", "profile"} =>
                  /\ users[Id(t)] = "active"
                  /\ roles[Id(t)] \in {task[t].roles, {}}
            /\ task[t].allowed # {} =>
                  IF roles[Id(t)] = {} THEN "user" \in task[t].allowed
                  ELSE roles[Id(t)] \cap task[t].allowed # {}
===============================================================================
