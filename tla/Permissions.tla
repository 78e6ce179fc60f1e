----------------------------- MODULE Permissions -----------------------------
(***************************************************************************)
(* What a caller may do: the role tables of RBACService                    *)
(* (src/src/auth/services/rbac_service.py) and the permissions to single   *)
(* resources of PermissionService (permission_service.py), which it reads  *)
(* from PostgreSQL over one connection and caches for each user.           *)
(*                                                                         *)
(* An asyncpg connection serves one query at a time and raises when it is  *)
(* asked for a second; a task whose reply has come runs before the next    *)
(* reply is read.  Without a connection every look-up gives Defaults, and  *)
(* grant_permission and revoke_permission raise.                           *)
(***************************************************************************)
EXTENDS Naturals, FiniteSets, TLC

CONSTANTS Tasks,      \* calls that overlap
          Users,      \* identifiers of users
          Nobody,     \* no user_id, no role_name
          RowRoles,   \* the roles that rows of the table name
          RoleSets,   \* the roles callers come with
          Keys,       \* <<resource_type, resource_name>> of the rows
          Grants,     \* the actions a grant may give
          Matches,    \* fnmatch: pairs of a pattern and a name it matches
          Changes,    \* <<role, permission>>: changes of the role table
          Inheritance,\* enable_permission_inheritance, False unless somebody sets it
          MaxCalls    \* bound on the calls begun

Types == {"web_search", "vector_db", "database"}
Actions == {"read", "write", "delete"}

ASSUME PermissionsAssumption ==
    /\ Nobody \notin Users \cup RowRoles \cup Tasks /\ MaxCalls \in Nat
    /\ Inheritance \in BOOLEAN
    /\ Keys \subseteq Types \X STRING /\ Grants \subseteq SUBSET Actions
    /\ \A change \in Changes : change[2] \in Types \X Actions

VARIABLES
    roleTable,   \* role_permissions
    rows,        \* the table resource_permissions
    cache,       \* _permission_cache
    wire,        \* the task whose query is on the connection, or Nobody
    job,         \* where each call of the service is
    calls,       \* how many calls have begun
    excused      \* history: users whose entry the code lets go stale

tables == <<roleTable, rows>>
permVars == <<roleTable, rows, cache, wire, job, calls, excused>>

Permission == Types \X Actions
Grant == [key : Keys, actions : SUBSET Actions]
Row == [user : Users \cup {Nobody}, role : RowRoles \cup {Nobody}, key : Keys,
        actions : SUBSET Actions, life : {"open", "ending", "ended"}]
Job == [op : {"none", "look", "grant", "revoke"},
        at : {"idle", "userFetch", "userFetched", "roleFetch", "roleFetched", "change", "changed"},
        user : Users \cup {Nobody}, role : RowRoles \cup {Nobody}, roles : RoleSets \cup {{}},
        key : Keys \cup {Nobody}, actions : SUBSET Actions,
        own : SUBSET Grant,   \* what _fetch_user_permissions has read
        got : SUBSET Grant]   \* and both queries together

NoEntry == [filled |-> FALSE, perms |-> {}, own |-> {}]
Entry == [filled : BOOLEAN, perms : SUBSET [key : Types \X STRING, actions : SUBSET Actions],
          own : SUBSET Grant]

-----------------------------------------------------------------------------
(* RBACService *)

(* _get_default_permissions *)
DefaultTable ==
    [admin |-> Types \X {"read", "write"},
     user |-> {<<"web_search", "read">>} \cup ({"vector_db", "database"} \X {"read", "write"}),
     guest |-> {<<"web_search", "read">>},
     viewer |-> {<<"web_search", "read">>},
     analyst |-> {<<"web_search", "read">>, <<"vector_db", "read">>, <<"vector_db", "write">>}]

(* _get_canonical_role *)
Canonical(role) ==
    CASE role = "viewer" -> "guest" [] role = "analyst" -> "user" [] OTHER -> role

Held(role) == IF role \in DOMAIN roleTable THEN roleTable[role] ELSE {}

(* A right to write is one to read where rights are inherited. *)
Suffices(held, type, action) ==
    \/ <<type, action>> \in held
    \/ Inheritance /\ action = "read" /\ <<type, "write">> \in held

(* Mutant: the alias is looked up as it is. *)
MayUseAsNamed(roles, type, action) ==
    \E r \in roles : Suffices(Held(r), type, action)

(* check_permission *)
MayUse(roles, type, action) ==
    \E r \in roles : Suffices(Held(Canonical(r)), type, action)

(* get_user_permissions *)
UserPermissions(roles) == UNION {Held(Canonical(r)) : r \in roles}

(* tool_permissions; search_all and health_check have an entry of None. *)
ToolNeeds ==
    [tool \in {"search_web"} |-> <<"web_search", "read">>] @@
    [tool \in {"search_vectors", "create_vector_collection", "create_vector_document",
               "update_vector_document", "delete_vector_document"} |-> <<"vector_db", "write">>] @@
    [tool \in {"search_database", "create_database_record", "update_database_record",
               "delete_database_record"} |-> <<"database", "write">>]

(* tool_minimum_roles *)
MinimumRoles(tool) ==
    IF tool \in {"search_all", "delete_vector_document", "delete_database_record"}
    THEN {"admin"} ELSE {"user", "admin"}

(* check_tool_permission *)
MayCall(roles, tool) ==
    \/ tool = "health_check"
    \/ /\ {Canonical(r) : r \in roles} \cap MinimumRoles(tool) # {}
       /\ \/ tool = "search_all" /\ \A type \in Types : MayUse(roles, type, "read")
          \/ tool \in DOMAIN ToolNeeds /\ MayUse(roles, ToolNeeds[tool][1], ToolNeeds[tool][2])

(* _match_resource_pattern *)
Fits(pattern, name) == pattern = "*" \/ <<pattern, name>> \in Matches

(* check_resource_permission *)
MayTouch(roles, type, name, action, perms) ==
    \/ MayUse(roles, type, action)
    \/ "admin" \in {Canonical(r) : r \in roles}
    \/ \E p \in perms : p.key[1] = type /\ Fits(p.key[2], name) /\ action \in p.actions

(* get_allowed_resources *)
Allowed(roles, type, action, perms) ==
    IF MayUse(roles, type, action) \/ "admin" \in {Canonical(r) : r \in roles} THEN {"*"}
    ELSE {p.key[2] : p \in {q \in perms : q.key[1] = type /\ action \in q.actions}}

(* add_role_permission and remove_role_permission: a change of a role that *)
(* is another's alias changes nothing any check reads.                     *)
ChangeRole ==
    \E change \in Changes :
        LET role == change[1]  p == change[2]
        IN  /\ calls < MaxCalls /\ calls' = calls + 1
            /\ \/ roleTable' = [r \in DOMAIN roleTable \cup {role} |->
                                 IF r = role THEN Held(r) \cup {p} ELSE Held(r)]
               \/ /\ role \in DOMAIN roleTable
                  /\ roleTable' = [roleTable EXCEPT ![role] = @ \ {p}]
            /\ UNCHANGED <<rows, cache, wire, job, excused>>

-----------------------------------------------------------------------------
(* PermissionService *)

(* _merge_permissions *)
Merge(perms) ==
    {[key |-> k, actions |-> UNION {p.actions : p \in {q \in perms : q.key = k}}] :
        k \in {p.key : p \in perms}}

(* _get_default_role_permissions *)
Defaults(roles) ==
    Merge({[key |-> g[2], actions |-> g[3]] : g \in {h \in {
        <<"user", <<"database", "public.*">>, {"read"}>>,
        <<"user", <<"vector_db", "users.*">>, {"read"}>>,
        <<"power_user", <<"vector_db", "*">>, {"read"}>>,
        <<"power_user", <<"database", "analytics.*">>, {"read", "write"}>>} : h[1] \in roles}})

Live(some) == {[key |-> r.key, actions |-> r.actions] : r \in {s \in some : s.life # "ended"}}

(* _fetch_user_permissions and _fetch_role_permissions *)
OwnRows(u) == Live({r \in rows : r.user = u})
RoleRows(roles) == Live({r \in rows : r.role \in roles})

Resting == [op |-> "none", at |-> "idle", user |-> Nobody, role |-> Nobody, roles |-> {},
            key |-> Nobody, actions |-> {}, own |-> {}, got |-> {}]

PermInit ==
    /\ roleTable = DefaultTable
    /\ rows \in {{}, {[user |-> u, role |-> Nobody, key |-> k, actions |-> {"read"}, life |-> "ending"] :
                         u \in Users, k \in Keys}}
    /\ cache = [u \in Users |-> NoEntry]
    /\ wire = Nobody /\ job = [t \in Tasks |-> Resting]
    /\ calls = 0 /\ excused = {}

Looking(u) == \E t \in Tasks : job[t].op = "look" /\ job[t].user = u

(* clear_cache *)
Clear(users) ==
    /\ cache' = [u \in Users |-> IF u \in users THEN NoEntry ELSE cache[u]]
    /\ excused' = {u \in excused : u \notin users \/ Looking(u)}

ClearCache ==
    \E users \in {{u} : u \in Users} \cup {Users} :
        /\ calls < MaxCalls /\ calls' = calls + 1
        /\ Clear(users)
        /\ UNCHANGED <<tables, wire, job>>

(* A query; InterfaceError when another is on the connection, which a      *)
(* look-up answers with Defaults and a change passes on.                   *)
Send(t, next) ==
    \/ wire = Nobody /\ wire' = t /\ job' = [job EXCEPT ![t] = next]
    \/ wire # Nobody /\ job' = [job EXCEPT ![t] = Resting] /\ UNCHANGED wire

(* get_user_resource_permissions *)
Look(t) ==
    \E u \in Users \cup {Nobody}, roles \in RoleSets :
        /\ job[t].op = "none" /\ calls < MaxCalls /\ calls' = calls + 1
        /\ LET start == [Resting EXCEPT !.op = "look", !.user = u, !.roles = roles]
           IN  CASE u # Nobody /\ cache[u].filled -> UNCHANGED <<wire, job>>
                 [] u # Nobody /\ ~cache[u].filled -> Send(t, [start EXCEPT !.at = "userFetch"])
                 [] u = Nobody /\ roles # {} -> Send(t, [start EXCEPT !.at = "roleFetch"])
                 [] OTHER -> UNCHANGED <<wire, job>>
        /\ UNCHANGED <<tables, cache, excused>>

(* grant_permission, for a user, a role or both; it knows no expires_at.   *)
Give(t) ==
    \E u \in Users \cup {Nobody}, r \in RowRoles \cup {Nobody}, k \in Keys, a \in Grants :
        /\ u # Nobody \/ r # Nobody
        /\ job[t].op = "none" /\ calls < MaxCalls /\ calls' = calls + 1
        /\ Send(t, [Resting EXCEPT !.op = "grant", !.at = "change", !.user = u, !.role = r,
                                   !.key = k, !.actions = a])
        /\ UNCHANGED <<tables, cache, excused>>

(* revoke_permission: by the user, or else by the role. *)
Take(t) ==
    \E u \in Users \cup {Nobody}, r \in RowRoles \cup {Nobody}, k \in Keys :
        /\ (u = Nobody) # (r = Nobody)
        /\ job[t].op = "none" /\ calls < MaxCalls /\ calls' = calls + 1
        /\ Send(t, [Resting EXCEPT !.op = "revoke", !.at = "change", !.user = u, !.role = r, !.key = k])
        /\ UNCHANGED <<tables, cache, excused>>

(* ON CONFLICT (user_id, ...) DO UPDATE keeps the old row's role and the   *)
(* end of its life, and no two rows without a user are in conflict.        *)
Granted(j) ==
    LET old == {r \in rows : j.user # Nobody /\ r.user = j.user /\ r.key = j.key}
    IN  IF old = {} THEN rows \cup {[user |-> j.user, role |-> j.role, key |-> j.key,
                                     actions |-> j.actions, life |-> "open"]}
        ELSE (rows \ old) \cup {[r EXCEPT !.actions = j.actions] : r \in old}

Doomed(j) == {r \in rows : r.key = j.key /\ IF j.user # Nobody THEN r.user = j.user ELSE r.role = j.role}

Changed(j) == IF j.op = "grant" THEN Granted(j) ELSE rows \ Doomed(j)

(* Users whose rows a change touches without clearing their entry. *)
Bystanders(j) == IF j.op = "revoke" /\ j.user = Nobody THEN {r.user : r \in Doomed(j)} \ {Nobody} ELSE {}

Ready(t) == job[t].at \in {"userFetched", "roleFetched", "changed"}

(* The reply of the database. *)
Serve(t) ==
    LET j == job[t]
    IN  /\ wire = t /\ ~ \E o \in Tasks : Ready(o)
        /\ wire' = Nobody
        /\ job' = [job EXCEPT ![t] =
                     CASE j.at = "userFetch" -> [j EXCEPT !.at = "userFetched", !.own = OwnRows(j.user),
                                                          !.got = OwnRows(j.user)]
                       [] j.at = "roleFetch" -> [j EXCEPT !.at = "roleFetched", !.got = @ \cup RoleRows(j.roles)]
                       [] OTHER -> [j EXCEPT !.at = "changed"]]
        /\ IF j.at = "change" THEN rows' = Changed(j) /\ excused' = excused \cup Bystanders(j)
                              ELSE UNCHANGED <<rows, excused>>
        /\ UNCHANGED <<roleTable, cache, calls>>

(* The query fails, or its reply is lost after it took effect: a look-up   *)
(* answers Defaults, grant_permission and revoke_permission raise.         *)
Break(t) ==
    LET j == job[t]
    IN  /\ wire = t /\ ~ \E o \in Tasks : Ready(o)
        /\ wire' = Nobody
        /\ job' = [job EXCEPT ![t] = Resting]
        /\ \/ UNCHANGED <<rows, excused>>
           \/ /\ j.at = "change"
              /\ rows' = Changed(j)
              /\ excused' = excused \cup Bystanders(j) \cup ({j.user} \ {Nobody})
        /\ UNCHANGED <<roleTable, cache, calls>>

(* The rest of get_user_resource_permissions. *)
Fill(t) ==
    LET j == job[t]
    IN  /\ job' = [job EXCEPT ![t] = Resting]
        /\ cache' = IF j.user = Nobody THEN cache
                    ELSE [cache EXCEPT ![j.user] = [filled |-> TRUE, perms |-> Merge(j.got), own |-> j.own]]
        /\ UNCHANGED <<tables, wire, calls, excused>>

FetchRoles(t) ==
    /\ job[t].at = "userFetched" /\ job[t].roles # {}
    /\ Send(t, [job[t] EXCEPT !.at = "roleFetch"])
    /\ UNCHANGED <<tables, cache, calls, excused>>

Looked(t) ==
    /\ job[t].at = "roleFetched" \/ (job[t].at = "userFetched" /\ job[t].roles = {})
    /\ Fill(t)

(* Mutant: no clear_cache. *)
ChangeEndsQuietly(t) ==
    /\ job[t].at = "changed"
    /\ job' = [job EXCEPT ![t] = Resting]
    /\ UNCHANGED <<tables, cache, wire, calls, excused>>

(* The rest of grant_permission and revoke_permission. *)
ChangeEnds(t) ==
    /\ job[t].at = "changed"
    /\ job' = [job EXCEPT ![t] = Resting]
    /\ Clear({job[t].user} \ {Nobody})
    /\ UNCHANGED <<tables, wire, calls>>

(* NOW() passes expires_at. *)
Lapse ==
    \E r \in rows :
        /\ r.life = "ending"
        /\ rows' = (rows \ {r}) \cup {[r EXCEPT !.life = "ended"]}
        /\ excused' = excused \cup ({r.user} \ {Nobody})
        /\ UNCHANGED <<roleTable, cache, wire, job, calls>>

PermNext ==
    \/ ChangeRole \/ ClearCache \/ Lapse
    \/ \E t \in Tasks : \/ Look(t) \/ Give(t) \/ Take(t) \/ Serve(t) \/ Break(t)
                        \/ FetchRoles(t) \/ Looked(t) \/ ChangeEnds(t)

-----------------------------------------------------------------------------
(* Properties *)

PermTypeOK ==
    /\ \A r \in DOMAIN roleTable : roleTable[r] \subseteq Permission
    /\ rows \subseteq Row
    /\ cache \in [Users -> Entry] /\ job \in [Tasks -> Job]
    /\ wire \in Tasks \cup {Nobody} /\ calls \in 0..MaxCalls /\ excused \subseteq Users
    /\ \A r, s \in rows : r.user = s.user /\ r.key = s.key /\ r.user # Nobody => r = s

(* An entry of the cache holds what its user's own rows say, once no       *)
(* change of that user's rows waits for its clear_cache: no look-up that   *)
(* began before a change puts the old rows back after it.  Excused are the *)
(* entries the code forgets: a row has lapsed, was revoked by its role, or *)
(* the reply to a change was lost.                                         *)
CacheIsCurrent ==
    \A u \in Users :
        cache[u].filled =>
            \/ cache[u].own = OwnRows(u) \/ u \in excused
            \/ \E t \in Tasks : job[t].at = "changed" /\ job[t].user = u

(* What get_user_permissions and get_allowed_resources show a caller is    *)
(* what check_permission and check_resource_permission let through,        *)
(* whatever list the service gave and however the role table has changed;  *)
(* but where rights are inherited check_permission also lets those read    *)
(* who are only shown that they may write.                                 *)
AllowedIsChecked ==
    \A roles \in RoleSets :
        /\ \A type \in Types, action \in Actions :
               MayUse(roles, type, action)
                   <=> \/ <<type, action>> \in UserPermissions(roles)
                       \/ Inheritance /\ action = "read" /\ <<type, "write">> \in UserPermissions(roles)
        /\ \A perms \in {cache[u].perms : u \in Users} \cup {Defaults(roles)}, m \in Matches,
              type \in Types, action \in Actions :
               MayTouch(roles, type, m[2], action, perms)
                   <=> \E p \in Allowed(roles, type, action, perms) : Fits(p, m[2])
=============================================================================
