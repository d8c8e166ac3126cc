-------------------------------- MODULE Roles --------------------------------
(***************************************************************************)
(* Who may do what.  A tenant has roles, a role has permissions, a user    *)
(* has the one role it was created with.  A request is checked against a   *)
(* principal, which is a copy of the permissions: in the access token,     *)
(* made when the user signed in, or in the cache of the middleware.  An ID *)
(* token is taken for a principal as well, one without any permission.     *)
(* The handlers that change the tables run several calls after the check.  *)
(*                                                                         *)
(* No route takes a permission from a role or a role from a user.  How     *)
(* sessions end is in Sessions, how users and tenants come about under     *)
(* overlapping transactions in Registration: here sessions stay and a      *)
(* transaction is one step.                                                *)
(***************************************************************************)
EXTENDS Naturals

CONSTANTS Tenant,
          RoleId,       \* further roles; their number bounds those created
          User,         \* users created later; their number bounds them
          Name,         \* names of roles
          Perm,         \* rows of permissions
          Slot,         \* their number bounds the tokens and cache entries
                        \* that live at the same time
          Request,      \* request slots; their number bounds concurrency
          None,
          TokenTTL,     \* accessTokenTTL, 15 minutes in the code
          CacheTTL,     \* defaultTTL of the cache, 5 minutes in the code
          Existing,     \* Existing[x]: the row of role x at the start, or NoRole
          Caller,       \* bound: users who make requests
          Offered,      \* bound: permissions that are assigned to roles
          Prefix,       \* permissions that a broken off read may have got
          Faults        \* TRUE: calls to Postgres and Redis may fail

\* The owner role and the first user of a tenant go by the tenant's id.
Role == RoleId \cup Tenant
Member == User \cup Tenant
Names == Name \cup {"tenant_owner"}
NoRole == [tenant |-> None, name |-> None]

ASSUME RolesAssumption ==
    /\ {"roles:create", "roles:read", "roles:update", "users:create", "users:read"}
         \subseteq Perm
    /\ Offered \subseteq Perm
    /\ Caller \subseteq Member
    /\ Existing \in [RoleId -> [tenant : Tenant, name : Name \ {"tenant_owner"}] \cup {NoRole}]
    /\ \A x, y \in RoleId : Existing[x] = Existing[y] => x = y \/ Existing[x] = NoRole
    /\ RoleId \cap Tenant = {} /\ User \cap Tenant = {}
    /\ None \notin Tenant \cup Role \cup Member \cup Names \cup Perm
    /\ TokenTTL \in Nat \ {0} /\ CacheTTL \in Nat \ {0}
    /\ Prefix \subseteq SUBSET Perm
    /\ Faults \in BOOLEAN

VARIABLES
    role,       \* role[x] of roles
    grant,      \* grant[x]: the rows of role_permissions of role x
    member,     \* member[u]: a user, and its row of user_roles
    copy,       \* copy[k]: an access token, an ID token or a cached principal
    req         \* req[r]: a request in flight

vars == <<role, grant, member, copy, req>>
tables == <<role, grant, member>>

NoMember == [tenant |-> None, role |-> None]
NoCopy == [kind |-> "none", who |-> None, perms |-> {}, left |-> 0]
Idle == [pc |-> "idle", who |-> None, perms |-> {}, role |-> None, name |-> None,
         perm |-> None, rows |-> {}, cut |-> FALSE]

Reply(r) == req' = [req EXCEPT ![r] = Idle]
Dec(c) == IF c.left > 1 THEN [c EXCEPT !.left = c.left - 1] ELSE NoCopy

\* Faulty variant: the query has no WHERE clause.
GetPermissionsForUserAll(u) == {[rows |-> UNION {grant[x] : x \in Role}, cut |-> FALSE]}

\* The possible answers.  When the connection is lost while the rows are read,
\* rows.Next returns false and nobody asks rows.Err: the rows read so far are
\* the answer, which is cut off.
GetPermissionsForUser(u) ==
    LET all == grant[member[u].role]
    IN  {[rows |-> all, cut |-> FALSE]} \cup
        IF Faults THEN {[rows |-> all \cap got, cut |-> TRUE] : got \in Prefix} ELSE {}

GetPermissionsForRole(x) ==
    {grant[x]} \cup IF Faults THEN {grant[x] \cap rows : rows \in Prefix} ELSE {}

\* The user with this id, if it is of tenant t.
GetByTenantAndID(t, v) == {u \in {v} : member[u].tenant = t}

\* The possible answers: every user of the tenant, or some when the read
\* breaks off.
ListUsersByTenant(t) ==
    LET all == {u \in Member : member[u].tenant = t}
    IN  {all} \cup IF Faults THEN SUBSET all ELSE {}

ListRolesByTenant(t) ==
    LET all == {x \in Role : role[x].tenant = t}
    IN  {all} \cup IF Faults THEN SUBSET all ELSE {}

\* Faulty variant: the tenant is not part of the query.
GetByName(t, n) == {x \in Role : role[x].name = n}

GetByTenantAndName(t, n) == {x \in Role : role[x] = [tenant |-> t, name |-> n]}

\* The row with this id, if there is one.
GetByID(x) == {role[x]} \ {NoRole}

HasPermission(principal, p) == p \in principal.perms

\* The rows of users and user_roles for the new user v of tenant t.
AssignRole(v, t, x) == member' = [member EXCEPT ![v] = [tenant |-> t, role |-> x]]

-----------------------------------------------------------------------------
\* Every tenant is registered: it has an owner, whose role has every permission.
\* Roles that exist besides have none yet.
Init ==
    /\ role = [x \in Role |-> IF x \in Tenant THEN [tenant |-> x, name |-> "tenant_owner"]
                                              ELSE Existing[x]]
    /\ grant = [x \in Role |-> IF x \in Tenant THEN Perm ELSE {}]
    /\ member = [u \in Member |-> IF u \in Tenant THEN [tenant |-> u, role |-> u] ELSE NoMember]
    /\ copy = [k \in Slot |-> NoCopy]
    /\ req = [r \in Request |-> Idle]

-----------------------------------------------------------------------------
(* Principals *)

\* The permissions of u are read for request r.
Load(r, u, pc) ==
    \E got \in GetPermissionsForUser(u) :
        req' = [req EXCEPT ![r].pc = pc, ![r].who = u, ![r].perms = got.rows,
                           ![r].cut = got.cut]

\* Faulty variant: a refresh takes the permissions over from the old token.
SignInCarriesOver(r, u) ==
    /\ req[r].pc = "idle"
    /\ member[u] # NoMember
    /\ \/ Load(r, u, "issue")
       \/ \E k \in Slot :
            /\ copy[k].kind = "token" /\ copy[k].who = u
            /\ req' = [req EXCEPT ![r].pc = "issue", ![r].who = u,
                                  ![r].perms = copy[k].perms, ![r].cut = FALSE]
    /\ UNCHANGED <<tables, copy>>

\* A user signs in, refreshes or exchanges a code: its permissions are read.
SignIn(r, u) ==
    /\ req[r].pc = "idle"
    /\ member[u] # NoMember
    /\ Load(r, u, "issue")
    /\ UNCHANGED <<tables, copy>>

\* The access token of the new session carries the permissions.  An exchange of
\* a code with the scope openid goes on to an ID token.
Issue(r, k) ==
    /\ req[r].pc = "issue"
    /\ copy[k] = NoCopy
    /\ copy' = [copy EXCEPT ![k] = [kind |-> "token", who |-> req[r].who,
                                    perms |-> req[r].perms, left |-> TokenTTL]]
    /\ Reply(r) \/ req' = [req EXCEPT ![r].pc = "idtoken"]
    /\ UNCHANGED tables

\* The ID token names the user and carries no permissions.
IssueIDToken(r, k) ==
    /\ req[r].pc = "idtoken"
    /\ copy[k] = NoCopy
    /\ copy' = [copy EXCEPT ![k] = [kind |-> "id", who |-> req[r].who, perms |-> {},
                                    left |-> TokenTTL]]
    /\ Reply(r)
    /\ UNCHANGED tables

\* A request with a session id that the cache has no entry for, or that the
\* cache fails to answer: the principal is read.
HeaderLoad(r, u) ==
    /\ req[r].pc = "idle"
    /\ member[u] # NoMember
    /\ Load(r, u, "put")
    /\ UNCHANGED <<tables, copy>>

\* Slot k is free, or holds the entry of a session of r's user.
Writable(r, k) == copy[k] = NoCopy \/ (copy[k].kind = "cache" /\ copy[k].who = req[r].who)

\* cache.Put, whose error is ignored.
HeaderPut(r, k) ==
    /\ req[r].pc = "put"
    /\ Writable(r, k)
    /\ \/ copy' = [copy EXCEPT ![k] = [kind |-> "cache", who |-> req[r].who,
                                       perms |-> req[r].perms, left |-> CacheTTL]]
       \/ Faults /\ UNCHANGED copy
    /\ req' = [req EXCEPT ![r].pc = "authed"]
    /\ UNCHANGED tables

\* The principals that a request of u gets without a read: those of its tokens,
\* access or ID, for the audience of a token is not looked at, and of its entries
\* in the cache.
Principals(u) == {copy[k] : k \in {j \in Slot : copy[j].who = u}}

-----------------------------------------------------------------------------
(* Handlers *)

\* Request r is one of user u, and its principal has permission p.
RequirePermission(r, u, p) ==
    \/ req[r].pc = "authed" /\ req[r].who = u /\ HasPermission(req[r], p)
    \/ req[r].pc = "idle" /\ \E c \in Principals(u) : HasPermission(c, p)

\* The handler of u goes on with role x, name n or permission p.
Goto(r, u, pc, x, n, p) ==
    req' = [req EXCEPT ![r] = [pc |-> pc, who |-> u, perms |-> {}, role |-> x, name |-> n,
                               perm |-> p, rows |-> {}, cut |-> FALSE]]

\* The handler of u is about to answer with these rows, or with the
\* permissions ps of role x.
Answer(r, u, pc, x, ps, rows) ==
    req' = [req EXCEPT ![r] = [pc |-> pc, who |-> u, perms |-> ps, role |-> x, name |-> None,
                               perm |-> None, rows |-> rows, cut |-> FALSE]]

\* GET /users/{userID}.
GetUser(r, u, v) ==
    /\ RequirePermission(r, u, "users:read")
    /\ GetByTenantAndID(member[u].tenant, v) # {}
    /\ Answer(r, u, "users", None, {}, GetByTenantAndID(member[u].tenant, v))
    /\ UNCHANGED <<tables, copy>>

\* GET /users.
ListUsers(r, u) ==
    /\ RequirePermission(r, u, "users:read")
    /\ \E rows \in ListUsersByTenant(member[u].tenant) : Answer(r, u, "users", None, {}, rows)
    /\ UNCHANGED <<tables, copy>>

\* GET /roles.
ListRoles(r, u) ==
    /\ RequirePermission(r, u, "roles:read")
    /\ \E rows \in ListRolesByTenant(member[u].tenant) : Answer(r, u, "roles", None, {}, rows)
    /\ UNCHANGED <<tables, copy>>

\* Faulty variant: the tenant of the role is not compared.
ListRolePermissionsAnyTenant(r, u, x) ==
    /\ RequirePermission(r, u, "roles:read")
    /\ GetByID(x) # {}
    /\ Goto(r, u, "list", x, None, None)
    /\ UNCHANGED <<tables, copy>>

\* GET /roles/{roleID}/permissions: the role is of the principal's tenant.
ListRolePermissions(r, u, x) ==
    /\ RequirePermission(r, u, "roles:read")
    /\ \E found \in GetByID(x) : found.tenant = member[u].tenant
    /\ Goto(r, u, "list", x, None, None)
    /\ UNCHANGED <<tables, copy>>

\* Its second call reads the permissions.
ReadPermissions(r) ==
    /\ req[r].pc = "list"
    /\ \E ps \in GetPermissionsForRole(req[r].role) :
         Answer(r, req[r].who, "permissions", req[r].role, ps, {})
    /\ UNCHANGED <<tables, copy>>

\* The answer is sent; or a request with a loaded principal ends on a route
\* that asks for no permission, or for one it has not.
Handle(r) ==
    /\ req[r].pc \in {"authed", "users", "roles", "permissions"}
    /\ Reply(r)
    /\ UNCHANGED <<tables, copy>>

\* POST /roles.  Only a role that is found is a conflict: when the lookup fails
\* the role is inserted all the same.
CreateRole(r, u, n) ==
    /\ RequirePermission(r, u, "roles:create")
    /\ GetByTenantAndName(member[u].tenant, n) = {} \/ Faults
    /\ Goto(r, u, "insert", None, n, None)
    /\ UNCHANGED <<tables, copy>>

\* roleRepo.Create; (tenant_id, name) is unique.
InsertRole(r, x) ==
    LET row == [tenant |-> member[req[r].who].tenant, name |-> req[r].name]
    IN  /\ req[r].pc = "insert"
        /\ role[x] = NoRole
        /\ IF \E y \in Role : role[y] = row
           THEN UNCHANGED role
           ELSE role' = [role EXCEPT ![x] = row]
        /\ Reply(r)
        /\ UNCHANGED <<grant, member, copy>>

\* Faulty variant: the tenant of the role is not compared.
AssignPermissionAnyTenant(r, u, x, p) ==
    /\ RequirePermission(r, u, "roles:update")
    /\ GetByID(x) # {}
    /\ Goto(r, u, "assign", x, None, p)
    /\ UNCHANGED <<tables, copy>>

\* POST /roles/{roleID}/permissions: the role is of the principal's tenant.
AssignPermission(r, u, x, p) ==
    /\ RequirePermission(r, u, "roles:update")
    /\ \E found \in GetByID(x) : found.tenant = member[u].tenant
    /\ Goto(r, u, "assign", x, None, p)
    /\ UNCHANGED <<tables, copy>>

\* rolePermissionRepo.AssignPermission; a row that exists is an error.
InsertGrant(r) ==
    /\ req[r].pc = "assign"
    /\ grant' = [grant EXCEPT ![req[r].role] = grant[req[r].role] \cup {req[r].perm}]
    /\ Reply(r)
    /\ UNCHANGED <<role, member, copy>>

\* POST /users: the role is found by its name.
CreateUser(r, u, n) ==
    /\ RequirePermission(r, u, "users:create")
    /\ \E x \in GetByTenantAndName(member[u].tenant, n) :
         Goto(r, u, "user", x, None, None)
    /\ UNCHANGED <<tables, copy>>

\* The transaction with the new user and its role commits.
CommitUser(r, v) ==
    /\ req[r].pc = "user"
    /\ member[v] = NoMember
    /\ AssignRole(v, member[req[r].who].tenant, req[r].role)
    /\ Reply(r)
    /\ UNCHANGED <<role, grant, copy>>

-----------------------------------------------------------------------------
(* Environment *)

\* The next call of r fails.
Abort(r) ==
    /\ Faults
    /\ req[r].pc # "idle"
    /\ Reply(r)
    /\ UNCHANGED <<tables, copy>>

Tick ==
    /\ copy' = [k \in Slot |-> Dec(copy[k])]
    /\ UNCHANGED <<tables, req>>

\* What the server does for a request it has accepted.
ServerStep(r) ==
    \/ Handle(r) \/ InsertGrant(r) \/ ReadPermissions(r)
    \/ \E k \in Slot : Issue(r, k) \/ IssueIDToken(r, k) \/ HeaderPut(r, k)
    \/ \E x \in RoleId : InsertRole(r, x)
    \/ \E v \in User : CommitUser(r, v)

\* What clients ask for.
ClientStep(r) ==
    \/ \E u \in Caller :
         \/ SignIn(r, u) \/ HeaderLoad(r, u)
         \/ \E n \in Names : CreateRole(r, u, n) \/ CreateUser(r, u, n)
         \/ \E x \in Role : \/ ListRolePermissions(r, u, x)
                             \/ \E p \in Offered : AssignPermission(r, u, x, p)
         \/ \E v \in Member : GetUser(r, u, v)
         \/ ListUsers(r, u) \/ ListRoles(r, u)

Next ==
    \/ \E r \in Request : ServerStep(r) \/ ClientStep(r) \/ Abort(r)
    \/ Tick

Spec == Init /\ [][Next]_vars

-----------------------------------------------------------------------------
(* Properties *)

CopyType == [kind : {"none", "token", "id", "cache"}, who : Member \cup {None},
             perms : SUBSET Perm, left : Nat]
ReqType == [pc : {"idle", "issue", "idtoken", "put", "authed", "insert", "assign", "user", "list",
                  "users", "roles", "permissions"},
            who : Member \cup {None}, perms : SUBSET Perm, role : Role \cup {None},
            name : Names \cup {None}, perm : Perm \cup {None}, rows : SUBSET (Role \cup Member),
            cut : BOOLEAN]

TypeOK ==
    /\ role \in [Role -> [tenant : Tenant \cup {None}, name : Names \cup {None}]]
    /\ grant \in [Role -> SUBSET Perm]
    /\ member \in [Member -> [tenant : Tenant \cup {None}, role : Role \cup {None}]]
    /\ copy \in [Slot -> CopyType]
    /\ \A k \in Slot : copy[k].left <= IF copy[k].kind = "cache" THEN CacheTTL ELSE TokenTTL
    /\ req \in [Request -> ReqType]

\* No copy of a user's permissions, in a token, in the cache or in a request
\* under way, ever goes beyond what the tables give the user now, also when it
\* was read in part or put into the cache late (authentication.go:121-142,
\* role_permission_repository.go:80-122).
PrincipalsWithinRoles ==
    /\ \A k \in Slot : copy[k] # NoCopy =>
         copy[k].perms \subseteq grant[member[copy[k].who].role]
    /\ \A r \in Request : req[r].pc \in {"issue", "put", "authed"} =>
         req[r].perms \subseteq grant[member[req[r].who].role]

\* An answer shows nothing but users, roles and permissions of the caller's own
\* tenant, to a caller whom the tables and not just a copy allow to read them,
\* also when the check, the lookup of the role and the read are calls with
\* other requests in between (list_role_permissions.go:26-49, get_user.go:27-37,
\* postgresuser/repository.go:180-276, role_repository.go:119-166).
ReadsStayInTenant ==
    \A r \in Request :
        LET who == req[r].who
        IN  /\ req[r].pc = "users" =>
                 /\ "users:read" \in grant[member[who].role]
                 /\ \A v \in req[r].rows : v \in Member /\ member[v].tenant = member[who].tenant
            /\ req[r].pc = "roles" =>
                 /\ "roles:read" \in grant[member[who].role]
                 /\ \A x \in req[r].rows : x \in Role /\ role[x].tenant = member[who].tenant
            /\ req[r].pc = "permissions" =>
                 /\ "roles:read" \in grant[member[who].role]
                 /\ req[r].role \in Role /\ role[req[r].role].tenant = member[who].tenant
                 /\ req[r].perms \subseteq grant[req[r].role]

\* Request r ends with this step, and the tables allow its user to do p in t.
EndsAllowed(r, p, t) ==
    /\ req[r] # Idle /\ req'[r] = Idle
    /\ member[req[r].who].tenant = t
    /\ p \in grant[member[req[r].who].role]

\* Roles, permissions of roles and users appear in a tenant only by a
\* request of one of its users whom the tables, and not just a copy, allow it
\* at the time of the write (authorization.go:9-31,
\* assign_permission_to_role.go:35-69, create_user.go:101-132).
ActsAreAllowed ==
    [][/\ \A x \in Role : role'[x] # role[x] =>
            \E r \in Request : EndsAllowed(r, "roles:create", role'[x].tenant)
       /\ \A x \in Role : grant'[x] # grant[x] =>
            \E r \in Request : EndsAllowed(r, "roles:update", role[x].tenant)
       /\ \A u \in Member : member'[u] # member[u] =>
            /\ role[member'[u].role].tenant = member'[u].tenant
            /\ \E r \in Request : EndsAllowed(r, "users:create", member'[u].tenant)]_vars

\* The role of u has permission p.
Granted(u, p) == member[u] # NoMember /\ p \in grant[member[u].role]

\* c says what u may do, and lacks p.  An ID token does not say what u may do.
Lacks(c, u, p) == c.kind \in {"token", "cache"} /\ c.who = u /\ ~HasPermission(c, p)

\* Request r is about to copy permissions of u that it has read without p.
Stale(r, u, p) ==
    req[r].pc \in {"issue", "put"} /\ req[r].who = u /\ ~HasPermission(req[r], p)

\* This step uses up a stale read, for slot k alone.
UsesUp(k, u, p) ==
    /\ \E r \in Request : Stale(r, u, p) /\ ~Stale(r, u, p)'
    /\ \A j \in Slot \ {k} : copy'[j] = copy[j]

\* A permission that has been given to a role reaches the users of the role as
\* the copies without it run out.  An access token or cache entry without it is
\* never renewed, and a new one comes only of a request that read without it:
\* one copy of one read, however late it is put.  After the grant only a read
\* whose connection is lost reads without it (authentication.go:121-142,
\* role_permission_repository.go:80-122, principal_cache.go:14-22).
GrantsArrive ==
    [][\A u \in Member, p \in Perm : Granted(u, p) =>
         /\ \A k \in Slot : Lacks(copy'[k], u, p) =>
              \/ Lacks(copy[k], u, p) /\ copy'[k].left <= copy[k].left
              \/ UsesUp(k, u, p)
         /\ \A r \in Request : Stale(r, u, p)' => Stale(r, u, p) \/ req'[r].cut]_vars

-----------------------------------------------------------------------------
(* The inductive invariant *)

\* A role is of one tenant and found by its name; a user's role is of its tenant.
TablesInv ==
    /\ \A x \in Role : /\ role[x] # NoRole => role[x].tenant \in Tenant
                       /\ role[x] = NoRole => grant[x] = {}
    /\ \A x, y \in Role : role[x] # NoRole /\ role[x] = role[y] => x = y
    /\ \A u \in Member : member[u] # NoMember =>
         /\ member[u].role \in Role /\ member[u].tenant \in Tenant
         /\ role[member[u].role].tenant = member[u].tenant

\* Copies and requests are of users that exist.
UsersInv ==
    /\ \A k \in Slot : copy[k] # NoCopy =>
         copy[k].who \in Member /\ member[copy[k].who] # NoMember
    /\ \A r \in Request : req[r].pc # "idle" =>
         req[r].who \in Member /\ member[req[r].who] # NoMember

\* What a handler was allowed and has looked up still holds when it writes.
AllowedInv ==
    \A r \in Request :
        /\ req[r].pc = "insert" => /\ "roles:create" \in grant[member[req[r].who].role]
                                   /\ req[r].name \in Names
        /\ req[r].pc = "assign" =>
             /\ "roles:update" \in grant[member[req[r].who].role]
             /\ req[r].role \in Role /\ req[r].perm \in Perm
             /\ role[req[r].role] # NoRole
             /\ role[req[r].role].tenant = member[req[r].who].tenant
        /\ req[r].pc = "list" =>
             /\ "roles:read" \in grant[member[req[r].who].role]
             /\ req[r].role \in Role /\ role[req[r].role] # NoRole
             /\ role[req[r].role].tenant = member[req[r].who].tenant
        /\ req[r].pc = "user" =>
             /\ "users:create" \in grant[member[req[r].who].role]
             /\ req[r].role \in Role /\ role[req[r].role] # NoRole
             /\ role[req[r].role].tenant = member[req[r].who].tenant

\* The inductive invariant with the types it needs: a role name means one role
\* of the tenant, and a handler between its checks and its write is still
\* allowed to write (create_role.go:30-58, assign_permission_to_role.go:35-69).
IInv == /\ TypeOK /\ TablesInv /\ UsersInv /\ AllowedInv
        /\ PrincipalsWithinRoles /\ ReadsStayInTenant

=============================================================================
