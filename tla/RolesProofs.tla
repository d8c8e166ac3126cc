----------------------------- MODULE RolesProofs -----------------------------
(***************************************************************************)
(* Proofs about Roles.  Permissions and users are only ever added, so what *)
(* a copy, a request or a handler under way knows stays within the tables; *)
(* IInv says so and is inductive.                                          *)
(***************************************************************************)
EXTENDS Roles, TLAPS

\* Rows are only added.
Grows ==
    /\ \A x \in Role : role[x] # NoRole => role'[x] = role[x]
    /\ \A x \in Role : grant[x] \subseteq grant'[x]
    /\ \A u \in Member : member[u] # NoMember => member'[u] = member[u]

\* What handlers between check and write rely on, of request r.
Allowed(r) ==
    /\ req[r].pc = "insert" => /\ "roles:create" \in grant[member[req[r].who].role]
                               /\ req[r].name \in Names
    /\ req[r].pc = "assign" =>
         /\ "roles:update" \in grant[member[req[r].who].role]
         /\ req[r].role \in Role /\ req[r].perm \in Perm
         /\ role[req[r].role] # NoRole
         /\ role[req[r].role].tenant = member[req[r].who].tenant
    /\ req[r].pc = "list" =>
         /\ "roles:read" \in grant[member[req[r].who].role]
         /\ req[r].role \in Role /\ role[req[r].role] # NoRole
         /\ role[req[r].role].tenant = member[req[r].who].tenant
    /\ req[r].pc = "user" =>
         /\ "users:create" \in grant[member[req[r].who].role]
         /\ req[r].role \in Role /\ role[req[r].role] # NoRole
         /\ role[req[r].role].tenant = member[req[r].who].tenant

\* What the answer of request r shows.
Shown(r) ==
    /\ req[r].pc = "users" =>
         /\ "users:read" \in grant[member[req[r].who].role]
         /\ \A v \in req[r].rows :
              v \in Member /\ member[v].tenant = member[req[r].who].tenant
    /\ req[r].pc = "roles" =>
         /\ "roles:read" \in grant[member[req[r].who].role]
         /\ \A x \in req[r].rows : x \in Role /\ role[x].tenant = member[req[r].who].tenant
    /\ req[r].pc = "permissions" =>
         /\ "roles:read" \in grant[member[req[r].who].role]
         /\ req[r].role \in Role /\ role[req[r].role].tenant = member[req[r].who].tenant
         /\ req[r].perms \subseteq grant[req[r].role]

\* What is true of request r in IInv.
Fine(r) ==
    /\ req[r].pc # "idle" => req[r].who \in Member /\ member[req[r].who] # NoMember
    /\ Allowed(r)
    /\ Shown(r)
    /\ req[r].pc \in {"issue", "put", "authed"} =>
         req[r].perms \subseteq grant[member[req[r].who].role]

\* What is true of slot k in IInv.
Sound(k) ==
    copy[k] # NoCopy =>
        /\ copy[k].who \in Member /\ member[copy[k].who] # NoMember
        /\ copy[k].perms \subseteq grant[member[copy[k].who].role]

\* The invariant by requests and by slots.
LEMMA Parts ==
    IInv <=> /\ TypeOK /\ TablesInv
             /\ \A k \in Slot : Sound(k)
             /\ \A r \in Request : Fine(r)
<1>1. ReadsStayInTenant <=> \A r \in Request : Shown(r)
  BY DEF ReadsStayInTenant, Shown
<1>2. AllowedInv <=> \A r \in Request : Allowed(r)
  BY DEF AllowedInv, Allowed
<1> QED BY <1>1, <1>2 DEF IInv, UsersInv, PrincipalsWithinRoles, Sound, Fine

\* The same of the next state.
LEMMA PartsPrime ==
    IInv' <=> /\ TypeOK' /\ TablesInv'
              /\ \A k \in Slot : Sound(k)'
              /\ \A r \in Request : Fine(r)'
<1>1. ReadsStayInTenant' <=> \A r \in Request : Shown(r)'
  BY DEF ReadsStayInTenant, Shown
<1>2. AllowedInv' <=> \A r \in Request : Allowed(r)'
  BY DEF AllowedInv, Allowed
<1> QED BY <1>1, <1>2 DEF IInv, UsersInv, PrincipalsWithinRoles, Sound, Fine

\* What is fine in the tables stays fine when rows are added.
LEMMA GrowKeeps ==
    ASSUME IInv, Grows, UNCHANGED copy
    PROVE  /\ \A k \in Slot : Sound(k)'
           /\ \A r \in Request : req'[r] = req[r] => Fine(r)'
<1> USE DEF Grows
<1>0. TypeOK /\ TablesInv /\ (\A k \in Slot : Sound(k)) /\ (\A r \in Request : Fine(r))
  BY Parts
<1>1. \A u \in Member : member[u] # NoMember =>
        /\ member'[u] = member[u]
        /\ grant[member[u].role] \subseteq grant'[member'[u].role]
  BY <1>0 DEF TablesInv
<1>2. ASSUME NEW k \in Slot PROVE Sound(k)'
  BY <1>0, <1>1 DEF Sound, NoCopy
<1>3. ASSUME NEW r \in Request, req'[r] = req[r] PROVE Fine(r)'
  <2>0. Fine(r) BY <1>0
  <2>1. Allowed(r)'
    <3>1. req[r].pc # "idle" => /\ req[r].who \in Member
                                /\ member'[req[r].who] = member[req[r].who]
                                /\ grant[member[req[r].who].role]
                                     \subseteq grant'[member'[req[r].who].role]
      BY <2>0, <1>1 DEF Fine
    <3>2. Allowed(r) BY <2>0 DEF Fine
    <3> QED BY <3>1, <3>2, <1>3 DEF Allowed, NoRole
  <2>4. Shown(r)'
    <3>1. Shown(r) BY <2>0 DEF Fine
    <3>2. CASE req[r].pc = "users"
      <4>1. /\ member'[req[r].who] = member[req[r].who]
            /\ "users:read" \in grant'[member'[req[r].who].role]
            /\ member[req[r].who].tenant \in Tenant
        BY <2>0, <1>0, <1>1, <3>1, <3>2 DEF Fine, Shown, TablesInv
      <4>2. ASSUME NEW v \in req[r].rows
            PROVE  v \in Member /\ member'[v].tenant = member'[req[r].who].tenant
        <5>1. v \in Member /\ member[v].tenant = member[req[r].who].tenant
          BY <3>1, <3>2 DEF Shown
        <5>2. member[v] # NoMember
          BY <5>1, <4>1, RolesAssumption DEF NoMember
        <5> QED BY <5>1, <5>2, <4>1, <1>1
      <4> QED BY <4>1, <4>2, <3>2, <1>3 DEF Shown
    <3>3. CASE req[r].pc = "roles"
      <4>1. /\ member'[req[r].who] = member[req[r].who]
            /\ "roles:read" \in grant'[member'[req[r].who].role]
            /\ member[req[r].who].tenant \in Tenant
        BY <2>0, <1>0, <1>1, <3>1, <3>3 DEF Fine, Shown, TablesInv
      <4>2. ASSUME NEW x \in req[r].rows
            PROVE  x \in Role /\ role'[x].tenant = member'[req[r].who].tenant
        <5>1. x \in Role /\ role[x].tenant = member[req[r].who].tenant
          BY <3>1, <3>3 DEF Shown
        <5>2. role[x] # NoRole
          BY <5>1, <4>1, RolesAssumption DEF NoRole
        <5> QED BY <5>1, <5>2, <4>1
      <4> QED BY <4>1, <4>2, <3>3, <1>3 DEF Shown
    <3>4. CASE req[r].pc = "permissions"
      <4>1. /\ member'[req[r].who] = member[req[r].who]
            /\ "roles:read" \in grant'[member'[req[r].who].role]
            /\ member[req[r].who].tenant \in Tenant
        BY <2>0, <1>0, <1>1, <3>1, <3>4 DEF Fine, Shown, TablesInv
      <4>2. /\ req[r].role \in Role /\ role[req[r].role].tenant = member[req[r].who].tenant
            /\ req[r].perms \subseteq grant[req[r].role]
        BY <3>1, <3>4 DEF Shown
      <4>3. role[req[r].role] # NoRole
        BY <4>1, <4>2, RolesAssumption DEF NoRole
      <4> QED BY <4>1, <4>2, <4>3, <3>4, <1>3 DEF Shown
    <3> QED BY <3>2, <3>3, <3>4, <1>3 DEF Shown
  <2>2. req[r].pc # "idle" => req[r].who \in Member /\ member'[req[r].who] # NoMember
    BY <2>0, <1>1 DEF Fine, NoMember
  <2>3. req[r].pc \in {"issue", "put", "authed"} =>
          req[r].perms \subseteq grant'[member'[req[r].who].role]
    BY <2>0, <1>1 DEF Fine
  <2> QED BY <2>1, <2>2, <2>3, <2>4, <1>3 DEF Fine, NoMember
<1> QED BY <1>2, <1>3

\* A step that leaves the tables and the slots alone and makes one request fine.
LEMMA RequestStep ==
    ASSUME IInv, NEW r \in Request, UNCHANGED <<tables, copy>>,
           \A q \in Request : q # r => req'[q] = req[q],
           TypeOK', Fine(r)'
    PROVE  IInv'
<1>0. UNCHANGED <<role, grant, member, copy>> BY DEF tables
<1>1. Grows BY <1>0 DEF Grows
<1>2. (\A k \in Slot : Sound(k)') /\ \A q \in Request : q # r => Fine(q)'
  BY <1>0, <1>1, GrowKeeps
<1>3. TablesInv'
  BY <1>0 DEF IInv, TablesInv, NoRole, NoMember
<1> QED BY <1>2, <1>3, PartsPrime

LEMMA InitInv == Init => IInv
<1> SUFFICES ASSUME Init PROVE IInv OBVIOUS
<1> USE RolesAssumption DEF Init, Role, Member, Names, NoRole, NoMember, NoCopy, Idle,
              CopyType, ReqType
<1>1. TypeOK
  <2>1. role \in [Role -> [tenant : Tenant \cup {None}, name : Names \cup {None}]] OBVIOUS
  <2>2. grant \in [Role -> SUBSET Perm] OBVIOUS
  <2>3. member \in [Member -> [tenant : Tenant \cup {None}, role : Role \cup {None}]] OBVIOUS
  <2>4. /\ copy \in [Slot -> CopyType]
        /\ \A k \in Slot : copy[k].left <= IF copy[k].kind = "cache" THEN CacheTTL ELSE TokenTTL
    OBVIOUS
  <2>5. req \in [Request -> ReqType]
    OBVIOUS
  <2> QED BY <2>1, <2>2, <2>3, <2>4, <2>5 DEF TypeOK
<1>2. TablesInv
  <2>1. \A x \in Role : /\ role[x] # NoRole => role[x].tenant \in Tenant
                        /\ role[x] = NoRole => grant[x] = {}
    OBVIOUS
  <2>2. ASSUME NEW x \in Role, NEW y \in Role, role[x] # NoRole, role[x] = role[y] PROVE x = y
    <3>1. CASE x \in Tenant /\ y \in Tenant BY <2>2, <3>1
    <3>2. CASE x \notin Tenant /\ y \notin Tenant BY <2>2, <3>2
    <3>3. \A z \in Role : z \in Tenant <=> role[z].name = "tenant_owner" OBVIOUS
    <3> QED BY <2>2, <3>1, <3>2, <3>3
  <2>3. \A u \in Member : member[u] # NoMember =>
          /\ member[u].role \in Role /\ member[u].tenant \in Tenant
          /\ role[member[u].role].tenant = member[u].tenant
    OBVIOUS
  <2> QED BY <2>1, <2>2, <2>3 DEF TablesInv
<1>3. \A k \in Slot : Sound(k) BY DEF Sound
<1>4. \A r \in Request : Fine(r) BY DEF Fine, Allowed, Shown
<1> QED BY <1>1, <1>2, <1>3, <1>4, Parts

-----------------------------------------------------------------------------
(* Requests and principals *)

\* A principal the tables would give now.
LEMMA ReadFine ==
    ASSUME IInv, NEW u \in Member, member[u] # NoMember, NEW got \in GetPermissionsForUser(u)
    PROVE  /\ got.rows \subseteq grant[member[u].role] /\ got.rows \subseteq Perm
           /\ got.cut \in BOOLEAN
           /\ ~got.cut => got.rows = grant[member[u].role]
<1>1. grant[member[u].role] \subseteq Perm
  BY DEF IInv, TypeOK, TablesInv
<1>2. /\ got.rows \subseteq grant[member[u].role] /\ got.cut \in BOOLEAN
      /\ ~got.cut => got.rows = grant[member[u].role]
  <2>1. CASE got = [rows |-> grant[member[u].role], cut |-> FALSE]
    BY <2>1
  <2>2. CASE \E rows \in Prefix : got = [rows |-> grant[member[u].role] \cap rows, cut |-> TRUE]
    BY <2>2
  <2> QED BY <2>1, <2>2 DEF GetPermissionsForUser
<1> QED BY <1>1, <1>2

\* A user whose principal has a permission exists and has it in the tables.
LEMMA RequireFine ==
    ASSUME IInv, NEW r \in Request, NEW u \in Member, NEW p, RequirePermission(r, u, p)
    PROVE  member[u] # NoMember /\ p \in grant[member[u].role]
<1>1. CASE req[r].pc = "authed" /\ req[r].who = u /\ p \in req[r].perms
  BY <1>1 DEF IInv, UsersInv, PrincipalsWithinRoles
<1>2. CASE \E c \in Principals(u) : p \in c.perms
  <2>1. PICK k \in Slot : copy[k].who = u /\ p \in copy[k].perms
    BY <1>2 DEF Principals
  <2>2. copy[k] # NoCopy
    BY <2>1, RolesAssumption DEF NoCopy
  <2> QED BY <2>1, <2>2 DEF IInv, UsersInv, PrincipalsWithinRoles
<1> QED BY <1>1, <1>2 DEF RequirePermission, HasPermission

\* What a read of the permissions leaves in the request.
LEMMA LoadFacts ==
    ASSUME IInv, NEW r \in Request, NEW u \in Member, SignIn(r, u) \/ HeaderLoad(r, u)
    PROVE  /\ req[r].pc = "idle" /\ member[u] # NoMember /\ UNCHANGED <<tables, copy>>
           /\ req' \in [Request -> ReqType]
           /\ \A q \in Request : q # r => req'[q] = req[q]
           /\ req'[r].pc \in {"issue", "put"} /\ req'[r].who = u
           /\ req'[r].perms \subseteq grant[member[u].role]
           /\ ~req'[r].cut => req'[r].perms = grant[member[u].role]
<1>1. PICK pc \in {"issue", "put"}, got \in GetPermissionsForUser(u) :
         req' = [req EXCEPT ![r].pc = pc, ![r].who = u, ![r].perms = got.rows,
                            ![r].cut = got.cut]
  BY DEF SignIn, HeaderLoad, Load
<1>2. req[r].pc = "idle" /\ member[u] # NoMember /\ UNCHANGED <<tables, copy>>
  BY DEF SignIn, HeaderLoad
<1>3. PICK ps, c : ps = got.rows /\ c = got.cut
  OBVIOUS
<1>4. /\ ps \subseteq grant[member[u].role] /\ ps \subseteq Perm /\ c \in BOOLEAN
      /\ ~c => ps = grant[member[u].role]
  BY <1>2, <1>3, ReadFine
<1> DEFINE x == [req[r] EXCEPT !.pc = pc, !.who = u, !.perms = ps, !.cut = c]
<1>5. req \in [Request -> ReqType] /\ req[r] \in ReqType
  BY DEF IInv, TypeOK
<1>6. x \in ReqType /\ x.pc = pc /\ x.who = u /\ x.perms = ps /\ x.cut = c
  <2>1. pc \in {"idle", "issue", "idtoken", "put", "authed", "insert", "assign", "user", "list",
                "users", "roles", "permissions"}
    OBVIOUS
  <2> QED BY <1>4, <1>5, <2>1 DEF ReqType
<1>7. req' = [req EXCEPT ![r] = x]
  BY <1>1, <1>3, <1>5
<1> HIDE DEF x
<1>8. /\ req' \in [Request -> ReqType] /\ req'[r] = x
      /\ \A q \in Request : q # r => req'[q] = req[q]
  BY <1>5, <1>6, <1>7
<1> QED BY <1>2, <1>4, <1>6, <1>8

LEMMA SignInStep ==
    ASSUME IInv, NEW r \in Request, NEW u \in Member, SignIn(r, u) \/ HeaderLoad(r, u)
    PROVE  IInv'
<1>1. TypeOK'
  BY LoadFacts DEF IInv, TypeOK, tables
<1>2. Fine(r)'
  BY LoadFacts DEF Fine, Allowed, Shown, tables
<1> QED BY <1>1, <1>2, LoadFacts, RequestStep

\* A request that ends is fine, and well-typed.
LEMMA ReplyFine ==
    ASSUME IInv, NEW r \in Request, Reply(r)
    PROVE  /\ Fine(r)'
           /\ \A q \in Request : q # r => req'[q] = req[q]
           /\ req'[r] = Idle
           /\ req' \in [Request -> ReqType]
<1>1. req \in [Request -> ReqType]
  BY DEF IInv, TypeOK
<1>2. req'[r] = Idle /\ \A q \in Request : q # r => req'[q] = req[q]
  BY <1>1 DEF Reply
<1>3. Fine(r)'
  BY <1>2 DEF Fine, Allowed, Shown, Idle
<1>4. Idle \in ReqType
  BY DEF Idle, ReqType
<1> QED BY <1>1, <1>2, <1>3, <1>4 DEF Reply

LEMMA EndStep ==
    ASSUME IInv, NEW r \in Request, Handle(r) \/ Abort(r)
    PROVE  IInv'
<1>1. Reply(r) /\ UNCHANGED <<tables, copy>>
  BY DEF Handle, Abort
<1>2. TypeOK'
  BY <1>1, ReplyFine DEF IInv, TypeOK, tables
<1> QED BY <1>1, <1>2, ReplyFine, RequestStep

\* A step that leaves the tables alone and writes one slot for request r.
LEMMA CopyStep ==
    ASSUME IInv, NEW r \in Request, NEW k \in Slot, NEW kind \in {"token", "id", "cache"},
           NEW ttl \in Nat, ttl = IF kind = "cache" THEN CacheTTL ELSE TokenTTL,
           NEW ps, \/ req[r].pc \in {"issue", "put"} /\ ps = req[r].perms
                   \/ req[r].pc = "idtoken" /\ ps = {},
           UNCHANGED tables,
           copy' = [copy EXCEPT ![k] = [kind |-> kind, who |-> req[r].who,
                                        perms |-> ps, left |-> ttl]],
           \A q \in Request : q # r => req'[q] = req[q],
           Fine(r)',
           req' \in [Request -> ReqType]
    PROVE  IInv'
<1>0. UNCHANGED <<role, grant, member>> BY DEF tables
<1>1. TypeOK /\ TablesInv /\ (\A j \in Slot : Sound(j)) /\ (\A q \in Request : Fine(q))
  BY Parts
<1>2. TypeOK'
  <2>1. req[r].who \in Member \cup {None} /\ ps \in SUBSET Perm
    BY <1>1 DEF TypeOK, ReqType
  <2>2. copy' \in [Slot -> CopyType]
    BY <1>1, <2>1 DEF TypeOK, CopyType
  <2>3. ASSUME NEW j \in Slot
        PROVE  copy'[j].left <= IF copy'[j].kind = "cache" THEN CacheTTL ELSE TokenTTL
    <3>1. CASE j = k BY <3>1, <1>1, RolesAssumption DEF TypeOK
    <3>2. CASE j # k BY <3>2, <1>1 DEF TypeOK
    <3> QED BY <3>1, <3>2
  <2> QED BY <1>0, <1>1, <2>2, <2>3 DEF TypeOK
<1>3. TablesInv'
  BY <1>0, <1>1 DEF TablesInv, NoRole, NoMember
<1>4. ASSUME NEW j \in Slot PROVE Sound(j)'
  <2>1. CASE j = k
    <3>1. copy'[k].who = req[r].who /\ copy'[k].perms = ps
      BY <1>1 DEF TypeOK
    <3>2. Fine(r) BY <1>1
    <3> QED BY <2>1, <3>1, <3>2, <1>0 DEF Sound, Fine
  <2>2. CASE j # k
    <3>1. copy'[j] = copy[j] BY <2>2, <1>1 DEF TypeOK
    <3>2. Sound(j) BY <1>1
    <3> QED BY <3>1, <3>2, <1>0 DEF Sound, NoCopy, NoMember
  <2> QED BY <2>1, <2>2
<1>5. ASSUME NEW q \in Request PROVE Fine(q)'
  <2>1. CASE q # r
    <3>1. Fine(q) /\ req'[q] = req[q] BY <2>1, <1>1
    <3> QED BY <3>1, <1>0 DEF Fine, Allowed, Shown, NoRole, NoMember
  <2> QED BY <2>1
<1> QED BY <1>2, <1>3, <1>4, <1>5, PartsPrime

LEMMA IssueStep ==
    ASSUME IInv, NEW r \in Request, NEW k \in Slot, Issue(r, k)
    PROVE  IInv'
<1>1. UNCHANGED tables /\ req[r].pc = "issue"
  BY DEF Issue
<1>2. copy' = [copy EXCEPT ![k] = [kind |-> "token", who |-> req[r].who,
                                   perms |-> req[r].perms, left |-> TokenTTL]]
  BY DEF Issue
<1>3. CASE Reply(r)
  BY <1>1, <1>2, <1>3, ReplyFine, CopyStep, RolesAssumption
<1>4. CASE req' = [req EXCEPT ![r].pc = "idtoken"]
  <2>1. req \in [Request -> ReqType] /\ Fine(r)
    BY Parts DEF TypeOK
  <2>2. /\ req' \in [Request -> ReqType]
        /\ req'[r].pc = "idtoken" /\ req'[r].who = req[r].who
        /\ \A q \in Request : q # r => req'[q] = req[q]
    BY <1>4, <2>1 DEF ReqType
  <2>3. Fine(r)'
    BY <1>1, <2>1, <2>2 DEF Fine, Allowed, Shown, tables, NoMember
  <2> QED BY <1>1, <1>2, <2>2, <2>3, CopyStep, RolesAssumption
<1> QED BY <1>3, <1>4 DEF Issue

LEMMA IDTokenStep ==
    ASSUME IInv, NEW r \in Request, NEW k \in Slot, IssueIDToken(r, k)
    PROVE  IInv'
<1>1. Reply(r) /\ UNCHANGED tables /\ req[r].pc = "idtoken"
  BY DEF IssueIDToken
<1>2. copy' = [copy EXCEPT ![k] = [kind |-> "id", who |-> req[r].who, perms |-> {},
                                   left |-> TokenTTL]]
  BY DEF IssueIDToken
<1> QED BY <1>1, <1>2, ReplyFine, CopyStep, RolesAssumption

LEMMA PutStep ==
    ASSUME IInv, NEW r \in Request, NEW k \in Slot, HeaderPut(r, k)
    PROVE  IInv'
<1>1. req[r].pc = "put" /\ UNCHANGED tables /\ req' = [req EXCEPT ![r].pc = "authed"]
  BY DEF HeaderPut
<1>2. req \in [Request -> ReqType]
  BY DEF IInv, TypeOK
<1>3. req' \in [Request -> ReqType]
  BY <1>1, <1>2 DEF ReqType
<1>4. \A q \in Request : q # r => req'[q] = req[q]
  BY <1>1, <1>2
<1>5. req'[r].pc = "authed" /\ req'[r].who = req[r].who /\ req'[r].perms = req[r].perms
  BY <1>1, <1>2 DEF ReqType
<1>6. Fine(r)'
  <2>1. Fine(r) BY Parts
  <2> QED BY <2>1, <1>1, <1>5 DEF Fine, Allowed, Shown, tables, NoMember
<1>7. CASE UNCHANGED copy
  <2>1. TypeOK' BY <1>1, <1>3, <1>7 DEF IInv, TypeOK, tables
  <2> QED BY <1>1, <1>4, <1>6, <1>7, <2>1, RequestStep
<1>8. CASE copy' = [copy EXCEPT ![k] = [kind |-> "cache", who |-> req[r].who,
                                        perms |-> req[r].perms, left |-> CacheTTL]]
  BY <1>1, <1>3, <1>4, <1>6, <1>8, CopyStep, RolesAssumption
<1> QED BY <1>7, <1>8 DEF HeaderPut

LEMMA TickStep == ASSUME IInv, Tick PROVE IInv'
<1>0. UNCHANGED <<role, grant, member, req>> /\ copy' = [k \in Slot |-> Dec(copy[k])]
  BY DEF Tick, tables
<1>1. TypeOK /\ TablesInv /\ (\A j \in Slot : Sound(j)) /\ (\A q \in Request : Fine(q))
  BY Parts
<1>2. ASSUME NEW k \in Slot
      PROVE  /\ copy'[k] \in CopyType
             /\ copy'[k].left <= IF copy'[k].kind = "cache" THEN CacheTTL ELSE TokenTTL
             /\ copy'[k] # NoCopy => /\ copy[k] # NoCopy
                                     /\ copy'[k].who = copy[k].who
                                     /\ copy'[k].perms = copy[k].perms
  <2>1. CASE copy[k].left > 1
    <3>1. copy'[k] = [copy[k] EXCEPT !.left = copy[k].left - 1] BY <1>0, <2>1 DEF Dec
    <3>2. copy[k] \in CopyType /\ copy[k].left \in Nat
      BY <1>1 DEF TypeOK, CopyType
    <3>3. copy'[k] \in CopyType BY <2>1, <3>1, <3>2 DEF CopyType
    <3>4. /\ copy'[k].who = copy[k].who /\ copy'[k].perms = copy[k].perms
          /\ copy'[k].kind = copy[k].kind /\ copy'[k].left = copy[k].left - 1
      BY <3>1, <3>2 DEF CopyType
    <3>5. copy[k].left <= IF copy[k].kind = "cache" THEN CacheTTL ELSE TokenTTL
      BY <1>1 DEF TypeOK
    <3>6. copy[k] # NoCopy BY <2>1 DEF NoCopy
    <3> QED BY <3>2, <3>3, <3>4, <3>5, <3>6, RolesAssumption
  <2>2. CASE ~(copy[k].left > 1)
    <3>1. copy'[k] = NoCopy BY <1>0, <2>2 DEF Dec
    <3> QED BY <3>1, RolesAssumption DEF NoCopy, CopyType
  <2> QED BY <2>1, <2>2
<1>3. TypeOK'
  <2>1. copy' \in [Slot -> CopyType] BY <1>0, <1>2
  <2> QED BY <1>0, <1>1, <1>2, <2>1 DEF TypeOK
<1>4. TablesInv'
  BY <1>0, <1>1 DEF TablesInv, NoRole, NoMember
<1>5. ASSUME NEW k \in Slot PROVE Sound(k)'
  <2>1. Sound(k) BY <1>1
  <2> QED BY <1>0, <1>2, <2>1 DEF Sound, NoMember, NoCopy
<1>6. ASSUME NEW q \in Request PROVE Fine(q)'
  <2>1. Fine(q) BY <1>1
  <2> QED BY <1>0, <2>1 DEF Fine, Allowed, Shown, NoRole, NoMember
<1> QED BY <1>3, <1>4, <1>5, <1>6, PartsPrime

-----------------------------------------------------------------------------
(* Handlers *)

\* A handler that has passed its checks.
LEMMA GotoStep ==
    ASSUME IInv, NEW r \in Request, NEW u \in Member, member[u] # NoMember,
           NEW pc \in {"insert", "assign", "user", "list"},
           NEW x \in Role \cup {None}, NEW n \in Names \cup {None}, NEW p \in Perm \cup {None},
           Goto(r, u, pc, x, n, p), UNCHANGED <<tables, copy>>,
           pc = "insert" => "roles:create" \in grant[member[u].role] /\ n \in Names,
           pc = "assign" => "roles:update" \in grant[member[u].role] /\ p \in Perm,
           pc = "user" => "users:create" \in grant[member[u].role],
           pc = "list" => "roles:read" \in grant[member[u].role],
           pc \in {"assign", "user", "list"} => /\ x \in Role /\ role[x] # NoRole
                                        /\ role[x].tenant = member[u].tenant
    PROVE  IInv'
<1>1. req \in [Request -> ReqType]
  BY DEF IInv, TypeOK
<1>2. /\ req'[r] = [pc |-> pc, who |-> u, perms |-> {}, role |-> x, name |-> n, perm |-> p,
                   rows |-> {}, cut |-> FALSE]
      /\ \A q \in Request : q # r => req'[q] = req[q]
  BY <1>1 DEF Goto
<1>3. [pc |-> pc, who |-> u, perms |-> {}, role |-> x, name |-> n, perm |-> p, rows |-> {},
       cut |-> FALSE] \in ReqType
  BY DEF ReqType
<1>4. TypeOK'
  <2>1. req' \in [Request -> ReqType] BY <1>1, <1>3 DEF Goto
  <2> QED BY <2>1 DEF IInv, TypeOK, tables
<1>5. Fine(r)'
  BY <1>2 DEF Fine, Allowed, Shown, tables, NoMember, NoRole
<1> QED BY <1>2, <1>4, <1>5, RequestStep

LEMMA CreateRoleStep ==
    ASSUME IInv, NEW r \in Request, NEW u \in Member, NEW n \in Names, CreateRole(r, u, n)
    PROVE  IInv'
<1>1. /\ RequirePermission(r, u, "roles:create") /\ UNCHANGED <<tables, copy>>
      /\ Goto(r, u, "insert", None, n, None)
  BY DEF CreateRole
<1>2. member[u] # NoMember /\ "roles:create" \in grant[member[u].role]
  BY <1>1, RequireFine
<1> QED BY <1>1, <1>2, GotoStep

LEMMA AssignStep ==
    ASSUME IInv, NEW r \in Request, NEW u \in Member, NEW x \in Role, NEW p \in Perm,
           AssignPermission(r, u, x, p)
    PROVE  IInv'
<1>1. /\ RequirePermission(r, u, "roles:update") /\ UNCHANGED <<tables, copy>>
      /\ role[x] # NoRole /\ role[x].tenant = member[u].tenant
      /\ Goto(r, u, "assign", x, None, p)
  BY DEF AssignPermission, GetByID
<1>2. member[u] # NoMember /\ "roles:update" \in grant[member[u].role]
  BY <1>1, RequireFine
<1> QED BY <1>1, <1>2, GotoStep

LEMMA CreateUserStep ==
    ASSUME IInv, NEW r \in Request, NEW u \in Member, NEW n \in Names, CreateUser(r, u, n)
    PROVE  IInv'
<1>1. RequirePermission(r, u, "users:create") /\ UNCHANGED <<tables, copy>>
  BY DEF CreateUser
<1>2. PICK x \in Role : /\ role[x] = [tenant |-> member[u].tenant, name |-> n]
                        /\ Goto(r, u, "user", x, None, None)
  BY DEF CreateUser, GetByTenantAndName
<1>3. member[u] # NoMember /\ "users:create" \in grant[member[u].role]
  BY <1>1, RequireFine
<1>4. role[x].tenant = member[u].tenant /\ role[x] # NoRole
  <2>1. role[x].tenant = member[u].tenant BY <1>2
  <2>2. role[x].name = n BY <1>2
  <2> QED BY <2>1, <2>2, RolesAssumption DEF NoRole
<1> QED BY <1>1, <1>2, <1>3, <1>4, GotoStep

-----------------------------------------------------------------------------
(* Reads *)

\* A handler that is about to answer.
LEMMA AnswerStep ==
    ASSUME IInv, NEW r \in Request, NEW u \in Member, member[u] # NoMember,
           NEW pc \in {"users", "roles", "permissions"},
           NEW x \in Role \cup {None}, NEW ps \in SUBSET Perm,
           NEW rows \in SUBSET (Role \cup Member),
           Answer(r, u, pc, x, ps, rows), UNCHANGED <<tables, copy>>,
           pc = "users" => /\ "users:read" \in grant[member[u].role]
                           /\ \A v \in rows : v \in Member /\ member[v].tenant = member[u].tenant,
           pc = "roles" => /\ "roles:read" \in grant[member[u].role]
                           /\ \A y \in rows : y \in Role /\ role[y].tenant = member[u].tenant,
           pc = "permissions" => /\ "roles:read" \in grant[member[u].role]
                                 /\ x \in Role /\ role[x].tenant = member[u].tenant
                                 /\ ps \subseteq grant[x]
    PROVE  IInv'
<1>1. req \in [Request -> ReqType]
  BY DEF IInv, TypeOK
<1>2. /\ req'[r] = [pc |-> pc, who |-> u, perms |-> ps, role |-> x, name |-> None,
                   perm |-> None, rows |-> rows, cut |-> FALSE]
      /\ \A q \in Request : q # r => req'[q] = req[q]
  BY <1>1 DEF Answer
<1>3. [pc |-> pc, who |-> u, perms |-> ps, role |-> x, name |-> None, perm |-> None,
       rows |-> rows, cut |-> FALSE] \in ReqType
  BY DEF ReqType
<1>4. TypeOK'
  <2>1. req' \in [Request -> ReqType] BY <1>1, <1>3 DEF Answer
  <2> QED BY <2>1 DEF IInv, TypeOK, tables
<1>5. Fine(r)'
  BY <1>2 DEF Fine, Allowed, Shown, tables, NoMember, NoRole
<1> QED BY <1>2, <1>4, <1>5, RequestStep

LEMMA GetUserStep ==
    ASSUME IInv, NEW r \in Request, NEW u \in Member, NEW v \in Member, GetUser(r, u, v)
    PROVE  IInv'
<1> DEFINE rows == GetByTenantAndID(member[u].tenant, v)
<1>1. /\ RequirePermission(r, u, "users:read") /\ UNCHANGED <<tables, copy>>
      /\ Answer(r, u, "users", None, {}, rows)
  BY DEF GetUser
<1>2. member[u] # NoMember /\ "users:read" \in grant[member[u].role]
  BY <1>1, RequireFine
<1>3. /\ rows \in SUBSET (Role \cup Member)
      /\ \A w \in rows : w \in Member /\ member[w].tenant = member[u].tenant
  BY DEF GetByTenantAndID
<1> HIDE DEF rows
<1> QED BY <1>1, <1>2, <1>3, AnswerStep

LEMMA ListUsersStep ==
    ASSUME IInv, NEW r \in Request, NEW u \in Member, ListUsers(r, u)
    PROVE  IInv'
<1>1. RequirePermission(r, u, "users:read") /\ UNCHANGED <<tables, copy>>
  BY DEF ListUsers
<1>2. PICK rows \in ListUsersByTenant(member[u].tenant) : Answer(r, u, "users", None, {}, rows)
  BY DEF ListUsers
<1>3. member[u] # NoMember /\ "users:read" \in grant[member[u].role]
  BY <1>1, RequireFine
<1>4. /\ rows \in SUBSET (Role \cup Member)
      /\ \A w \in rows : w \in Member /\ member[w].tenant = member[u].tenant
  BY <1>2 DEF ListUsersByTenant
<1> QED BY <1>1, <1>2, <1>3, <1>4, AnswerStep

LEMMA ListRolesStep ==
    ASSUME IInv, NEW r \in Request, NEW u \in Member, ListRoles(r, u)
    PROVE  IInv'
<1>1. RequirePermission(r, u, "roles:read") /\ UNCHANGED <<tables, copy>>
  BY DEF ListRoles
<1>2. PICK rows \in ListRolesByTenant(member[u].tenant) : Answer(r, u, "roles", None, {}, rows)
  BY DEF ListRoles
<1>3. member[u] # NoMember /\ "roles:read" \in grant[member[u].role]
  BY <1>1, RequireFine
<1>4. /\ rows \in SUBSET (Role \cup Member)
      /\ \A x \in rows : x \in Role /\ role[x].tenant = member[u].tenant
  BY <1>2 DEF ListRolesByTenant
<1> QED BY <1>1, <1>2, <1>3, <1>4, AnswerStep

LEMMA ListRolePermissionsStep ==
    ASSUME IInv, NEW r \in Request, NEW u \in Member, NEW x \in Role,
           ListRolePermissions(r, u, x)
    PROVE  IInv'
<1>1. /\ RequirePermission(r, u, "roles:read") /\ UNCHANGED <<tables, copy>>
      /\ role[x] # NoRole /\ role[x].tenant = member[u].tenant
      /\ Goto(r, u, "list", x, None, None)
  BY DEF ListRolePermissions, GetByID
<1>2. member[u] # NoMember /\ "roles:read" \in grant[member[u].role]
  BY <1>1, RequireFine
<1> QED BY <1>1, <1>2, GotoStep

LEMMA ReadPermissionsStep ==
    ASSUME IInv, NEW r \in Request, ReadPermissions(r)
    PROVE  IInv'
<1>1. req[r].pc = "list" /\ UNCHANGED <<tables, copy>>
  BY DEF ReadPermissions
<1>2. PICK ps \in GetPermissionsForRole(req[r].role) :
        Answer(r, req[r].who, "permissions", req[r].role, ps, {})
  BY DEF ReadPermissions
<1>3. /\ "roles:read" \in grant[member[req[r].who].role]
      /\ req[r].role \in Role /\ role[req[r].role].tenant = member[req[r].who].tenant
      /\ req[r].who \in Member /\ member[req[r].who] # NoMember
  BY <1>1 DEF IInv, AllowedInv, UsersInv
<1>4. grant[req[r].role] \subseteq Perm
  BY <1>3 DEF IInv, TypeOK
<1>5. ps \subseteq grant[req[r].role]
  BY DEF GetPermissionsForRole
<1> QED BY <1>1, <1>2, <1>3, <1>4, <1>5, AnswerStep

-----------------------------------------------------------------------------
(* Writes *)

\* A step that adds rows and ends request r.
LEMMA WriteStep ==
    ASSUME IInv, NEW r \in Request, Grows, Reply(r), UNCHANGED copy,
           role' \in [Role -> [tenant : Tenant \cup {None}, name : Names \cup {None}]],
           grant' \in [Role -> SUBSET Perm],
           member' \in [Member -> [tenant : Tenant \cup {None}, role : Role \cup {None}]],
           TablesInv'
    PROVE  IInv'
<1>1. TypeOK'
  BY ReplyFine DEF IInv, TypeOK
<1>2. (\A k \in Slot : Sound(k)') /\ \A q \in Request : Fine(q)'
  BY GrowKeeps, ReplyFine
<1> QED BY <1>1, <1>2, PartsPrime

LEMMA InsertRoleStep ==
    ASSUME IInv, NEW r \in Request, NEW x \in RoleId, InsertRole(r, x)
    PROVE  IInv'
<1> DEFINE row == [tenant |-> member[req[r].who].tenant, name |-> req[r].name]
<1>0. TypeOK /\ TablesInv BY DEF IInv
<1>1. /\ req[r].pc = "insert" /\ role[x] = NoRole /\ Reply(r)
      /\ UNCHANGED <<grant, member, copy>>
      /\ IF \E y \in Role : role[y] = row THEN UNCHANGED role
                                          ELSE role' = [role EXCEPT ![x] = row]
  BY DEF InsertRole
<1>2. x \in Role BY DEF Role
<1>3. row.tenant \in Tenant /\ row.name \in Names
  BY <1>1 DEF IInv, UsersInv, AllowedInv, TablesInv
<1> HIDE DEF row
<1>4. CASE UNCHANGED role
  <2>1. TablesInv' BY <1>0, <1>1, <1>4 DEF TablesInv, NoRole, NoMember
  <2>2. Grows BY <1>1, <1>4 DEF Grows
  <2> QED BY <1>0, <1>1, <1>4, <2>1, <2>2, WriteStep DEF TypeOK
<1>5. CASE role' = [role EXCEPT ![x] = row] /\ \A y \in Role : role[y] # row
  <2>1. /\ role'[x] = row /\ \A y \in Role : y # x => role'[y] = role[y]
        /\ role' \in [Role -> [tenant : Tenant \cup {None}, name : Names \cup {None}]]
    BY <1>0, <1>2, <1>3, <1>5 DEF TypeOK, row
  <2>2. row # NoRole BY <1>3, RolesAssumption DEF NoRole
  <2>3. Grows BY <1>1, <2>1 DEF Grows
  <2>4. TablesInv'
    <3>1. ASSUME NEW y \in Role
          PROVE  /\ role'[y] # NoRole => role'[y].tenant \in Tenant
                 /\ role'[y] = NoRole => grant'[y] = {}
      BY <1>0, <1>1, <1>3, <2>1, <2>2 DEF TablesInv
    <3>2. ASSUME NEW y \in Role, NEW z \in Role, role'[y] # NoRole, role'[y] = role'[z]
          PROVE  y = z
      BY <3>2, <1>0, <1>5, <2>1 DEF TablesInv
    <3>3. ASSUME NEW u \in Member, member'[u] # NoMember
          PROVE  /\ member'[u].role \in Role /\ member'[u].tenant \in Tenant
                 /\ role'[member'[u].role].tenant = member'[u].tenant
      <4>1. /\ member[u].role \in Role /\ member[u].tenant \in Tenant
            /\ role[member[u].role].tenant = member[u].tenant
        BY <3>3, <1>0, <1>1 DEF TablesInv
      <4>2. member[u].role # x
        BY <4>1, <1>1, RolesAssumption DEF NoRole
      <4> QED BY <4>1, <4>2, <1>1, <2>1
    <3> QED BY <3>1, <3>2, <3>3 DEF TablesInv, NoRole, NoMember
  <2> QED BY <1>0, <1>1, <2>1, <2>3, <2>4, WriteStep DEF TypeOK
<1> QED BY <1>1, <1>4, <1>5

LEMMA InsertGrantStep ==
    ASSUME IInv, NEW r \in Request, InsertGrant(r)
    PROVE  IInv'
<1>0. TypeOK /\ TablesInv BY DEF IInv
<1>1. /\ req[r].pc = "assign" /\ Reply(r) /\ UNCHANGED <<role, member, copy>>
      /\ grant' = [grant EXCEPT ![req[r].role] = grant[req[r].role] \cup {req[r].perm}]
  BY DEF InsertGrant
<1>2. req[r].role \in Role /\ req[r].perm \in Perm /\ role[req[r].role] # NoRole
  BY <1>1 DEF IInv, AllowedInv
<1>3. /\ grant' \in [Role -> SUBSET Perm] /\ \A y \in Role : grant[y] \subseteq grant'[y]
      /\ \A y \in Role : y # req[r].role => grant'[y] = grant[y]
  BY <1>0, <1>1, <1>2 DEF TypeOK
<1>4. Grows BY <1>1, <1>3 DEF Grows
<1>5. TablesInv' BY <1>0, <1>1, <1>2, <1>3 DEF TablesInv, NoRole, NoMember
<1> QED BY <1>0, <1>1, <1>3, <1>4, <1>5, WriteStep DEF TypeOK

LEMMA CommitUserStep ==
    ASSUME IInv, NEW r \in Request, NEW v \in User, CommitUser(r, v)
    PROVE  IInv'
<1> DEFINE row == [tenant |-> member[req[r].who].tenant, role |-> req[r].role]
<1>0. TypeOK /\ TablesInv BY DEF IInv
<1>1. /\ req[r].pc = "user" /\ Reply(r) /\ UNCHANGED <<role, grant, copy>>
      /\ member[v] = NoMember /\ member' = [member EXCEPT ![v] = row]
  BY DEF CommitUser, AssignRole
<1>2. v \in Member BY DEF Member
<1>3. /\ row.tenant \in Tenant /\ row.role \in Role
      /\ role[row.role].tenant = row.tenant
  BY <1>1 DEF IInv, UsersInv, AllowedInv, TablesInv
<1>4. /\ member' \in [Member -> [tenant : Tenant \cup {None}, role : Role \cup {None}]]
      /\ member'[v] = row /\ \A u \in Member : u # v => member'[u] = member[u]
  BY <1>0, <1>1, <1>2, <1>3 DEF TypeOK
<1> HIDE DEF row
<1>5. Grows BY <1>1, <1>4 DEF Grows
<1>6. TablesInv'
  <2>1. ASSUME NEW u \in Member, member'[u] # NoMember
        PROVE  /\ member'[u].role \in Role /\ member'[u].tenant \in Tenant
               /\ role'[member'[u].role].tenant = member'[u].tenant
    BY <2>1, <1>0, <1>1, <1>3, <1>4 DEF TablesInv
  <2> QED BY <2>1, <1>0, <1>1 DEF TablesInv, NoRole, NoMember
<1> QED BY <1>0, <1>1, <1>4, <1>5, <1>6, WriteStep DEF TypeOK

-----------------------------------------------------------------------------
(* The theorems *)

LEMMA NextInv == IInv /\ [Next]_vars => IInv'
<1> SUFFICES ASSUME IInv, [Next]_vars PROVE IInv' OBVIOUS
<1>1. CASE UNCHANGED vars
  BY <1>1 DEF vars, IInv, TypeOK, TablesInv, UsersInv, AllowedInv, PrincipalsWithinRoles,
        ReadsStayInTenant, NoRole, NoMember, NoCopy
<1>2. ASSUME NEW r \in Request, ServerStep(r) PROVE IInv'
  BY <1>2, EndStep, InsertGrantStep, IssueStep, IDTokenStep, PutStep, InsertRoleStep,
     CommitUserStep, ReadPermissionsStep DEF ServerStep
<1>3. ASSUME NEW r \in Request, ClientStep(r) PROVE IInv'
  BY <1>3, SignInStep, CreateRoleStep, CreateUserStep, AssignStep, GetUserStep, ListUsersStep,
     ListRolesStep, ListRolePermissionsStep, RolesAssumption DEF ClientStep
<1>4. ASSUME NEW r \in Request, Abort(r) PROVE IInv'
  BY <1>4, EndStep
<1> QED BY <1>1, <1>2, <1>3, <1>4, TickStep DEF Next

\* In every reachable state a role name means one role of the tenant, a user's
\* role is of its tenant, and a handler between its checks and its write is
\* still allowed to write (create_role.go, assign_permission_to_role.go,
\* create_user.go), for any number of tenants, roles, users and requests.
THEOREM Inductive == Spec => []IInv
  BY InitInv, NextInv, PTL DEF Spec

\* No token, cache entry or principal under way ever has a permission that the
\* tables do not give its user (authentication.go:95-142).
THEOREM Within == Spec => []PrincipalsWithinRoles
<1>1. IInv => PrincipalsWithinRoles BY DEF IInv
<1> QED BY <1>1, Inductive, PTL

\* An answer shows only users, roles and permissions of the caller's tenant, to
\* a caller whom the tables allow to read them (list_role_permissions.go:26-49,
\* get_user.go:27-37, postgresuser/repository.go:180-276).
THEOREM Reads == Spec => []ReadsStayInTenant
<1>1. IInv => ReadsStayInTenant BY DEF IInv
<1> QED BY <1>1, Inductive, PTL

\* Only three steps write to the tables.
LEMMA Writers ==
    ASSUME [Next]_vars
    PROVE  \/ UNCHANGED tables
           \/ \E r \in Request : \/ InsertGrant(r)
                                 \/ \E x \in RoleId : InsertRole(r, x)
                                 \/ \E v \in User : CommitUser(r, v)
<1>1. CASE UNCHANGED vars BY <1>1 DEF vars, tables
<1>2. ASSUME NEW r \in Request, ClientStep(r) PROVE UNCHANGED tables
  BY <1>2 DEF ClientStep, SignIn, HeaderLoad, CreateRole, CreateUser, AssignPermission,
        GetUser, ListUsers, ListRoles, ListRolePermissions
<1>3. ASSUME NEW r \in Request, ServerStep(r)
      PROVE  \/ UNCHANGED tables
             \/ InsertGrant(r)
             \/ \E x \in RoleId : InsertRole(r, x)
             \/ \E v \in User : CommitUser(r, v)
  BY <1>3 DEF ServerStep, Handle, Issue, IssueIDToken, HeaderPut, ReadPermissions
<1> QED BY <1>1, <1>2, <1>3 DEF Next, Tick, Abort

\* A role, a permission of a role or a user appears only by a request of a user
\* of the tenant whom the tables allow it when the row is written, although the
\* check was made earlier and against a copy (authorization.go:9-31,
\* assign_permission_to_role.go:35-69, create_user.go:101-132).
THEOREM Acts == Spec => ActsAreAllowed
<1>1. ASSUME IInv, [Next]_vars
      PROVE  /\ \A x \in Role : role'[x] # role[x] =>
                   \E r \in Request : EndsAllowed(r, "roles:create", role'[x].tenant)
             /\ \A x \in Role : grant'[x] # grant[x] =>
                   \E r \in Request : EndsAllowed(r, "roles:update", role[x].tenant)
             /\ \A u \in Member : member'[u] # member[u] =>
                   /\ role[member'[u].role].tenant = member'[u].tenant
                   /\ \E r \in Request : EndsAllowed(r, "users:create", member'[u].tenant)
  <2>0. TypeOK BY <1>1 DEF IInv
  <2>1. CASE UNCHANGED tables BY <2>1 DEF tables
  <2>2. ASSUME NEW r \in Request, InsertGrant(r)
        PROVE  /\ UNCHANGED <<role, member>>
               /\ \A x \in Role : grant'[x] # grant[x] =>
                    EndsAllowed(r, "roles:update", role[x].tenant)
    <3>1. req[r] # Idle /\ req'[r] = Idle
      <4>1. Idle.pc = "idle" /\ req[r].pc # "idle" BY <2>2 DEF InsertGrant, Idle
      <4> QED BY <4>1, <2>2, <1>1, ReplyFine DEF InsertGrant
    <3>2. /\ "roles:update" \in grant[member[req[r].who].role]
          /\ role[req[r].role].tenant = member[req[r].who].tenant
      BY <2>2, <1>1 DEF InsertGrant, IInv, AllowedInv
    <3>3. UNCHANGED <<role, member>> /\ \A x \in Role : x # req[r].role => grant'[x] = grant[x]
      BY <2>2, <2>0 DEF InsertGrant, TypeOK
    <3> QED BY <3>1, <3>2, <3>3 DEF EndsAllowed
  <2>3. ASSUME NEW r \in Request, NEW x \in RoleId, InsertRole(r, x)
        PROVE  /\ UNCHANGED <<grant, member>>
               /\ \A y \in Role : role'[y] # role[y] =>
                    EndsAllowed(r, "roles:create", role'[y].tenant)
    <3>1. req[r] # Idle /\ req'[r] = Idle
      <4>1. Idle.pc = "idle" /\ req[r].pc # "idle" BY <2>3 DEF InsertRole, Idle
      <4> QED BY <4>1, <2>3, <1>1, ReplyFine DEF InsertRole
    <3>2. "roles:create" \in grant[member[req[r].who].role]
      BY <2>3, <1>1 DEF InsertRole, IInv, AllowedInv
    <3>3. /\ UNCHANGED <<grant, member>>
          /\ \A y \in Role : role'[y] # role[y] => role'[y].tenant = member[req[r].who].tenant
      BY <2>3, <2>0 DEF InsertRole, TypeOK, Role
    <3> QED BY <3>1, <3>2, <3>3 DEF EndsAllowed
  <2>4. ASSUME NEW r \in Request, NEW v \in User, CommitUser(r, v)
        PROVE  /\ UNCHANGED <<role, grant>>
               /\ \A u \in Member : member'[u] # member[u] =>
                    /\ role[member'[u].role].tenant = member'[u].tenant
                    /\ EndsAllowed(r, "users:create", member'[u].tenant)
    <3>1. req[r] # Idle /\ req'[r] = Idle
      <4>1. Idle.pc = "idle" /\ req[r].pc # "idle" BY <2>4 DEF CommitUser, Idle
      <4> QED BY <4>1, <2>4, <1>1, ReplyFine DEF CommitUser
    <3>2. /\ "users:create" \in grant[member[req[r].who].role]
          /\ role[req[r].role].tenant = member[req[r].who].tenant
      BY <2>4, <1>1 DEF CommitUser, IInv, AllowedInv
    <3>3. /\ UNCHANGED <<role, grant>>
          /\ \A u \in Member : member'[u] # member[u] =>
               /\ member'[u].tenant = member[req[r].who].tenant
               /\ member'[u].role = req[r].role
      BY <2>4, <2>0 DEF CommitUser, AssignRole, TypeOK, Member
    <3> QED BY <3>1, <3>2, <3>3 DEF EndsAllowed
  <2> QED BY <1>1, <2>1, <2>2, <2>3, <2>4, Writers
<1> QED BY <1>1, Inductive, PTL DEF Spec, ActsAreAllowed

\* A request that is about to copy permissions has been so before or has just
\* read them.
LEMMA ReadersNew ==
    ASSUME IInv, [Next]_vars, NEW q \in Request, req'[q].pc \in {"issue", "put"}
    PROVE  \/ req'[q] = req[q]
           \/ \E u \in Member : SignIn(q, u) \/ HeaderLoad(q, u)
<1>0. req \in [Request -> ReqType] BY DEF IInv, TypeOK
<1>1. CASE UNCHANGED req BY <1>1
<1>2. ASSUME NEW r \in Request, Reply(r) PROVE req'[q] = req[q]
  BY <1>0, <1>2 DEF Reply, Idle
<1>3. ASSUME NEW r \in Request, NEW k \in Slot, Issue(r, k) PROVE req'[q] = req[q]
  <2>1. CASE req' = [req EXCEPT ![r].pc = "idtoken"]
    <3>1. q # r => req'[q] = req[q] BY <1>0, <2>1
    <3>2. req'[r].pc = "idtoken" BY <1>0, <2>1 DEF ReqType
    <3> QED BY <3>1, <3>2
  <2> QED BY <1>2, <1>3, <2>1 DEF Issue
<1>4. ASSUME NEW r \in Request, NEW k \in Slot, HeaderPut(r, k) PROVE req'[q] = req[q]
  <2>1. req' = [req EXCEPT ![r].pc = "authed"] BY <1>4 DEF HeaderPut
  <2>2. q # r => req'[q] = req[q] BY <1>0, <2>1
  <2>3. req'[r].pc = "authed" BY <1>0, <2>1 DEF ReqType
  <2> QED BY <2>2, <2>3
<1>5. ASSUME NEW r \in Request, NEW u, NEW x, NEW n, NEW p,
             NEW pc \in {"insert", "assign", "user", "list"}, Goto(r, u, pc, x, n, p)
      PROVE  req'[q] = req[q]
  BY <1>0, <1>5 DEF Goto
<1>9. ASSUME NEW r \in Request, NEW u, NEW x, NEW ps, NEW rows,
             NEW pc \in {"users", "roles", "permissions"}, Answer(r, u, pc, x, ps, rows)
      PROVE  req'[q] = req[q]
  BY <1>0, <1>9 DEF Answer
<1>6. ASSUME NEW r \in Request, ServerStep(r) PROVE req'[q] = req[q]
  BY <1>6, <1>2, <1>3, <1>4, <1>9 DEF ServerStep, Handle, InsertGrant, IssueIDToken, InsertRole,
        CommitUser, ReadPermissions
<1>7. ASSUME NEW r \in Request, NEW u \in Member, SignIn(r, u) \/ HeaderLoad(r, u), q # r
      PROVE  req'[q] = req[q]
  BY <1>7, LoadFacts
<1>8. ASSUME NEW r \in Request, ClientStep(r)
      PROVE  req'[q] = req[q] \/ \E u \in Member : SignIn(q, u) \/ HeaderLoad(q, u)
  BY <1>8, <1>5, <1>7, <1>9, RolesAssumption DEF ClientStep, CreateRole, CreateUser, AssignPermission,
        GetUser, ListUsers, ListRoles, ListRolePermissions
<1> QED BY <1>1, <1>2, <1>6, <1>8 DEF Next, Abort, Tick, vars

\* Request r copies what it has read, once, into slot k.
Copies(r, k) ==
    /\ req[r].pc \in {"issue", "put"} /\ req'[r].pc \notin {"issue", "put"}
    /\ copy'[k].who = req[r].who /\ copy'[k].perms = req[r].perms
    /\ \A j \in Slot \ {k} : copy'[j] = copy[j]

\* Slot k gets what request r has read.
PickCopy(r, k) ==
    \E kind \in {"token", "cache"}, ttl \in {TokenTTL, CacheTTL} :
        copy' = [copy EXCEPT ![k] = [kind |-> kind, who |-> req[r].who,
                                     perms |-> req[r].perms, left |-> ttl]]

\* A copy is an older one, an ID token, or comes from a request that was about to
\* make it.
LEMMA CopiesOld ==
    ASSUME IInv, [Next]_vars, NEW k \in Slot
    PROVE  \/ copy'[k].kind \in {"none", "id"}
           \/ /\ copy'[k].kind = copy[k].kind
              /\ copy'[k].who = copy[k].who /\ copy'[k].perms = copy[k].perms
              /\ copy'[k].left <= copy[k].left
           \/ \E r \in Request : Copies(r, k)
<1>0. /\ copy \in [Slot -> CopyType] /\ copy[k] \in CopyType /\ copy[k].left \in Nat
      /\ req \in [Request -> ReqType]
  BY DEF IInv, TypeOK, CopyType
<1>1. CASE UNCHANGED copy BY <1>0, <1>1
<1>2. ASSUME NEW r \in Request, NEW j \in Slot, Issue(r, j) \/ HeaderPut(r, j)
      PROVE  \/ UNCHANGED copy
             \/ copy'[k] = copy[k]
             \/ Copies(r, k)
  <2>1. req[r].pc \in {"issue", "put"} /\ req'[r].pc \notin {"issue", "put"}
    <3>1. CASE Reply(r) BY <1>0, <1>2, <3>1 DEF Issue, HeaderPut, Reply, Idle
    <3>2. CASE req' = [req EXCEPT ![r].pc = "idtoken"]
      BY <1>0, <1>2, <3>2 DEF Issue, HeaderPut, ReqType
    <3>3. CASE req' = [req EXCEPT ![r].pc = "authed"]
      BY <1>0, <1>2, <3>3 DEF Issue, HeaderPut, ReqType
    <3> QED BY <1>2, <3>1, <3>2, <3>3 DEF Issue, HeaderPut
  <2>2. \/ UNCHANGED copy
        \/ PickCopy(r, j)
    BY <1>2 DEF Issue, HeaderPut, PickCopy
  <2>3. CASE PickCopy(r, j)
    <3>1. CASE j = k
      BY <1>0, <2>1, <2>3, <3>1 DEF PickCopy, Copies
    <3>2. CASE j # k
      BY <1>0, <2>3, <3>2 DEF PickCopy
    <3> QED BY <3>1, <3>2
  <2> QED BY <2>2, <2>3
<1>3. CASE Tick
  <2>1. copy'[k] = Dec(copy[k]) BY <1>3 DEF Tick
  <2>2. CASE copy[k].left > 1
    <3>1. copy'[k] = [copy[k] EXCEPT !.left = copy[k].left - 1] BY <2>1, <2>2 DEF Dec
    <3>2. /\ copy'[k].kind = copy[k].kind
          /\ copy'[k].who = copy[k].who /\ copy'[k].perms = copy[k].perms
          /\ copy'[k].left = copy[k].left - 1
      BY <1>0, <3>1 DEF CopyType
    <3> QED BY <1>0, <3>2
  <2>3. CASE ~(copy[k].left > 1)
    <3>1. copy'[k] = NoCopy BY <2>1, <2>3 DEF Dec
    <3> QED BY <3>1 DEF NoCopy
  <2> QED BY <2>2, <2>3
<1>4. ASSUME NEW r \in Request, ClientStep(r) PROVE UNCHANGED copy
  BY <1>4 DEF ClientStep, SignIn, HeaderLoad, CreateRole, CreateUser, AssignPermission,
        GetUser, ListUsers, ListRoles, ListRolePermissions
<1>5. ASSUME NEW r \in Request, ServerStep(r)
      PROVE  \/ UNCHANGED copy
             \/ \E j \in Slot : Issue(r, j) \/ HeaderPut(r, j) \/ IssueIDToken(r, j)
  BY <1>5 DEF ServerStep, Handle, InsertGrant, InsertRole, CommitUser, ReadPermissions
<1>6. ASSUME NEW r \in Request, NEW j \in Slot, IssueIDToken(r, j)
      PROVE  copy'[k] = copy[k] \/ copy'[k].kind = "id"
  BY <1>0, <1>6 DEF IssueIDToken
<1> QED BY <1>0, <1>1, <1>2, <1>3, <1>4, <1>5, <1>6 DEF Next, Abort, vars

\* After a grant, an access token or cache entry without the permission is never
\* renewed, a new one uses up a request that read without it, and only a read
\* that breaks off still reads without it (authentication.go:121-142,
\* role_permission_repository.go:80-122, principal_cache.go:14-22).
THEOREM Arrival == Spec => GrantsArrive
<1>1. ASSUME IInv, [Next]_vars, NEW u \in Member, NEW p \in Perm, Granted(u, p)
      PROVE  /\ \A k \in Slot : Lacks(copy'[k], u, p) =>
                  \/ Lacks(copy[k], u, p) /\ copy'[k].left <= copy[k].left
                  \/ UsesUp(k, u, p)
             /\ \A r \in Request : Stale(r, u, p)' => Stale(r, u, p) \/ req'[r].cut
  <2>1. ASSUME NEW k \in Slot, Lacks(copy'[k], u, p)
        PROVE  \/ Lacks(copy[k], u, p) /\ copy'[k].left <= copy[k].left
               \/ UsesUp(k, u, p)
    <3>1. ASSUME NEW r \in Request, Copies(r, k) PROVE UsesUp(k, u, p)
      <4>1. Stale(r, u, p) /\ ~Stale(r, u, p)'
        BY <2>1, <3>1 DEF Copies, Stale, Lacks, HasPermission
      <4> QED BY <3>1, <4>1 DEF Copies, UsesUp
    <3>2. copy'[k].kind \notin {"none", "id"}
      BY <2>1 DEF Lacks
    <3> QED BY <1>1, <2>1, <3>1, <3>2, CopiesOld DEF Lacks, HasPermission
  <2>2. ASSUME NEW r \in Request, Stale(r, u, p)'
        PROVE  Stale(r, u, p) \/ req'[r].cut
    <3>1. req'[r].pc \in {"issue", "put"} /\ req'[r].who = u /\ p \notin req'[r].perms
      BY <2>2 DEF Stale, HasPermission
    <3>2. CASE req'[r] = req[r]
      BY <3>1, <3>2 DEF Stale, HasPermission
    <3>3. ASSUME NEW v \in Member, SignIn(r, v) \/ HeaderLoad(r, v) PROVE req'[r].cut
      <4>1. req'[r].who = v /\ (~req'[r].cut => req'[r].perms = grant[member[v].role])
        BY <1>1, <3>3, LoadFacts
      <4> QED BY <1>1, <3>1, <4>1 DEF Granted
    <3> QED BY <1>1, <3>1, <3>2, <3>3, ReadersNew
  <2> QED BY <2>1, <2>2
<1>2. IInv /\ [Next]_vars =>
        [\A u \in Member, p \in Perm : Granted(u, p) =>
           /\ \A k \in Slot : Lacks(copy'[k], u, p) =>
                \/ Lacks(copy[k], u, p) /\ copy'[k].left <= copy[k].left
                \/ UsesUp(k, u, p)
           /\ \A r \in Request : Stale(r, u, p)' => Stale(r, u, p) \/ req'[r].cut]_vars
  BY <1>1
<1> QED BY <1>2, Inductive, PTL DEF Spec, GrantsArrive

=============================================================================
