---------------------------- MODULE Registration ----------------------------
(***************************************************************************)
(* POST /register and POST /users.  Both run in one Postgres transaction   *)
(* at READ COMMITTED: a registration inserts an identity, looks for a free *)
(* slug and inserts a tenant, a user and its owner role, gives the role    *)
(* every owner permission - creating the rows of permissions that nobody   *)
(* has created before - and assigns the role.                              *)
(*                                                                         *)
(* Emails, slugs and permission names are unique keys.  A read sees        *)
(* committed rows and the transaction's own.  An insert of a key that      *)
(* another transaction has inserted and not committed waits for that       *)
(* transaction; it fails if the key is then taken.  Inserts under keys     *)
(* made of fresh ids (credentials, users, roles, assignments) can neither  *)
(* wait nor fail for such a reason and are part of the step before them;   *)
(* the call keeps a list of them.                                          *)
(***************************************************************************)
EXTENDS Naturals, FiniteSets

CONSTANTS Email, Slug,
          Request,          \* each runs once; their number bounds the calls
          None,
          NPerm,            \* tenantOwnerPermissions has this many entries
          MaxSlugAttempts,  \* maxSlugAttempts, 5 in the code
          Candidate,        \* Candidate[e][n]: slug.FromEmail(e), for n > 0
                            \* with the suffix -n
          Faults            \* TRUE: any call may fail

Perm == 1..NPerm            \* a permission is its position in the list
Key == Email \cup Slug \cup Perm

ASSUME RegistrationAssumption ==
    /\ NPerm \in Nat /\ MaxSlugAttempts \in Nat
    /\ Candidate \in [Email -> [0..MaxSlugAttempts -> Slug]]
    /\ Email \cap Slug = {} /\ Email \cap Perm = {} /\ Slug \cap Perm = {}
    /\ None \notin Key \cup Request
    /\ Faults \in BOOLEAN

VARIABLES
    row,    \* row[k]: the request that committed the row under key k
    held,   \* held[k]: the open transaction that has inserted k
    tx,     \* tx[r]: the transaction of request r
    met     \* history: requests that were under way at the same time as others

vars == <<row, held, tx, met>>

NotBegun == [pc |-> "new", why |-> "none", email |-> None, slug |-> None, n |-> 0,
             owner |-> None, made |-> {}, perms |-> [p \in Perm |-> None]]

\* Tables whose rows have fresh ids for keys.
Table == {"credentials", "users", "roles", "user_roles"}

Running(r) == tx[r].pc \notin {"new", "committed", "failed"}

\* A transaction that starts now overlaps all that are open.
Meet(r) == met' = LET open == {q \in Request : Running(q)}
                  IN  IF open = {} THEN met ELSE met \cup open \cup {r}

-----------------------------------------------------------------------------
(* The repositories of the tables with fresh ids; m is what the call has made. *)

CreateCredential(m) == m \cup {"credentials"}
CreateUser(m) == m \cup {"users"}
CreateTenantOwnerRole(m) == m \cup {"roles"}
AssignRole(m) == m \cup {"user_roles"}

-----------------------------------------------------------------------------
(* The transaction manager *)

\* Faulty variant: a transaction that fails is left open.
RollbackForgotten(r, why) ==
    /\ tx' = [tx EXCEPT ![r].pc = "failed", ![r].why = why]
    /\ UNCHANGED held

\* fn has returned an error, and the deferred Rollback releases the keys.
Rollback(r, why) ==
    /\ tx' = [tx EXCEPT ![r].pc = "failed", ![r].why = why]
    /\ held' = [k \in Key |-> IF held[k] = r THEN None ELSE held[k]]

\* The insert of k goes through: nobody holds k and no row has it.
Insert(r, k) ==
    /\ held[k] = None
    /\ row[k] = None
    /\ held' = [held EXCEPT ![k] = r]

\* The insert of k violates the unique constraint and ends the transaction.
Conflict(r, k, why) ==
    /\ held[k] = None
    /\ row[k] # None
    /\ Rollback(r, why)

\* A call that fails for another reason.
Abort(r) ==
    /\ Faults
    /\ Running(r)
    /\ Rollback(r, "fault")
    /\ UNCHANGED <<row, met>>

-----------------------------------------------------------------------------
Init ==
    /\ row = [k \in Key |-> None]
    /\ held = [k \in Key |-> None]
    /\ tx = [r \in Request |-> NotBegun]
    /\ met = {}

BeginRegister(r, e) ==
    /\ tx[r].pc = "new"
    /\ tx' = [tx EXCEPT ![r].pc = "identity", ![r].email = e]
    /\ Meet(r)
    /\ UNCHANGED <<row, held>>

\* An administrator of the tenant that o registered adds a user.
BeginCreateUser(r, e, o) ==
    /\ tx[r].pc = "new"
    /\ tx[o].pc = "committed" /\ tx[o].owner = None
    /\ tx' = [tx EXCEPT ![r].pc = "identity", ![r].email = e, ![r].owner = o]
    /\ Meet(r)
    /\ UNCHANGED <<row, held>>

\* Faulty variant: the repository uses the pool instead of the transaction.
InsertIdentityOutside(r) ==
    /\ tx[r].pc = "identity"
    /\ \/ /\ held[tx[r].email] = None /\ row[tx[r].email] = None
          /\ row' = [row EXCEPT ![tx[r].email] = r]
          /\ tx' = [tx EXCEPT ![r].pc = IF tx[r].owner = None THEN "slug" ELSE "role",
                              ![r].made = CreateCredential(tx[r].made)]
          /\ UNCHANGED held
       \/ Conflict(r, tx[r].email, "email") /\ UNCHANGED row
    /\ UNCHANGED met

\* identityRepo.Create, and the credential; POST /users goes on with the user.
InsertIdentity(r) ==
    /\ tx[r].pc = "identity"
    /\ \/ /\ Insert(r, tx[r].email)
          /\ IF tx[r].owner = None
             THEN tx' = [tx EXCEPT ![r].pc = "slug", ![r].made = CreateCredential(tx[r].made)]
             ELSE tx' = [tx EXCEPT ![r].pc = "role",
                                   ![r].made = CreateUser(CreateCredential(tx[r].made))]
       \/ Conflict(r, tx[r].email, "email")
    /\ UNCHANGED <<row, met>>

\* tenantRepo.ExistsBySlug; slugs of open transactions are not seen.
ExistsBySlug(s) == row[s] # None

\* Faulty variant: the loop runs once too often.
ProbeSlugOnceMore(r) ==
    /\ tx[r].pc = "slug"
    /\ LET n == tx[r].n
           s == Candidate[tx[r].email][n]
       IN  \/ /\ row[s] = None
              /\ tx' = [tx EXCEPT ![r].pc = "tenant", ![r].slug = s]
              /\ UNCHANGED held
           \/ /\ row[s] # None
              /\ tx' = [tx EXCEPT ![r].n = n + 1]
              /\ UNCHANGED held
    /\ UNCHANGED <<row, met>>

\* Faulty variant: after the last suffix the loop starts again.
ProbeSlugAround(r) ==
    /\ tx[r].pc = "slug"
    /\ LET n == tx[r].n
           s == Candidate[tx[r].email][n]
       IN  \/ /\ ~ExistsBySlug(s)
              /\ tx' = [tx EXCEPT ![r].pc = "tenant", ![r].slug = s]
           \/ /\ ExistsBySlug(s)
              /\ tx' = [tx EXCEPT ![r].n = (n + 1) % (MaxSlugAttempts + 1)]
    /\ UNCHANGED <<row, held, met>>

\* One turn of the loop of GenerateUniqueSlug.
ProbeSlug(r) ==
    /\ tx[r].pc = "slug"
    /\ LET n == tx[r].n
           s == Candidate[tx[r].email][n]
       IN  \/ /\ ~ExistsBySlug(s)
              /\ tx' = [tx EXCEPT ![r].pc = "tenant", ![r].slug = s]
              /\ UNCHANGED held
           \/ /\ ExistsBySlug(s) /\ n < MaxSlugAttempts
              /\ tx' = [tx EXCEPT ![r].n = n + 1]
              /\ UNCHANGED held
           \/ /\ ExistsBySlug(s) /\ n = MaxSlugAttempts
              /\ Rollback(r, "exhausted")
    /\ UNCHANGED <<row, met>>

\* tenantRepo.Create: the insert goes through, then the user and the role.
CreateTenant(r) ==
    /\ Insert(r, tx[r].slug)
    /\ tx' = [tx EXCEPT ![r].pc = "lookup",
                        ![r].made = CreateTenantOwnerRole(CreateUser(tx[r].made))]

\* tenantRepo.Create with the slug chosen before.
InsertTenant(r) ==
    /\ tx[r].pc = "tenant"
    /\ \/ CreateTenant(r)
       \/ Conflict(r, tx[r].slug, "slug")
    /\ UNCHANGED <<row, met>>

\* Faulty variant: the permissions are kept in a map and come in any order.
NextPermOfMap(r, p) == tx[r].perms[p] = None

\* p is the permission the loop of BootstrapTenantOwnerPermissions has reached.
NextPerm(r, p) ==
    /\ tx[r].perms[p] = None
    /\ \A q \in Perm : q < p => tx[r].perms[q] # None

\* Faulty variant: the permission is not looked up first.
LookupPermissionNever(r, p) ==
    /\ tx[r].pc = "lookup"
    /\ NextPerm(r, p)
    /\ tx' = [tx EXCEPT ![r].pc = "create"]
    /\ UNCHANGED <<row, held, met>>

\* GetByName: a committed permission is assigned; any error means "create it".
LookupPermission(r, p) ==
    /\ tx[r].pc = "lookup"
    /\ NextPerm(r, p)
    /\ \/ row[p] # None /\ tx' = [tx EXCEPT ![r].perms[p] = row[p]]
       \/ row[p] = None /\ tx' = [tx EXCEPT ![r].pc = "create"]
    /\ UNCHANGED <<row, held, met>>

\* Faulty variant: a conflict is ignored and the new id is assigned anyway.
CreatePermissionAnyway(r, p) ==
    /\ tx[r].pc = "create"
    /\ NextPerm(r, p)
    /\ held[p] = None
    /\ held' = IF row[p] = None THEN [held EXCEPT ![p] = r] ELSE held
    /\ tx' = [tx EXCEPT ![r].pc = "lookup", ![r].perms[p] = r]
    /\ UNCHANGED <<row, met>>

\* permissionRepo.Create goes through; the row is named by the request.
CreatePermissionRow(r, p) ==
    /\ Insert(r, p)
    /\ tx' = [tx EXCEPT ![r].pc = "lookup", ![r].perms[p] = r]

\* permissionRepo.Create under a new id - named by the request - and the
\* assignment to the role.
CreatePermission(r, p) ==
    /\ tx[r].pc = "create"
    /\ NextPerm(r, p)
    /\ \/ CreatePermissionRow(r, p)
       \/ Conflict(r, p, "perm")
    /\ UNCHANGED <<row, met>>

\* GetByTenantAndName of the role that POST /users names.
LookupRole(r) ==
    /\ tx[r].pc = "role"
    /\ \/ tx' = [tx EXCEPT ![r].pc = "assign"] /\ UNCHANGED held
       \/ Rollback(r, "role")
    /\ UNCHANGED <<row, met>>

\* userRoleRepo.AssignRole and Commit.  The answer of Commit may be lost, and
\* then the handler replies with an error although the account is there.
Commit(r) ==
    /\ \/ tx[r].pc = "assign"
       \/ tx[r].pc = "lookup" /\ \A p \in Perm : tx[r].perms[p] # None
    /\ row' = [k \in Key |-> IF held[k] = r THEN r ELSE row[k]]
    /\ held' = [k \in Key |-> IF held[k] = r THEN None ELSE held[k]]
    /\ \E lost \in {"none"} \cup IF Faults THEN {"fault"} ELSE {} :
         tx' = [tx EXCEPT ![r].pc = "committed", ![r].why = lost,
                          ![r].made = AssignRole(tx[r].made)]
    /\ UNCHANGED met

Step(r) ==
    \/ InsertIdentity(r) \/ ProbeSlug(r) \/ InsertTenant(r)
    \/ \E p \in Perm : LookupPermission(r, p) \/ CreatePermission(r, p)
    \/ LookupRole(r) \/ Commit(r)

Next ==
    \E r \in Request :
        \/ \E e \in Email : \/ BeginRegister(r, e)
                            \/ \E o \in Request : BeginCreateUser(r, e, o)
        \/ Step(r)
        \/ Abort(r)

Spec == Init /\ [][Next]_vars

\* A transaction that has begun goes on until it ends.
FairSpec == Spec /\ \A r \in Request : WF_vars(Step(r))

-----------------------------------------------------------------------------
(* Properties *)

TxType == [pc : {"new", "identity", "slug", "tenant", "lookup", "create", "role",
                 "assign", "committed", "failed"},
           why : {"none", "email", "exhausted", "slug", "perm", "role", "fault"},
           email : Email \cup {None}, slug : Slug \cup {None},
           n : 0..MaxSlugAttempts, owner : Request \cup {None}, made : SUBSET Table,
           perms : [Perm -> Request \cup {None}]]

TypeOK ==
    /\ row \in [Key -> Request \cup {None}]
    /\ held \in [Key -> Request \cup {None}]
    /\ tx \in [Request -> TxType]
    /\ met \subseteq Request

(* What POST /login reads, outside every transaction: committed rows. *)

GetByEmail(e) == {row[e]} \ {None}
Visible(i, t) == tx[i].pc = "committed" /\ t \in tx[i].made
GetCredential(i) == Visible(i, "credentials")
GetByIdentityID(i) == Visible(i, "users")
GetRolesForUser(i) == Visible(i, "user_roles")

\* What the handlers answer.
Response(r) ==
    IF tx[r].why = "none" THEN "created"
    ELSE IF tx[r].why = "email" THEN "conflict" ELSE "internal error"

\* A row is there exactly if the call that inserted it has committed.
RowsCommitted ==
    /\ \A k \in Key : row[k] # None => tx[row[k]].pc = "committed"
    /\ \A r \in Request : tx[r].pc = "committed" =>
         /\ row[tx[r].email] = r
         /\ tx[r].owner = None => tx[r].slug \in Slug /\ row[tx[r].slug] = r

\* No call leaves a part of an account behind, wherever it fails, and whoever
\* can be found by email has a password, a user and a role to sign in with
\* (tx.go:29-47, login.go:90-142).
AllOrNothing ==
    /\ RowsCommitted
    /\ \A e \in Email : \A i \in GetByEmail(e) :
         GetCredential(i) /\ GetByIdentityID(i) /\ GetRolesForUser(i)

\* The owner role of every tenant has every owner permission, by the id under
\* which the permission was committed, whichever of several overlapping first
\* registrations created it (permission_bootstrap.go:52-90).
OwnersHaveAllPermissions ==
    \A r \in Request : tx[r].pc = "committed" /\ tx[r].owner = None =>
        \A p \in Perm : row[p] # None /\ tx[r].perms[p] = row[p]

Cause(r) ==
    /\ Response(r) = "conflict" => GetByEmail(tx[r].email) # {}
    /\ tx[r].why = "exhausted" =>
         \A n \in 0..MaxSlugAttempts : row[Candidate[tx[r].email][n]] # None
    /\ tx[r].why \in {"slug", "perm"} => r \in met

\* "email already registered" is only said of an email that is, also to a
\* caller who tries again after an answer was lost, and a call that overlaps
\* no other only fails for what the caller can see: the email is taken, the
\* slugs are used up, the role does not exist, or a call to the database
\* failed.  The lookups before the inserts are otherwise good enough
\* (handler.go:65-74, slug_service.go:25-45, permission_bootstrap.go:54-77).
FailuresHaveCause == \A r \in Request : tx[r].pc = "failed" => Cause(r)

\* The key that r is about to insert.
Wants(r, k) ==
    \/ tx[r].pc = "identity" /\ k = tx[r].email
    \/ tx[r].pc = "tenant" /\ k = tx[r].slug
    \/ tx[r].pc = "create" /\ k \in Perm /\ NextPerm(r, k)

Waits(r, q) == q # r /\ \E k \in Key : Wants(r, k) /\ held[k] = q

\* Calls that wait for each other's keys never wait in a circle, so that
\* Postgres need not break one by failing a call: every set of calls has one
\* that waits for none of the set (register.go:92-179).
NoWaitCycle ==
    \A S \in SUBSET Request : S # {} => \E r \in S : \A q \in S : ~Waits(r, q)

\* The place of a key in the order in which a call takes its keys.
Rank(k) == IF k \in Email THEN 0 ELSE IF k \in Slug THEN 1 ELSE k + 1

\* What the phases of a call mean, and which keys are its own.
PhaseInv ==
    \A r \in Request :
        /\ tx[r].pc # "new" => tx[r].email \in Email
        /\ tx[r].pc \in {"new", "identity"} => tx[r].n = 0
        /\ tx[r].pc \in {"slug", "tenant", "lookup", "create"} => tx[r].owner = None
        /\ tx[r].pc \in {"role", "assign"} => tx[r].owner # None
        /\ tx[r].pc \in {"tenant", "lookup", "create"} => tx[r].slug \in Slug
        /\ tx[r].pc \in {"new", "identity", "slug", "tenant", "role", "assign"} =>
             \A p \in Perm : tx[r].perms[p] = None
        /\ \A p, q \in Perm : q < p /\ tx[r].perms[p] # None => tx[r].perms[q] # None

\* The tables that a call of owner o has a row in when it has come to pc.
Filled(pc, o) ==
    CASE pc \in {"new", "identity"} -> {}
      [] pc \in {"slug", "tenant"} -> {"credentials"}
      [] pc \in {"lookup", "create"} -> {"credentials", "users", "roles"}
      [] pc \in {"role", "assign"} -> {"credentials", "users"}
      [] pc = "committed" -> IF o = None THEN Table ELSE Table \ {"roles"}

\* What a call has made is what its progress says.
MadeInv ==
    \A r \in Request : tx[r].pc # "failed" => tx[r].made = Filled(tx[r].pc, tx[r].owner)

\* r holds key k.
Owns(r, k) ==
    \/ k = tx[r].email /\ tx[r].pc \in {"slug", "tenant", "lookup", "create", "role", "assign"}
    \/ k = tx[r].slug /\ tx[r].pc \in {"lookup", "create"}
    \/ k \in Perm /\ tx[r].pc \in {"lookup", "create"} /\ tx[r].perms[k] = r

\* A key is held by just the call that has inserted it, until that call ends,
\* and never beside a committed row.
HeldInv ==
    \A k \in Key, r \in Request :
        /\ held[k] = r <=> Owns(r, k)
        /\ held[k] = r => row[k] = None

\* A call that refers to a permission it did not create refers to a row that
\* has been committed.
AssignedInv ==
    \A r \in Request, p \in Perm :
        Running(r) /\ tx[r].perms[p] \notin {None, r} => row[p] = tx[r].perms[p]

\* What was looked up holds until something else commits.
FreshInv ==
    /\ \A r, q \in Request : r # q /\ Running(r) /\ Running(q) => r \in met
    /\ \A r \in Request : r \notin met =>
         /\ tx[r].pc = "tenant" => row[tx[r].slug] = None
         /\ tx[r].pc = "create" => \A p \in Perm : NextPerm(r, p) => row[p] = None
    /\ \A r \in Request : tx[r].pc = "slug" =>
         \A n \in 0..MaxSlugAttempts :
            n < tx[r].n => row[Candidate[tx[r].email][n]] # None

\* The inductive invariant: the keys a call has inserted are the keys its
\* progress says it has, and they stay out of everybody's sight until it
\* commits (register.go:80-199, tx.go:29-47).
RegistrationInv == PhaseInv /\ MadeInv /\ HeldInv /\ AssignedInv /\ FreshInv

\* A user is only ever added to a tenant whose registration has committed.
TenantInv ==
    \A r \in Request : tx[r].owner # None =>
        tx[tx[r].owner].pc = "committed" /\ tx[tx[r].owner].owner = None

\* A permission is only created when there is one that is missing.
CreateInv ==
    \A r \in Request : tx[r].pc = "create" => \E p \in Perm : tx[r].perms[p] = None

\* The tenant of r's account.
TenantOf(r) == IF tx[r].owner = None THEN tx[r].slug ELSE tx[tx[r].owner].slug

\* The accounts that others can see.
AccountOf(r) ==
    IF tx[r].pc = "committed"
    THEN [email |-> tx[r].email, tenant |-> TenantOf(r), tables |-> tx[r].made,
          grants |-> tx[r].perms]
    ELSE [email |-> None, tenant |-> None, tables |-> {}, grants |-> [p \in Perm |-> None]]
AccountsSeen == [r \in Request |-> AccountOf(r)]

\* However registrations and user creations overlap, wait for each other, fail
\* and lose answers, what everybody else sees is accounts that appear whole and
\* one at a time: under an email and a slug that nobody had, for an owner with
\* all its permissions, for a user in a tenant that is there - or nothing at all
\* (register.go:74-201, create_user.go, tx.go:29-47).
Visibly == INSTANCE Accounts WITH
    Account <- Request,
    account <- AccountsSeen
RefinesAccounts == Visibly!Spec

\* How many calls to the database r has still to make at most.
Unassigned(r) == {p \in Perm : tx[r].perms[p] = None}
CallsLeft(r) ==
    CASE tx[r].pc = "identity" -> MaxSlugAttempts + 2 * NPerm + 4
      [] tx[r].pc = "slug" -> (MaxSlugAttempts - tx[r].n) + 2 * NPerm + 3
      [] tx[r].pc = "tenant" -> 2 * NPerm + 2
      [] tx[r].pc = "lookup" -> 2 * Cardinality(Unassigned(r)) + 1
      [] tx[r].pc = "create" -> 2 * Cardinality(Unassigned(r))
      [] tx[r].pc = "role" -> 2
      [] tx[r].pc = "assign" -> 1
      [] OTHER -> 0

\* Whatever others do, every step of a call brings it nearer to its end, and
\* nobody else's step takes it back: no lookup is repeated because another call
\* got in between, and the loops over slugs and permissions are bounded by
\* their lists (slug_service.go:25-45, permission_bootstrap.go:52-90).
CallsRunOut ==
    [][\A r \in Request : Running(r) =>
         tx'[r] = tx[r] \/ CallsLeft(r)' < CallsLeft(r)]_vars

\* As long as calls are under way, one of them can make its next call without
\* waiting for a key (register.go:92-179).
SomeCallGoesOn ==
    (\E r \in Request : Running(r)) =>
        \E r \in Request : Running(r) /\ \A k \in Key : Wants(r, k) => held[k] = None

\* Every call ends, however the others wait and fail.
EveryCallEnds == \A r \in Request : Running(r) ~> ~Running(r)

\* The inductive invariant with the types it needs: a transaction holds the keys
\* its progress says, and what it looked up alone still holds (register.go:74-201).
IInv == TypeOK /\ RegistrationInv /\ TenantInv /\ CreateInv

=============================================================================
