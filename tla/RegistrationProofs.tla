------------------------- MODULE RegistrationProofs -------------------------
(***************************************************************************)
(* Proofs about Registration, for any number of concurrent calls, emails,  *)
(* slugs and permissions.                                                  *)
(***************************************************************************)
EXTENDS Registration, TLAPS, WellFoundedInduction, FiniteSetTheorems

Inv == /\ TypeOK /\ RegistrationInv
       /\ RowsCommitted /\ OwnersHaveAllPermissions /\ FailuresHaveCause

\* The fields of a transaction record have their types.
LEMMA Fields ==
    ASSUME TypeOK, NEW r \in Request
    PROVE  /\ tx[r] \in TxType
           /\ tx[r].email \in Email \cup {None} /\ tx[r].slug \in Slug \cup {None}
           /\ tx[r].n \in 0..MaxSlugAttempts /\ tx[r].owner \in Request \cup {None}
           /\ tx[r].perms \in [Perm -> Request \cup {None}]
           /\ \A p \in Perm : tx[r].perms[p] \in Request \cup {None}
  BY DEF TypeOK, TxType

\* Nothing has begun.
LEMMA InitInv == Init => Inv
<1> SUFFICES ASSUME Init PROVE Inv
  OBVIOUS
<1> USE RegistrationAssumption
<1>0. NotBegun \in TxType
  <2>1. [p \in Perm |-> None] \in [Perm -> Request \cup {None}]
    OBVIOUS
  <2>2. 0 \in 0..MaxSlugAttempts
    OBVIOUS
  <2> QED BY <2>1, <2>2 DEF NotBegun, TxType
<1>1. TypeOK
  BY <1>0 DEF Init, TypeOK
<1>2. \A r \in Request :
        /\ tx[r].pc = "new" /\ tx[r].owner = None /\ tx[r].n = 0 /\ tx[r].made = {}
        /\ \A p \in Perm : tx[r].perms[p] = None
  BY DEF Init, NotBegun
<1>3. /\ \A k \in Key : row[k] = None /\ held[k] = None
  BY DEF Init
<1>4. PhaseInv
  BY <1>2 DEF PhaseInv
<1>4a. MadeInv
  BY <1>2 DEF MadeInv, Filled
<1>5. HeldInv
  BY <1>2, <1>3 DEF HeldInv, Owns
<1>6. AssignedInv
  BY <1>2 DEF AssignedInv, Running
<1>7. FreshInv
  BY <1>2 DEF FreshInv, Running
<1>8. RowsCommitted /\ OwnersHaveAllPermissions /\ FailuresHaveCause
  BY <1>2, <1>3 DEF RowsCommitted, OwnersHaveAllPermissions, FailuresHaveCause
<1> QED BY <1>1, <1>4, <1>4a, <1>5, <1>6, <1>7, <1>8 DEF Inv, RegistrationInv

-----------------------------------------------------------------------------
\* A step of an unfinished call that commits nothing keeps what is durable.
LEMMA DurableKept ==
    ASSUME Inv, NEW r \in Request, row' = row, met \subseteq met',
           \A q \in Request \ {r} : tx'[q] = tx[q],
           tx[r].pc \notin {"committed", "failed"}, tx'[r].pc # "committed",
           tx'[r].pc = "failed" => Cause(r)'
    PROVE  RowsCommitted' /\ OwnersHaveAllPermissions' /\ FailuresHaveCause'
<1>1. \A k \in Key : row[k] \in Request \cup {None}
  BY DEF Inv, TypeOK
<1>2. RowsCommitted'
  BY <1>1 DEF Inv, RowsCommitted
<1>3. OwnersHaveAllPermissions'
  BY DEF Inv, OwnersHaveAllPermissions
<1>4. ASSUME NEW q \in Request, tx'[q].pc = "failed" PROVE Cause(q)'
  <2>1. CASE q = r
    BY <1>4, <2>1
  <2>2. CASE q # r
    <3>1. tx'[q] = tx[q] /\ Cause(q)
      BY <1>4, <2>2 DEF Inv, FailuresHaveCause
    <3> QED BY <3>1 DEF Cause, Response, GetByEmail
  <2> QED BY <2>1, <2>2
<1> QED BY <1>2, <1>3, <1>4 DEF FailuresHaveCause

\* A call that fails gives up its keys.
LEMMA RollbackStep ==
    ASSUME Inv, NEW r \in Request, Running(r), UNCHANGED <<row, met>>,
           NEW why \in {"email", "exhausted", "slug", "perm", "role", "fault"},
           Rollback(r, why),
           why = "email" => row[tx[r].email] # None,
           why = "exhausted" =>
             \A n \in 0..MaxSlugAttempts : row[Candidate[tx[r].email][n]] # None,
           why \in {"slug", "perm"} => r \in met
    PROVE  Inv'
<1> USE RegistrationAssumption
<1>0. TypeOK
  BY DEF Inv
<1>1. /\ tx' \in [Request -> TxType]
      /\ tx'[r].pc = "failed" /\ tx'[r].why = why /\ tx'[r].email = tx[r].email
      /\ tx'[r].perms = tx[r].perms
      /\ \A q \in Request \ {r} : tx'[q] = tx[q]
  <2>1. tx[r] \in TxType /\ tx \in [Request -> TxType]
    BY <1>0 DEF TypeOK
  <2> DEFINE t == [tx[r] EXCEPT !.pc = "failed", !.why = why]
  <2>2. tx' = [tx EXCEPT ![r] = t]
    BY <2>1 DEF Rollback
  <2>3. t \in TxType /\ t.pc = "failed" /\ t.why = why /\ t.email = tx[r].email
        /\ t.perms = tx[r].perms
    BY <2>1 DEF TxType
  <2> HIDE DEF t
  <2> QED BY <2>1, <2>2, <2>3
<1>2. /\ held' \in [Key -> Request \cup {None}]
      /\ \A k \in Key : held'[k] = IF held[k] = r THEN None ELSE held[k]
  BY <1>0 DEF Rollback, TypeOK
<1>3. TypeOK'
  BY <1>0, <1>1, <1>2 DEF TypeOK
<1>4. PhaseInv'
  BY <1>1 DEF Inv, RegistrationInv, PhaseInv, Running
<1>4a. MadeInv'
  BY <1>1 DEF Inv, RegistrationInv, MadeInv
<1>5. HeldInv'
  BY <1>1, <1>2 DEF Inv, RegistrationInv, HeldInv, Owns
<1>6. AssignedInv'
  BY <1>1 DEF Inv, RegistrationInv, AssignedInv, Running
<1>7. FreshInv'
  BY <1>1 DEF Inv, RegistrationInv, FreshInv, Running, NextPerm
<1>8. Cause(r)'
  BY <1>1 DEF Cause, Response, GetByEmail
<1>9. RowsCommitted' /\ OwnersHaveAllPermissions' /\ FailuresHaveCause'
  BY <1>1, <1>8, DurableKept DEF Running
<1> QED BY <1>3, <1>4, <1>4a, <1>5, <1>6, <1>7, <1>9 DEF Inv, RegistrationInv

\* A call begins.
LEMMA BeginStep ==
    ASSUME Inv, NEW r \in Request, NEW e \in Email, NEW o \in Request \cup {None},
           tx[r].pc = "new", Meet(r), UNCHANGED <<row, held>>,
           tx' \in [Request -> TxType],
           tx'[r].pc = "identity", tx'[r].email = e,
           tx'[r].perms = tx[r].perms, tx'[r].n = tx[r].n, tx'[r].made = tx[r].made,
           \A q \in Request \ {r} : tx'[q] = tx[q]
    PROVE  Inv'
<1> USE RegistrationAssumption
<1>0. TypeOK
  BY DEF Inv
<1>1. /\ met \subseteq met' /\ met' \subseteq Request
      /\ \A q \in Request : q # r /\ Running(q) => q \in met' /\ r \in met'
  BY <1>0 DEF Meet, TypeOK
<1>2. TypeOK'
  BY <1>0, <1>1 DEF TypeOK
<1>3. PhaseInv'
  <2>1. tx[r].n = 0 /\ \A p \in Perm : tx[r].perms[p] = None
    BY DEF Inv, RegistrationInv, PhaseInv
  <2> QED BY <2>1 DEF Inv, RegistrationInv, PhaseInv
<1>3a. MadeInv'
  <2>1. tx'[r].made = Filled("identity", tx'[r].owner)
    BY DEF Inv, RegistrationInv, MadeInv, Filled
  <2> QED BY <2>1 DEF Inv, RegistrationInv, MadeInv
<1>4. HeldInv'
  BY DEF Inv, RegistrationInv, HeldInv, Owns
<1>5. AssignedInv'
  <2>1. \A p \in Perm : tx'[r].perms[p] = None
    BY DEF Inv, RegistrationInv, PhaseInv
  <2> QED BY <2>1 DEF Inv, RegistrationInv, AssignedInv, Running
<1>6. FreshInv'
  <2>1. \A q, u \in Request : q # u /\ Running(q)' /\ Running(u)' => q \in met'
    BY <1>1 DEF Inv, RegistrationInv, FreshInv, Running
  <2>2. \A q \in Request : q \notin met' =>
           /\ tx'[q].pc = "tenant" => row[tx'[q].slug] = None
           /\ tx'[q].pc = "create" => \A p \in Perm : NextPerm(q, p)' => row[p] = None
    <3>1. \A q \in Request \ {r}, p \in Perm : NextPerm(q, p)' => NextPerm(q, p)
      BY DEF NextPerm
    <3> QED BY <1>1, <3>1 DEF Inv, RegistrationInv, FreshInv
  <2>3. \A q \in Request : tx'[q].pc = "slug" =>
           \A n \in 0..MaxSlugAttempts :
              n < tx'[q].n => row[Candidate[tx'[q].email][n]] # None
    BY DEF Inv, RegistrationInv, FreshInv
  <2> QED BY <2>1, <2>2, <2>3 DEF FreshInv
<1>7. RowsCommitted' /\ OwnersHaveAllPermissions' /\ FailuresHaveCause'
  BY <1>1, DurableKept
<1> QED BY <1>2, <1>3, <1>3a, <1>4, <1>5, <1>6, <1>7 DEF Inv, RegistrationInv

\* A call takes key k: nobody else has it, and it moves on to pc.
LEMMA InsertStep ==
    ASSUME Inv, NEW r \in Request, NEW k \in Key, Insert(r, k), UNCHANGED <<row, met>>,
           Running(r), Running(r)', tx' \in [Request -> TxType],
           \A q \in Request \ {r} : tx'[q] = tx[q],
           \A l \in Key : Owns(r, l)' <=> Owns(r, l) \/ l = k,
           PhaseInv', MadeInv', AssignedInv',
           tx'[r].pc \notin {"tenant", "create"},
           tx'[r].pc = "slug" => tx'[r].n = 0
    PROVE  Inv'
<1> USE RegistrationAssumption
<1>0. TypeOK
  BY DEF Inv
<1>1. /\ held' \in [Key -> Request \cup {None}]
      /\ held'[k] = r /\ \A l \in Key \ {k} : held'[l] = held[l]
  BY <1>0 DEF Insert, TypeOK
<1>2. TypeOK'
  BY <1>0, <1>1 DEF TypeOK
<1>3. HeldInv'
  <2>1. \A q \in Request \ {r}, l \in Key : Owns(q, l)' <=> Owns(q, l)
    BY DEF Owns
  <2>2. row[k] = None /\ \A q \in Request : ~Owns(q, k)
    BY DEF Inv, RegistrationInv, HeldInv, Insert
  <2> QED BY <1>1, <2>1, <2>2 DEF Inv, RegistrationInv, HeldInv
<1>4. FreshInv'
  <2>1. FreshInv
    BY DEF Inv, RegistrationInv
  <2>2. \A q \in Request : Running(q)' <=> Running(q)
    BY DEF Running
  <2>3. \A x, q \in Request : x # q /\ Running(x)' /\ Running(q)' => x \in met'
    BY <2>1, <2>2 DEF FreshInv
  <2>4. \A q \in Request \ {r}, p \in Perm : NextPerm(q, p)' <=> NextPerm(q, p)
    BY DEF NextPerm
  <2>5. ASSUME NEW q \in Request, q \notin met'
        PROVE  /\ tx'[q].pc = "tenant" => row'[tx'[q].slug] = None
               /\ tx'[q].pc = "create" => \A p \in Perm : NextPerm(q, p)' => row'[p] = None
    <3>1. CASE q = r
      BY <3>1
    <3>2. CASE q # r
      <4>1. tx'[q] = tx[q] /\ q \notin met
        BY <2>5, <3>2
      <4> QED BY <2>1, <2>4, <3>2, <4>1 DEF FreshInv
    <3> QED BY <3>1, <3>2
  <2>6. ASSUME NEW q \in Request, tx'[q].pc = "slug", NEW n \in 0..MaxSlugAttempts,
               n < tx'[q].n
        PROVE  row'[Candidate[tx'[q].email][n]] # None
    <3>1. CASE q = r
      BY <2>6, <3>1
    <3>2. CASE q # r
      <4>1. tx'[q] = tx[q]
        BY <3>2
      <4> QED BY <2>1, <2>6, <4>1 DEF FreshInv
    <3> QED BY <3>1, <3>2
  <2> QED BY <2>3, <2>5, <2>6 DEF FreshInv
<1>5. RowsCommitted' /\ OwnersHaveAllPermissions' /\ FailuresHaveCause'
  BY DurableKept DEF Running
<1> QED BY <1>2, <1>3, <1>4, <1>5 DEF Inv, RegistrationInv

\* A call moves on and neither takes nor gives up a key.
LEMMA MoveStep ==
    ASSUME Inv, NEW r \in Request, UNCHANGED <<row, held, met>>,
           Running(r), Running(r)', tx' \in [Request -> TxType],
           \A q \in Request \ {r} : tx'[q] = tx[q],
           \A l \in Key : Owns(r, l)' <=> Owns(r, l),
           PhaseInv', MadeInv', AssignedInv',
           tx'[r].pc = "tenant" => row[tx'[r].slug] = None,
           tx'[r].pc = "create" => \A p \in Perm : NextPerm(r, p)' => row[p] = None,
           tx'[r].pc = "slug" =>
             \A n \in 0..MaxSlugAttempts :
                n < tx'[r].n => row[Candidate[tx'[r].email][n]] # None
    PROVE  Inv'
<1> USE RegistrationAssumption
<1>0. TypeOK
  BY DEF Inv
<1>1. TypeOK'
  BY <1>0 DEF TypeOK
<1>2. HeldInv'
  <2>1. \A q \in Request \ {r}, l \in Key : Owns(q, l)' <=> Owns(q, l)
    BY DEF Owns
  <2> QED BY <2>1 DEF Inv, RegistrationInv, HeldInv
<1>3. FreshInv'
  <2>1. FreshInv
    BY DEF Inv, RegistrationInv
  <2>2. \A q \in Request : Running(q)' <=> Running(q)
    BY DEF Running
  <2>3. \A x, q \in Request : x # q /\ Running(x)' /\ Running(q)' => x \in met'
    BY <2>1, <2>2 DEF FreshInv
  <2>4. \A q \in Request \ {r}, p \in Perm : NextPerm(q, p)' <=> NextPerm(q, p)
    BY DEF NextPerm
  <2>5. ASSUME NEW q \in Request, q \notin met'
        PROVE  /\ tx'[q].pc = "tenant" => row'[tx'[q].slug] = None
               /\ tx'[q].pc = "create" => \A p \in Perm : NextPerm(q, p)' => row'[p] = None
    <3>1. CASE q = r
      BY <3>1
    <3>2. CASE q # r
      <4>1. tx'[q] = tx[q] /\ q \notin met
        BY <2>5, <3>2
      <4> QED BY <2>1, <2>4, <3>2, <4>1 DEF FreshInv
    <3> QED BY <3>1, <3>2
  <2>6. ASSUME NEW q \in Request, tx'[q].pc = "slug", NEW n \in 0..MaxSlugAttempts,
               n < tx'[q].n
        PROVE  row'[Candidate[tx'[q].email][n]] # None
    <3>1. CASE q = r
      BY <2>6, <3>1
    <3>2. CASE q # r
      <4>1. tx'[q] = tx[q]
        BY <3>2
      <4> QED BY <2>1, <2>6, <4>1 DEF FreshInv
    <3> QED BY <3>1, <3>2
  <2> QED BY <2>3, <2>5, <2>6 DEF FreshInv
<1>4. RowsCommitted' /\ OwnersHaveAllPermissions' /\ FailuresHaveCause'
  BY DurableKept DEF Running
<1> QED BY <1>1, <1>2, <1>3, <1>4 DEF Inv, RegistrationInv

-----------------------------------------------------------------------------
\* A registration begins (register.go:74-90).
LEMMA BeginRegisterStep ==
    ASSUME Inv, NEW r \in Request, NEW e \in Email, BeginRegister(r, e)
    PROVE  Inv'
<1>1. tx[r] \in TxType /\ tx \in [Request -> TxType]
  BY DEF Inv, TypeOK
<1> DEFINE t == [tx[r] EXCEPT !.pc = "identity", !.email = e]
<1>2. tx' = [tx EXCEPT ![r] = t]
  BY <1>1 DEF BeginRegister
<1>3. /\ t \in TxType /\ t.pc = "identity" /\ t.email = e
      /\ t.perms = tx[r].perms /\ t.n = tx[r].n /\ t.made = tx[r].made
  BY <1>1 DEF TxType
<1> HIDE DEF t
<1>4. /\ tx' \in [Request -> TxType] /\ tx'[r] = t
      /\ \A q \in Request \ {r} : tx'[q] = tx[q]
  BY <1>1, <1>2, <1>3
<1> QED BY <1>3, <1>4, BeginStep DEF BeginRegister

\* A POST /users begins (create_user.go:57-77).
LEMMA BeginCreateUserStep ==
    ASSUME Inv, NEW r \in Request, NEW e \in Email, NEW o \in Request,
           BeginCreateUser(r, e, o)
    PROVE  Inv'
<1>1. tx[r] \in TxType /\ tx \in [Request -> TxType]
  BY DEF Inv, TypeOK
<1> DEFINE t == [tx[r] EXCEPT !.pc = "identity", !.email = e, !.owner = o]
<1>2. tx' = [tx EXCEPT ![r] = t]
  BY <1>1 DEF BeginCreateUser
<1>3. /\ t \in TxType /\ t.pc = "identity" /\ t.email = e
      /\ t.perms = tx[r].perms /\ t.n = tx[r].n /\ t.made = tx[r].made
  BY <1>1 DEF TxType
<1> HIDE DEF t
<1>4. /\ tx' \in [Request -> TxType] /\ tx'[r] = t
      /\ \A q \in Request \ {r} : tx'[q] = tx[q]
  BY <1>1, <1>2, <1>3
<1> QED BY <1>3, <1>4, BeginStep DEF BeginCreateUser

\* The identity is inserted, or its email is taken (register.go:92-116).
LEMMA InsertIdentityStep ==
    ASSUME Inv, NEW r \in Request, InsertIdentity(r)
    PROVE  Inv'
<1>1. tx[r] \in TxType /\ tx \in [Request -> TxType]
  BY DEF Inv, TypeOK
<1>2. /\ tx[r].pc = "identity" /\ Running(r) /\ tx[r].email \in Email
      /\ tx[r].n = 0 /\ \A p \in Perm : tx[r].perms[p] = None
  BY DEF InsertIdentity, Inv, RegistrationInv, PhaseInv, Running
<1>3. CASE /\ Insert(r, tx[r].email)
           /\ IF tx[r].owner = None
              THEN tx' = [tx EXCEPT ![r].pc = "slug", ![r].made = CreateCredential(tx[r].made)]
              ELSE tx' = [tx EXCEPT ![r].pc = "role",
                                    ![r].made = CreateUser(CreateCredential(tx[r].made))]
  <2> DEFINE pc == IF tx[r].owner = None THEN "slug" ELSE "role"
             m == IF tx[r].owner = None THEN {"credentials"} ELSE {"credentials", "users"}
             t == [tx[r] EXCEPT !.pc = pc, !.made = m]
  <2>a. tx[r].made = {}
    BY <1>2 DEF Inv, RegistrationInv, MadeInv, Filled
  <2>c. m = Filled(pc, tx[r].owner)
    BY DEF Filled
  <2>1. tx' = [tx EXCEPT ![r] = t]
    <3>1. CASE tx[r].owner = None
      <4>1. CreateCredential(tx[r].made) = m
        BY <2>a, <3>1 DEF CreateCredential
      <4> HIDE DEF m
      <4> QED BY <1>1, <1>3, <3>1, <4>1
    <3>2. CASE tx[r].owner # None
      <4>1. CreateUser(CreateCredential(tx[r].made)) = m
        BY <2>a, <3>2 DEF CreateCredential, CreateUser
      <4> HIDE DEF m
      <4> QED BY <1>1, <1>3, <3>2, <4>1
    <3> QED BY <3>1, <3>2
  <2>b. m \in SUBSET Table /\ pc \in {"slug", "role"}
    BY DEF Table
  <2>2. /\ t \in TxType /\ t.pc = pc /\ t.made = m
        /\ t.email = tx[r].email /\ t.perms = tx[r].perms /\ t.n = tx[r].n
        /\ t.owner = tx[r].owner /\ t.slug = tx[r].slug
    <3> HIDE DEF m, pc
    <3> QED BY <1>1, <2>b DEF TxType
  <2> HIDE DEF t, m
  <2>3. /\ tx' \in [Request -> TxType] /\ tx'[r] = t
        /\ \A q \in Request \ {r} : tx'[q] = tx[q]
    BY <1>1, <2>1, <2>2
  <2>4. PhaseInv'
    BY <1>2, <2>2, <2>3 DEF Inv, RegistrationInv, PhaseInv
  <2>m. MadeInv'
    BY <2>c, <2>2, <2>3 DEF Inv, RegistrationInv, MadeInv
  <2>5. AssignedInv'
    BY <1>2, <2>2, <2>3 DEF Inv, RegistrationInv, AssignedInv, Running, InsertIdentity
  <2>6. \A l \in Key : Owns(r, l)' <=> Owns(r, l) \/ l = tx[r].email
    BY <1>2, <2>2, <2>3 DEF Owns
  <2>7. Running(r)' /\ tx'[r].pc \in {"slug", "role"} /\ tx'[r].n = 0
    BY <1>2, <2>2, <2>3 DEF Running
  <2>8. tx[r].email \in Key
    BY <1>2 DEF Key
  <2> QED BY <1>2, <1>3, <2>3, <2>4, <2>m, <2>5, <2>6, <2>7, <2>8, InsertStep DEF InsertIdentity
<1>4. CASE Conflict(r, tx[r].email, "email")
  BY <1>2, <1>4, RollbackStep DEF InsertIdentity, Conflict
<1> QED BY <1>3, <1>4 DEF InsertIdentity

\* A slug is free, the next one is tried, or they are used up
\* (slug_service.go:20-48).
LEMMA ProbeSlugStep ==
    ASSUME Inv, NEW r \in Request, ProbeSlug(r)
    PROVE  Inv'
<1> USE RegistrationAssumption
<1>1. tx[r] \in TxType /\ tx \in [Request -> TxType]
  BY DEF Inv, TypeOK
<1>2. /\ tx[r].pc = "slug" /\ Running(r) /\ tx[r].email \in Email
      /\ tx[r].owner = None /\ \A p \in Perm : tx[r].perms[p] = None
  BY DEF ProbeSlug, ExistsBySlug, Inv, RegistrationInv, PhaseInv, Running
<1> DEFINE n == tx[r].n
           s == Candidate[tx[r].email][n]
<1>3. n \in 0..MaxSlugAttempts /\ s \in Slug
  BY <1>1, <1>2 DEF TxType
<1>4. CASE /\ row[s] = None
           /\ tx' = [tx EXCEPT ![r].pc = "tenant", ![r].slug = s]
           /\ UNCHANGED held
  <2> DEFINE t == [tx[r] EXCEPT !.pc = "tenant", !.slug = s]
  <2>1. tx' = [tx EXCEPT ![r] = t]
    BY <1>1, <1>4
  <2>2. /\ t \in TxType /\ t.pc = "tenant"
        /\ t.email = tx[r].email /\ t.perms = tx[r].perms /\ t.n = tx[r].n
        /\ t.owner = tx[r].owner /\ t.slug = s /\ t.made = tx[r].made
    BY <1>1, <1>3 DEF TxType
  <2> HIDE DEF t, s, n
  <2>3. /\ tx' \in [Request -> TxType] /\ tx'[r] = t
        /\ \A q \in Request \ {r} : tx'[q] = tx[q]
    BY <1>1, <2>1, <2>2
  <2>4. PhaseInv'
    BY <1>2, <1>3, <2>2, <2>3 DEF Inv, RegistrationInv, PhaseInv
  <2>m. MadeInv'
    <3>1. Filled(t.pc, t.owner) = Filled(tx[r].pc, tx[r].owner)
      BY <1>2, <2>2 DEF Filled
    <3> QED BY <1>2, <2>2, <2>3, <3>1 DEF Inv, RegistrationInv, MadeInv
  <2>5. AssignedInv'
    BY <1>2, <2>2, <2>3 DEF Inv, RegistrationInv, AssignedInv, Running, ProbeSlug, ExistsBySlug
  <2>6. \A l \in Key : Owns(r, l)' <=> Owns(r, l)
    BY <1>2, <2>2, <2>3 DEF Owns
  <2>7. Running(r)' /\ tx'[r].pc = "tenant" /\ row[tx'[r].slug] = None
    BY <1>4, <2>2, <2>3 DEF Running
  <2> QED BY <1>2, <1>4, <2>3, <2>4, <2>m, <2>5, <2>6, <2>7, MoveStep DEF ProbeSlug, ExistsBySlug
<1>5. CASE /\ row[s] # None /\ n < MaxSlugAttempts
           /\ tx' = [tx EXCEPT ![r].n = n + 1]
           /\ UNCHANGED held
  <2> DEFINE t == [tx[r] EXCEPT !.n = n + 1]
  <2>1. tx' = [tx EXCEPT ![r] = t]
    BY <1>1, <1>5
  <2>a. n + 1 \in 0..MaxSlugAttempts
    BY <1>3, <1>5
  <2>2. /\ t \in TxType /\ t.pc = "slug"
        /\ t.email = tx[r].email /\ t.perms = tx[r].perms /\ t.n = n + 1
        /\ t.owner = tx[r].owner /\ t.slug = tx[r].slug /\ t.made = tx[r].made
    BY <1>1, <1>2, <2>a DEF TxType
  <2> HIDE DEF t
  <2>3. /\ tx' \in [Request -> TxType] /\ tx'[r] = t
        /\ \A q \in Request \ {r} : tx'[q] = tx[q]
    BY <1>1, <2>1, <2>2
  <2>4. PhaseInv'
    BY <1>2, <2>2, <2>3 DEF Inv, RegistrationInv, PhaseInv
  <2>m. MadeInv'
    <3>1. Filled(t.pc, t.owner) = Filled(tx[r].pc, tx[r].owner)
      BY <1>2, <2>2 DEF Filled
    <3> QED BY <1>2, <2>2, <2>3, <3>1 DEF Inv, RegistrationInv, MadeInv
  <2>5. AssignedInv'
    BY <1>2, <2>2, <2>3 DEF Inv, RegistrationInv, AssignedInv, Running, ProbeSlug, ExistsBySlug
  <2>6. \A l \in Key : Owns(r, l)' <=> Owns(r, l)
    BY <1>2, <2>2, <2>3 DEF Owns
  <2>7. Running(r)' /\ tx'[r].pc = "slug"
    BY <2>2, <2>3 DEF Running
  <2>8. ASSUME NEW i \in 0..MaxSlugAttempts, i < tx'[r].n
        PROVE  row[Candidate[tx'[r].email][i]] # None
    <3>1. i < n \/ i = n
      BY <1>3, <2>2, <2>3, <2>8
    <3>2. \A j \in 0..MaxSlugAttempts : j < n => row[Candidate[tx[r].email][j]] # None
      BY <1>2 DEF Inv, RegistrationInv, FreshInv
    <3> QED BY <1>5, <2>2, <2>3, <3>1, <3>2
  <2> QED BY <1>2, <1>5, <2>3, <2>4, <2>m, <2>5, <2>6, <2>7, <2>8, MoveStep DEF ProbeSlug, ExistsBySlug
<1>6. CASE /\ row[s] # None /\ n = MaxSlugAttempts
           /\ Rollback(r, "exhausted")
  <2>1. \A i \in 0..MaxSlugAttempts : row[Candidate[tx[r].email][i]] # None
    <3>1. \A j \in 0..MaxSlugAttempts : j < n => row[Candidate[tx[r].email][j]] # None
      BY <1>2 DEF Inv, RegistrationInv, FreshInv
    <3>2. \A j \in 0..MaxSlugAttempts : j < n \/ j = n
      BY <1>6
    <3> QED BY <1>6, <3>1, <3>2
  <2> QED BY <1>2, <1>6, <2>1, RollbackStep DEF ProbeSlug, ExistsBySlug
<1> QED BY <1>4, <1>5, <1>6 DEF ProbeSlug, ExistsBySlug

\* The tenant is inserted; that its slug was taken meanwhile takes another
\* call under way (register.go:131-173).
LEMMA InsertTenantStep ==
    ASSUME Inv, NEW r \in Request, InsertTenant(r)
    PROVE  Inv'
<1>1. tx[r] \in TxType /\ tx \in [Request -> TxType]
  BY DEF Inv, TypeOK
<1>2. /\ tx[r].pc = "tenant" /\ Running(r) /\ tx[r].email \in Email /\ tx[r].slug \in Slug
      /\ tx[r].owner = None /\ \A p \in Perm : tx[r].perms[p] = None
  BY DEF InsertTenant, CreateTenant, Inv, RegistrationInv, PhaseInv, Running
<1>3. CASE CreateTenant(r)
  <2> DEFINE m == {"credentials", "users", "roles"}
             t == [tx[r] EXCEPT !.pc = "lookup", !.made = m]
  <2>a. CreateTenantOwnerRole(CreateUser(tx[r].made)) = m /\ m \in SUBSET Table
    <3>1. tx[r].made = {"credentials"}
      BY <1>2 DEF Inv, RegistrationInv, MadeInv, Filled
    <3> QED BY <3>1 DEF CreateTenantOwnerRole, CreateUser, Table
  <2>c. m = Filled("lookup", tx[r].owner)
    BY DEF Filled
  <2> HIDE DEF m
  <2>1. tx' = [tx EXCEPT ![r] = t]
    BY <1>1, <1>3, <2>a DEF CreateTenant
  <2>2. /\ t \in TxType /\ t.pc = "lookup" /\ t.made = m
        /\ t.email = tx[r].email /\ t.perms = tx[r].perms /\ t.n = tx[r].n
        /\ t.owner = tx[r].owner /\ t.slug = tx[r].slug
    BY <1>1, <2>a DEF TxType
  <2> HIDE DEF t
  <2>3. /\ tx' \in [Request -> TxType] /\ tx'[r] = t
        /\ \A q \in Request \ {r} : tx'[q] = tx[q]
    BY <1>1, <2>1, <2>2
  <2>4. PhaseInv'
    BY <1>2, <2>2, <2>3 DEF Inv, RegistrationInv, PhaseInv
  <2>m. MadeInv'
    BY <2>c, <2>2, <2>3 DEF Inv, RegistrationInv, MadeInv
  <2>5. AssignedInv'
    BY <1>2, <2>2, <2>3 DEF Inv, RegistrationInv, AssignedInv, Running, InsertTenant, CreateTenant
  <2>6. \A l \in Key : Owns(r, l)' <=> Owns(r, l) \/ l = tx[r].slug
    <3>1. None \notin Request
      BY RegistrationAssumption
    <3> QED BY <1>2, <2>2, <2>3, <3>1 DEF Owns
  <2>7. Running(r)' /\ tx'[r].pc = "lookup"
    BY <2>2, <2>3 DEF Running
  <2>8. tx[r].slug \in Key
    BY <1>2 DEF Key
  <2> QED BY <1>2, <1>3, <2>3, <2>4, <2>m, <2>5, <2>6, <2>7, <2>8, InsertStep DEF InsertTenant, CreateTenant
<1>4. CASE Conflict(r, tx[r].slug, "slug")
  <2>1. row[tx[r].slug] # None /\ Rollback(r, "slug")
    BY <1>4 DEF Conflict
  <2>2. r \in met
    BY <1>2, <2>1 DEF Inv, RegistrationInv, FreshInv
  <2> QED BY <1>2, <2>1, <2>2, RollbackStep DEF InsertTenant, CreateTenant
<1> QED BY <1>3, <1>4 DEF InsertTenant

\* The loop has reached one permission only.
LEMMA NextPermUnique ==
    ASSUME TypeOK, NEW r \in Request, NEW p \in Perm, NEW q \in Perm,
           NextPerm(r, p), NextPerm(r, q)
    PROVE  p = q
  BY RegistrationAssumption DEF NextPerm, Perm

\* A committed permission is assigned, a missing one will be created
\* (permission_bootstrap.go:52-60).
LEMMA LookupPermissionStep ==
    ASSUME Inv, NEW r \in Request, NEW p \in Perm, LookupPermission(r, p)
    PROVE  Inv'
<1> USE RegistrationAssumption
<1>0. TypeOK
  BY DEF Inv
<1>1. /\ tx[r] \in TxType /\ tx \in [Request -> TxType] /\ p \in Key
      /\ tx[r].perms \in [Perm -> Request \cup {None}]
      /\ row[p] \in Request \cup {None}
  BY <1>0, Fields DEF TypeOK, Key
<1>2. /\ tx[r].pc = "lookup" /\ Running(r) /\ tx[r].email \in Email /\ tx[r].slug \in Slug
      /\ tx[r].owner = None /\ tx[r].perms[p] = None
      /\ \A q \in Perm : q < p => tx[r].perms[q] # None
      /\ \A q, u \in Perm : u < q /\ tx[r].perms[q] # None => tx[r].perms[u] # None
  BY DEF LookupPermission, NextPerm, Inv, RegistrationInv, PhaseInv, Running
<1>3. CASE row[p] # None /\ tx' = [tx EXCEPT ![r].perms[p] = row[p]]
  <2> DEFINE f == [tx[r].perms EXCEPT ![p] = row[p]]
             t == [tx[r] EXCEPT !.perms = f]
  <2>1. tx' = [tx EXCEPT ![r] = t]
    BY <1>1, <1>3
  <2>a. /\ f \in [Perm -> Request \cup {None}] /\ f[p] = row[p]
        /\ \A q \in Perm \ {p} : f[q] = tx[r].perms[q]
    BY <1>1
  <2> HIDE DEF f
  <2>2. /\ t \in TxType /\ t.pc = "lookup"
        /\ t.email = tx[r].email /\ t.perms = f /\ t.n = tx[r].n
        /\ t.owner = tx[r].owner /\ t.slug = tx[r].slug /\ t.made = tx[r].made
    BY <1>1, <1>2, <2>a DEF TxType
  <2> HIDE DEF t
  <2>3. /\ tx' \in [Request -> TxType] /\ tx'[r] = t
        /\ \A q \in Request \ {r} : tx'[q] = tx[q]
    BY <1>1, <2>1, <2>2
  <2>4. PhaseInv'
    <3>1. \A q, u \in Perm : u < q /\ f[q] # None => f[u] # None
      BY <1>2, <1>3, <2>a DEF Perm
    <3> QED BY <1>2, <2>2, <2>3, <3>1 DEF Inv, RegistrationInv, PhaseInv
  <2>m. MadeInv'
    <3>1. Filled(t.pc, t.owner) = Filled(tx[r].pc, tx[r].owner)
      BY <1>2, <2>2 DEF Filled
    <3> QED BY <1>2, <2>2, <2>3, <3>1 DEF Inv, RegistrationInv, MadeInv
  <2>5. AssignedInv'
    <3>1. row' = row
      BY DEF LookupPermission
    <3>2. \A q \in Perm : f[q] \notin {None, r} => row[q] = f[q]
      BY <1>2, <2>a DEF Inv, RegistrationInv, AssignedInv
    <3> QED BY <2>2, <2>3, <3>1, <3>2 DEF Inv, RegistrationInv, AssignedInv, Running
  <2>6. \A l \in Key : Owns(r, l)' <=> Owns(r, l)
    <3>1. row[p] # r
      BY <1>1, <1>2 DEF Inv, RowsCommitted
    <3>2. r # None
      OBVIOUS
    <3>3. \A l \in Perm : f[l] = r <=> tx[r].perms[l] = r
      BY <1>2, <2>a, <3>1, <3>2
    <3> QED BY <1>2, <2>2, <2>3, <3>3 DEF Owns
  <2>7. Running(r)' /\ tx'[r].pc = "lookup"
    BY <2>2, <2>3 DEF Running
  <2> QED BY <1>2, <2>3, <2>4, <2>m, <2>5, <2>6, <2>7, MoveStep DEF LookupPermission
<1>4. CASE row[p] = None /\ tx' = [tx EXCEPT ![r].pc = "create"]
  <2> DEFINE t == [tx[r] EXCEPT !.pc = "create"]
  <2>1. tx' = [tx EXCEPT ![r] = t]
    BY <1>1, <1>4
  <2>2. /\ t \in TxType /\ t.pc = "create"
        /\ t.email = tx[r].email /\ t.perms = tx[r].perms /\ t.n = tx[r].n
        /\ t.owner = tx[r].owner /\ t.slug = tx[r].slug /\ t.made = tx[r].made
    BY <1>1 DEF TxType
  <2> HIDE DEF t
  <2>3. /\ tx' \in [Request -> TxType] /\ tx'[r] = t
        /\ \A q \in Request \ {r} : tx'[q] = tx[q]
    BY <1>1, <2>1, <2>2
  <2>4. PhaseInv'
    BY <1>2, <2>2, <2>3 DEF Inv, RegistrationInv, PhaseInv
  <2>m. MadeInv'
    <3>1. Filled(t.pc, t.owner) = Filled(tx[r].pc, tx[r].owner)
      BY <1>2, <2>2 DEF Filled
    <3> QED BY <1>2, <2>2, <2>3, <3>1 DEF Inv, RegistrationInv, MadeInv
  <2>5. AssignedInv'
    BY <1>2, <2>2, <2>3 DEF Inv, RegistrationInv, AssignedInv, Running, LookupPermission
  <2>6. \A l \in Key : Owns(r, l)' <=> Owns(r, l)
    BY <1>2, <2>2, <2>3 DEF Owns
  <2>7. Running(r)' /\ tx'[r].pc = "create"
    BY <2>2, <2>3 DEF Running
  <2>8. \A q \in Perm : NextPerm(r, q)' => row[q] = None
    <3>1. \A q \in Perm : NextPerm(r, q)' => NextPerm(r, q)
      BY <2>2, <2>3 DEF NextPerm
    <3>2. NextPerm(r, p)
      BY DEF LookupPermission
    <3> QED BY <1>0, <1>4, <3>1, <3>2, NextPermUnique
  <2> QED BY <1>2, <2>3, <2>4, <2>m, <2>5, <2>6, <2>7, <2>8, MoveStep DEF LookupPermission
<1> QED BY <1>3, <1>4 DEF LookupPermission

\* The permission is created, or another call was faster
\* (permission_bootstrap.go:60-90).
LEMMA CreatePermissionStep ==
    ASSUME Inv, NEW r \in Request, NEW p \in Perm, CreatePermission(r, p)
    PROVE  Inv'
<1> USE RegistrationAssumption
<1>0. TypeOK
  BY DEF Inv
<1>1. /\ tx[r] \in TxType /\ tx \in [Request -> TxType] /\ p \in Key
      /\ tx[r].perms \in [Perm -> Request \cup {None}]
  BY <1>0, Fields DEF TypeOK, Key
<1>2. /\ tx[r].pc = "create" /\ Running(r) /\ tx[r].email \in Email /\ tx[r].slug \in Slug
      /\ tx[r].owner = None /\ tx[r].perms[p] = None
      /\ \A q \in Perm : q < p => tx[r].perms[q] # None
      /\ \A q, u \in Perm : u < q /\ tx[r].perms[q] # None => tx[r].perms[u] # None
  BY DEF CreatePermission, CreatePermissionRow, NextPerm, Inv, RegistrationInv, PhaseInv, Running
<1>3. CASE Insert(r, p) /\ tx' = [tx EXCEPT ![r].pc = "lookup", ![r].perms[p] = r]
  <2> DEFINE f == [tx[r].perms EXCEPT ![p] = r]
             t == [tx[r] EXCEPT !.pc = "lookup", !.perms = f]
  <2>1. tx' = [tx EXCEPT ![r] = t]
    BY <1>1, <1>3 DEF TxType
  <2>a. /\ f \in [Perm -> Request \cup {None}] /\ f[p] = r
        /\ \A q \in Perm \ {p} : f[q] = tx[r].perms[q]
    BY <1>1
  <2> HIDE DEF f
  <2>2. /\ t \in TxType /\ t.pc = "lookup"
        /\ t.email = tx[r].email /\ t.perms = f /\ t.n = tx[r].n
        /\ t.owner = tx[r].owner /\ t.slug = tx[r].slug /\ t.made = tx[r].made
    BY <1>1, <2>a DEF TxType
  <2> HIDE DEF t
  <2>3. /\ tx' \in [Request -> TxType] /\ tx'[r] = t
        /\ \A q \in Request \ {r} : tx'[q] = tx[q]
    BY <1>1, <2>1, <2>2
  <2>b. r # None
    OBVIOUS
  <2>4. PhaseInv'
    <3>1. \A q, u \in Perm : u < q /\ f[q] # None => f[u] # None
      BY <1>2, <2>b, <2>a DEF Perm
    <3> QED BY <1>2, <2>2, <2>3, <3>1 DEF Inv, RegistrationInv, PhaseInv
  <2>m. MadeInv'
    <3>1. Filled(t.pc, t.owner) = Filled(tx[r].pc, tx[r].owner)
      BY <1>2, <2>2 DEF Filled
    <3> QED BY <1>2, <2>2, <2>3, <3>1 DEF Inv, RegistrationInv, MadeInv
  <2>5. AssignedInv'
    <3>1. row' = row
      BY DEF CreatePermission, CreatePermissionRow
    <3>2. \A q \in Perm : f[q] \notin {None, r} => row[q] = f[q]
      BY <1>2, <2>a DEF Inv, RegistrationInv, AssignedInv
    <3> QED BY <2>2, <2>3, <3>1, <3>2 DEF Inv, RegistrationInv, AssignedInv, Running
  <2>6. \A l \in Key : Owns(r, l)' <=> Owns(r, l) \/ l = p
    <3>3. \A l \in Perm : f[l] = r <=> tx[r].perms[l] = r \/ l = p
      BY <1>2, <2>a, <2>b
    <3> QED BY <1>2, <2>2, <2>3, <3>3 DEF Owns
  <2>7. Running(r)' /\ tx'[r].pc = "lookup"
    BY <2>2, <2>3 DEF Running
  <2> QED BY <1>1, <1>2, <1>3, <2>3, <2>4, <2>m, <2>5, <2>6, <2>7, InsertStep DEF CreatePermission, CreatePermissionRow
<1>4. CASE Conflict(r, p, "perm")
  <2>1. row[p] # None /\ Rollback(r, "perm") /\ NextPerm(r, p)
    BY <1>4 DEF Conflict, CreatePermission, CreatePermissionRow
  <2>2. r \in met
    BY <1>2, <2>1 DEF Inv, RegistrationInv, FreshInv
  <2> QED BY <1>2, <2>1, <2>2, RollbackStep DEF CreatePermission, CreatePermissionRow
<1> QED BY <1>3, <1>4 DEF CreatePermission, CreatePermissionRow

\* The named role is found or not (create_user.go:101-119).
LEMMA LookupRoleStep ==
    ASSUME Inv, NEW r \in Request, LookupRole(r)
    PROVE  Inv'
<1>1. tx[r] \in TxType /\ tx \in [Request -> TxType]
  BY DEF Inv, TypeOK
<1>2. /\ tx[r].pc = "role" /\ Running(r) /\ tx[r].email \in Email
      /\ tx[r].owner # None /\ \A p \in Perm : tx[r].perms[p] = None
  BY DEF LookupRole, Inv, RegistrationInv, PhaseInv, Running
<1>3. CASE tx' = [tx EXCEPT ![r].pc = "assign"] /\ UNCHANGED held
  <2> DEFINE t == [tx[r] EXCEPT !.pc = "assign"]
  <2>1. tx' = [tx EXCEPT ![r] = t]
    BY <1>1, <1>3
  <2>2. /\ t \in TxType /\ t.pc = "assign"
        /\ t.email = tx[r].email /\ t.perms = tx[r].perms /\ t.n = tx[r].n
        /\ t.owner = tx[r].owner /\ t.slug = tx[r].slug /\ t.made = tx[r].made
    BY <1>1 DEF TxType
  <2> HIDE DEF t
  <2>3. /\ tx' \in [Request -> TxType] /\ tx'[r] = t
        /\ \A q \in Request \ {r} : tx'[q] = tx[q]
    BY <1>1, <2>1, <2>2
  <2>4. PhaseInv'
    BY <1>2, <2>2, <2>3 DEF Inv, RegistrationInv, PhaseInv
  <2>m. MadeInv'
    <3>1. Filled(t.pc, t.owner) = Filled(tx[r].pc, tx[r].owner)
      BY <1>2, <2>2 DEF Filled
    <3> QED BY <1>2, <2>2, <2>3, <3>1 DEF Inv, RegistrationInv, MadeInv
  <2>5. AssignedInv'
    BY <1>2, <2>2, <2>3 DEF Inv, RegistrationInv, AssignedInv, Running, LookupRole
  <2>6. \A l \in Key : Owns(r, l)' <=> Owns(r, l)
    BY <1>2, <2>2, <2>3 DEF Owns
  <2>7. Running(r)' /\ tx'[r].pc = "assign"
    BY <2>2, <2>3 DEF Running
  <2> QED BY <1>2, <1>3, <2>3, <2>4, <2>m, <2>5, <2>6, <2>7, MoveStep DEF LookupRole
<1>4. CASE Rollback(r, "role")
  BY <1>2, <1>4, RollbackStep DEF LookupRole
<1> QED BY <1>3, <1>4 DEF LookupRole

\* Commit turns the keys a call holds into rows and leaves the other rows.
LEMMA CommitStep ==
    ASSUME Inv, NEW r \in Request, Commit(r)
    PROVE  Inv'
<1> USE RegistrationAssumption
<1>0. TypeOK
  BY DEF Inv
<1>1. tx[r] \in TxType /\ tx \in [Request -> TxType]
  BY <1>0 DEF TypeOK
<1>2. /\ Running(r) /\ tx[r].email \in Email
      /\ tx[r].pc \in {"assign", "lookup"}
      /\ tx[r].pc = "lookup" => tx[r].slug \in Slug /\ \A p \in Perm : tx[r].perms[p] # None
      /\ tx[r].pc = "assign" => tx[r].owner # None
      /\ \A q, u \in Perm : u < q /\ tx[r].perms[q] # None => tx[r].perms[u] # None
  BY DEF Commit, Inv, RegistrationInv, PhaseInv, Running
<1>a. PICK lost \in {"none", "fault"} :
        tx' = [tx EXCEPT ![r].pc = "committed", ![r].why = lost,
                         ![r].made = AssignRole(tx[r].made)]
  BY DEF Commit
<1> DEFINE m == AssignRole(tx[r].made)
           t == [tx[r] EXCEPT !.pc = "committed", !.why = lost, !.made = m]
<1>b. m = Filled("committed", tx[r].owner) /\ m \in SUBSET Table
  <2>1. CASE tx[r].pc = "lookup"
    <3>1. tx[r].owner = None /\ tx[r].made = {"credentials", "users", "roles"}
      BY <2>1 DEF Inv, RegistrationInv, PhaseInv, MadeInv, Filled
    <3> QED BY <3>1 DEF AssignRole, Table, Filled
  <2>2. CASE tx[r].pc = "assign"
    <3>1. tx[r].owner # None /\ tx[r].made = {"credentials", "users"}
      BY <2>2 DEF Inv, RegistrationInv, PhaseInv, MadeInv, Filled
    <3> QED BY <3>1 DEF AssignRole, Table, Filled
  <2> QED BY <1>2, <2>1, <2>2
<1> HIDE DEF m
<1>3. tx' = [tx EXCEPT ![r] = t]
  BY <1>1, <1>a DEF m
<1>4. /\ t \in TxType /\ t.pc = "committed" /\ t.made = m
      /\ t.email = tx[r].email /\ t.perms = tx[r].perms /\ t.n = tx[r].n
      /\ t.owner = tx[r].owner /\ t.slug = tx[r].slug
  BY <1>1, <1>b DEF TxType
<1> HIDE DEF t
<1>5. /\ tx' \in [Request -> TxType] /\ tx'[r] = t
      /\ \A q \in Request \ {r} : tx'[q] = tx[q]
  BY <1>1, <1>3, <1>4
<1>6. /\ row' \in [Key -> Request \cup {None}] /\ held' \in [Key -> Request \cup {None}]
      /\ \A k \in Key : held[k] = r => row'[k] = r /\ held'[k] = None
      /\ \A k \in Key : held[k] # r => row'[k] = row[k] /\ held'[k] = held[k]
      /\ met' = met
  BY <1>0 DEF Commit, TypeOK
<1>7. \A k \in Key : row[k] # None => held[k] # r /\ row'[k] = row[k]
  BY <1>6 DEF Inv, RegistrationInv, HeldInv
<1>8. \A k \in Key : Owns(r, k) => row'[k] = r
  BY <1>6 DEF Inv, RegistrationInv, HeldInv
<1>9. /\ \A e \in Email : e \in Key
      /\ \A s \in Slug : s \in Key
      /\ \A p \in Perm : p \in Key
  BY DEF Key
<1>10. TypeOK'
  BY <1>0, <1>5, <1>6 DEF TypeOK
<1>11. PhaseInv'
  BY <1>2, <1>4, <1>5 DEF Inv, RegistrationInv, PhaseInv
<1>m. MadeInv'
  BY <1>b, <1>4, <1>5 DEF Inv, RegistrationInv, MadeInv
<1>12. HeldInv'
  <2>1. \A k \in Key, q \in Request \ {r} : Owns(q, k)' <=> Owns(q, k)
    BY <1>5 DEF Owns
  <2>2. \A k \in Key : ~Owns(r, k)' /\ held'[k] # r
    BY <1>4, <1>5, <1>6 DEF Owns
  <2>3. \A k \in Key, q \in Request \ {r} : held'[k] = q <=> held[k] = q
    BY <1>6
  <2> QED BY <1>6, <2>1, <2>2, <2>3 DEF Inv, RegistrationInv, HeldInv
<1>13. AssignedInv'
  <2>1. ASSUME NEW q \in Request, NEW p \in Perm,
               Running(q)', tx'[q].perms[p] \notin {None, q}
        PROVE  row'[p] = tx'[q].perms[p]
    <3>1. q # r /\ tx'[q] = tx[q] /\ Running(q)
      BY <1>4, <1>5, <2>1 DEF Running
    <3>2. row[p] = tx[q].perms[p]
      BY <2>1, <3>1 DEF Inv, RegistrationInv, AssignedInv
    <3> QED BY <1>7, <1>9, <2>1, <3>1, <3>2
  <2> QED BY <2>1 DEF AssignedInv
<1>14. FreshInv'
  <2>1. \A q \in Request : Running(q)' => q # r /\ tx'[q] = tx[q] /\ Running(q)
    BY <1>4, <1>5 DEF Running
  <2>2. \A q \in Request : Running(q)' => q \in met'
    BY <1>2, <1>6, <2>1 DEF Inv, RegistrationInv, FreshInv
  <2>3. \A q \in Request : tx'[q].pc \in {"tenant", "create", "slug"} => Running(q)'
    BY DEF Running
  <2>4. ASSUME NEW q \in Request, tx'[q].pc = "slug",
               NEW n \in 0..MaxSlugAttempts, n < tx'[q].n
        PROVE  row'[Candidate[tx'[q].email][n]] # None
    <3>1. tx'[q] = tx[q] /\ tx[q].email \in Email
      BY <2>1, <2>3, <2>4 DEF Inv, RegistrationInv, PhaseInv
    <3>2. Candidate[tx[q].email][n] \in Slug /\ row[Candidate[tx[q].email][n]] # None
      BY <2>4, <3>1 DEF Inv, RegistrationInv, FreshInv
    <3> QED BY <1>7, <1>9, <3>1, <3>2
  <2> QED BY <2>2, <2>3, <2>4 DEF FreshInv
<1>15. RowsCommitted'
  <2>1. ASSUME NEW k \in Key, row'[k] # None PROVE tx'[row'[k]].pc = "committed"
    <3>1. CASE held[k] = r
      BY <1>4, <1>5, <1>6, <3>1
    <3>2. CASE held[k] # r
      <4>1. row'[k] = row[k] /\ row[k] \in Request /\ tx[row[k]].pc = "committed"
        BY <1>0, <1>6, <2>1, <3>2 DEF Inv, RowsCommitted, TypeOK
      <4> QED BY <1>4, <1>5, <4>1
    <3> QED BY <3>1, <3>2
  <2>2. /\ row'[tx'[r].email] = r
        /\ tx'[r].owner = None => tx'[r].slug \in Slug /\ row'[tx'[r].slug] = r
    <3>1. Owns(r, tx[r].email) /\ (tx[r].pc = "lookup" => Owns(r, tx[r].slug))
      BY <1>2 DEF Owns
    <3> QED BY <1>2, <1>4, <1>5, <1>8, <1>9, <3>1
  <2>3. ASSUME NEW q \in Request, q # r, tx'[q].pc = "committed"
        PROVE  /\ row'[tx'[q].email] = q
               /\ tx'[q].owner = None => tx'[q].slug \in Slug /\ row'[tx'[q].slug] = q
    <3>1. tx'[q] = tx[q] /\ tx[q].email \in Email /\ q # None
      BY <1>5, <2>3 DEF Inv, RegistrationInv, PhaseInv
    <3>2. /\ row[tx[q].email] = q
          /\ tx[q].owner = None => tx[q].slug \in Slug /\ row[tx[q].slug] = q
      BY <2>3, <3>1 DEF Inv, RowsCommitted
    <3> QED BY <1>7, <1>9, <3>1, <3>2
  <2> QED BY <2>1, <2>2, <2>3 DEF RowsCommitted
<1>16. OwnersHaveAllPermissions'
  <2>1. ASSUME NEW q \in Request, tx'[q].pc = "committed", tx'[q].owner = None,
               NEW p \in Perm
        PROVE  row'[p] # None /\ tx'[q].perms[p] = row'[p]
    <3>1. CASE q # r
      <4>1. tx'[q] = tx[q] /\ row[p] # None /\ tx[q].perms[p] = row[p]
        BY <1>5, <2>1, <3>1 DEF Inv, OwnersHaveAllPermissions
      <4> QED BY <1>7, <1>9, <4>1
    <3>2. CASE q = r
      <4>1. tx[r].pc = "lookup" /\ tx[r].perms[p] # None /\ r # None
        BY <1>2, <1>4, <1>5, <2>1, <3>2
      <4>2. CASE tx[r].perms[p] = r
        <5>1. Owns(r, p)
          BY <4>1, <4>2 DEF Owns
        <5> QED BY <1>4, <1>5, <1>8, <1>9, <3>2, <4>1, <4>2, <5>1
      <4>3. CASE tx[r].perms[p] # r
        <5>1. row[p] = tx[r].perms[p]
          BY <1>2, <4>1, <4>3 DEF Inv, RegistrationInv, AssignedInv
        <5> QED BY <1>4, <1>5, <1>7, <1>9, <3>2, <4>1, <5>1
      <4> QED BY <4>2, <4>3
    <3> QED BY <3>1, <3>2
  <2> QED BY <2>1 DEF OwnersHaveAllPermissions
<1>17. FailuresHaveCause'
  <2>1. ASSUME NEW q \in Request, tx'[q].pc = "failed" PROVE Cause(q)'
    <3>1. q # r /\ tx'[q] = tx[q] /\ Cause(q) /\ tx[q].email \in Email
      BY <1>4, <1>5, <2>1 DEF Inv, FailuresHaveCause, RegistrationInv, PhaseInv
    <3>2. \A n \in 0..MaxSlugAttempts : Candidate[tx[q].email][n] \in Slug
      BY <3>1
    <3> QED BY <1>6, <1>7, <1>9, <3>1, <3>2 DEF Cause, Response, GetByEmail
  <2> QED BY <2>1 DEF FailuresHaveCause
<1> QED BY <1>10, <1>11, <1>m, <1>12, <1>13, <1>14, <1>15, <1>16, <1>17 DEF Inv, RegistrationInv

\* A call to the database fails (tx.go:29-47).
LEMMA AbortStep ==
    ASSUME Inv, NEW r \in Request, Abort(r)
    PROVE  Inv'
  BY RollbackStep DEF Abort

\* Every step keeps the invariant.
LEMMA NextInv == Inv /\ [Next]_vars => Inv'
<1> SUFFICES ASSUME Inv, [Next]_vars PROVE Inv'
  OBVIOUS
<1>1. CASE UNCHANGED vars
  BY <1>1 DEF vars, Inv, TypeOK, RegistrationInv, PhaseInv, MadeInv, HeldInv, Owns, AssignedInv,
              FreshInv, Running, NextPerm, RowsCommitted, OwnersHaveAllPermissions,
              FailuresHaveCause, Cause, Response, GetByEmail
<1>2. ASSUME NEW r \in Request, NEW e \in Email, BeginRegister(r, e) PROVE Inv'
  BY <1>2, BeginRegisterStep
<1>3. ASSUME NEW r \in Request, NEW e \in Email, NEW o \in Request, BeginCreateUser(r, e, o)
      PROVE  Inv'
  BY <1>3, BeginCreateUserStep
<1>4. ASSUME NEW r \in Request, Step(r) PROVE Inv'
  BY <1>4, InsertIdentityStep, ProbeSlugStep, InsertTenantStep, LookupPermissionStep,
     CreatePermissionStep, LookupRoleStep, CommitStep DEF Step
<1>5. ASSUME NEW r \in Request, Abort(r) PROVE Inv'
  BY <1>5, AbortStep
<1> QED BY <1>1, <1>2, <1>3, <1>4, <1>5 DEF Next

\* The inductive invariant and the type invariant hold for any number of
\* concurrent registrations (register.go:80-199).
THEOREM Invariance == Spec => [](TypeOK /\ RegistrationInv)
<1>1. Inv => TypeOK /\ RegistrationInv
  BY DEF Inv
<1> QED BY InitInv, NextInv, <1>1, PTL DEF Spec

\* No call leaves a part of an account behind, and who is found by email can
\* sign in (tx.go:29-47, login.go:90-142).
THEOREM Atomicity == Spec => []AllOrNothing
<1>1. Inv => AllOrNothing
  <2> SUFFICES ASSUME Inv, NEW e \in Email, NEW i \in GetByEmail(e)
               PROVE  GetCredential(i) /\ GetByIdentityID(i) /\ GetRolesForUser(i)
    BY DEF Inv, AllOrNothing
  <2>1. i \in Request /\ tx[i].pc = "committed"
    BY DEF GetByEmail, Inv, TypeOK, RowsCommitted, Key
  <2>2. tx[i].made = Table \/ tx[i].made = Table \ {"roles"}
    BY <2>1 DEF Inv, RegistrationInv, MadeInv, Filled
  <2> QED BY <2>1, <2>2 DEF GetCredential, GetByIdentityID, GetRolesForUser, Visible, Table
<1> QED BY InitInv, NextInv, <1>1, PTL DEF Spec

\* Every tenant's owner role has every owner permission
\* (permission_bootstrap.go:52-90).
THEOREM Owners == Spec => []OwnersHaveAllPermissions
<1>1. Inv => OwnersHaveAllPermissions
  BY DEF Inv
<1> QED BY InitInv, NextInv, <1>1, PTL DEF Spec

\* A call that overlaps no other fails only for a reason its caller can see
\* (slug_service.go:25-45, permission_bootstrap.go:54-77).
THEOREM Failures == Spec => []FailuresHaveCause
<1>1. Inv => FailuresHaveCause
  BY DEF Inv
<1> QED BY InitInv, NextInv, <1>1, PTL DEF Spec

-----------------------------------------------------------------------------
\* A call takes its keys in the order of their rank: what it waits for comes
\* after all that it holds.
LEMMA KeysInOrder ==
    ASSUME Inv, NEW r \in Request, NEW k \in Key, NEW l \in Key,
           Wants(r, k), held[l] = r
    PROVE  Rank(l) < Rank(k)
<1> USE RegistrationAssumption
<1>0. TypeOK
  BY DEF Inv
<1>1. Owns(r, l)
  BY DEF Inv, RegistrationInv, HeldInv
<1>2. /\ \A e \in Email : Rank(e) = 0
      /\ \A s \in Slug : Rank(s) = 1
      /\ \A p \in Perm : Rank(p) = p + 1 /\ p \in Nat /\ p >= 1
  BY DEF Rank, Perm
<1>3. CASE tx[r].pc = "identity"
  BY <1>1, <1>3 DEF Owns
<1>4. CASE tx[r].pc = "tenant"
  <2>1. k = tx[r].slug /\ k \in Slug /\ l = tx[r].email /\ l \in Email
    BY <1>1, <1>4 DEF Owns, Wants, Inv, RegistrationInv, PhaseInv
  <2> QED BY <1>2, <2>1
<1>5. CASE tx[r].pc = "create"
  <2>1. /\ k \in Perm /\ NextPerm(r, k) /\ tx[r].email \in Email /\ tx[r].slug \in Slug
        /\ \A p, q \in Perm : q < p /\ tx[r].perms[p] # None => tx[r].perms[q] # None
    BY <1>5 DEF Wants, Inv, RegistrationInv, PhaseInv
  <2>2. CASE l = tx[r].email \/ l = tx[r].slug
    BY <1>2, <2>1, <2>2
  <2>3. CASE l \in Perm /\ tx[r].perms[l] = r
    <3>1. tx[r].perms[l] # None /\ tx[r].perms[k] = None
      BY <2>1, <2>3 DEF NextPerm
    <3>2. ~(k < l) /\ k # l
      BY <2>1, <2>3, <3>1
    <3> QED BY <1>2, <2>1, <2>3, <3>2
  <2> QED BY <1>1, <1>5, <2>2, <2>3 DEF Owns
<1> QED BY <1>3, <1>4, <1>5 DEF Wants

\* Calls never wait for each other's keys in a circle (register.go:92-179):
\* of the calls of a set that all wait for one another, consider one whose
\* wanted key has the highest rank; the call that holds that key waits for a
\* key of a still higher rank.
LEMMA NoCycle == Inv => NoWaitCycle
<1> SUFFICES ASSUME Inv, NEW S \in SUBSET Request, S # {},
                    \A r \in S : \E q \in S : Waits(r, q)
             PROVE  FALSE
  BY DEF NoWaitCycle
<1> USE RegistrationAssumption
<1>1. \A k \in Key : Rank(k) \in 0..(NPerm + 1)
  BY DEF Rank, Key, Perm
<1> DEFINE Blocks(r, k) == Wants(r, k) /\ held[k] \in S
           Left == {n \in Nat : \E r \in S, k \in Key : Blocks(r, k) /\ n = NPerm + 1 - Rank(k)}
<1>2. \A r \in S : \E k \in Key : Blocks(r, k)
  BY DEF Waits
<1>3. Left # {}
  <2>1. PICK r \in S : TRUE
    OBVIOUS
  <2>2. PICK k \in Key : Blocks(r, k)
    BY <1>2
  <2>3. NPerm + 1 - Rank(k) \in Nat
    BY <1>1
  <2> QED BY <2>2, <2>3
<1>4. PICK n \in Left : \A m \in Left : ~(<<m, n>> \in OpToRel(<, Nat))
  <2>1. Left \subseteq Nat
    OBVIOUS
  <2> QED BY <1>3, <2>1, NatLessThanWellFounded, WFMin
<1>5. PICK r \in S, k \in Key : Blocks(r, k) /\ n = NPerm + 1 - Rank(k)
  OBVIOUS
<1>6. PICK q \in S : held[k] = q
  BY <1>5
<1>7. PICK l \in Key : Blocks(q, l)
  BY <1>2
<1>8. Rank(k) < Rank(l)
  BY <1>6, <1>7, KeysInOrder
<1>9. NPerm + 1 - Rank(l) \in Left
  BY <1>1, <1>7
<1>10. NPerm + 1 - Rank(l) < n /\ n \in Nat
  BY <1>1, <1>5, <1>8
<1>11. <<NPerm + 1 - Rank(l), n>> \in OpToRel(<, Nat)
  BY <1>9, <1>10 DEF OpToRel
<1> QED BY <1>4, <1>9, <1>11

\* Calls that wait for each other's keys never wait in a circle, so no call
\* fails because Postgres has to break a deadlock (register.go:92-179).
THEOREM NoDeadlock == Spec => []NoWaitCycle
  BY InitInv, NextInv, NoCycle, PTL DEF Spec

-----------------------------------------------------------------------------
\* A step is a step of one call that has not ended; it commits, or it leaves
\* the rows alone; its tenant is the one it had or one that is there; and it goes
\* on to create a permission only if one is missing.
Moves(r) ==
    /\ tx[r].pc \notin {"committed", "failed"}
    /\ \A q \in Request \ {r} : tx'[q] = tx[q]
    /\ \/ tx'[r].owner = tx[r].owner
       \/ /\ tx'[r].owner \in Request
          /\ tx[tx'[r].owner].pc = "committed" /\ tx[tx'[r].owner].owner = None
    /\ Commit(r) \/ (row' = row /\ tx'[r].pc # "committed")
    /\ tx'[r].pc = "create" => \E p \in Perm : tx'[r].perms[p] = None

LEMMA OneCallMoves ==
    ASSUME Inv, Next
    PROVE  \E r \in Request : Moves(r)
<1>0. TypeOK
  BY DEF Inv
<1>1. tx \in [Request -> TxType] /\ \A r \in Request : tx[r] \in TxType
  BY <1>0 DEF TypeOK
<1>2. ASSUME NEW r \in Request, NEW e \in Email, BeginRegister(r, e) PROVE Moves(r)
  BY <1>1, <1>2 DEF BeginRegister, Moves, TxType
<1>3. ASSUME NEW r \in Request, NEW e \in Email, NEW o \in Request, BeginCreateUser(r, e, o)
      PROVE  Moves(r)
  BY <1>1, <1>3 DEF BeginCreateUser, Moves, TxType
<1>4. ASSUME NEW r \in Request, NEW why, Rollback(r, why), row' = row,
             tx[r].pc \notin {"committed", "failed"}
      PROVE  Moves(r)
  BY <1>1, <1>4 DEF Rollback, Moves, TxType
<1>5. ASSUME NEW r \in Request, InsertIdentity(r) PROVE Moves(r)
  <2>1. CASE Conflict(r, tx[r].email, "email")
    BY <1>4, <1>5, <2>1 DEF InsertIdentity, Conflict
  <2>2. CASE \/ tx' = [tx EXCEPT ![r].pc = "slug", ![r].made = CreateCredential(tx[r].made)]
             \/ tx' = [tx EXCEPT ![r].pc = "role",
                                 ![r].made = CreateUser(CreateCredential(tx[r].made))]
    BY <1>1, <1>5, <2>2 DEF InsertIdentity, Moves, TxType
  <2> QED BY <1>5, <2>1, <2>2 DEF InsertIdentity
<1>6. ASSUME NEW r \in Request, ProbeSlug(r) PROVE Moves(r)
  <2>1. CASE Rollback(r, "exhausted")
    BY <1>4, <1>6, <2>1 DEF ProbeSlug
  <2>2. CASE \/ \E x : tx' = [tx EXCEPT ![r].pc = "tenant", ![r].slug = x]
             \/ \E x : tx' = [tx EXCEPT ![r].n = x]
    BY <1>1, <1>6, <2>2 DEF ProbeSlug, Moves, TxType
  <2> QED BY <1>6, <2>1, <2>2 DEF ProbeSlug
<1>7. ASSUME NEW r \in Request, InsertTenant(r) PROVE Moves(r)
  <2>1. CASE Conflict(r, tx[r].slug, "slug")
    BY <1>4, <1>7, <2>1 DEF InsertTenant, Conflict
  <2>2. CASE CreateTenant(r)
    BY <1>1, <1>7, <2>2 DEF InsertTenant, CreateTenant, Moves, TxType
  <2> QED BY <1>7, <2>1, <2>2 DEF InsertTenant
<1>8. ASSUME NEW r \in Request, NEW p \in Perm, LookupPermission(r, p) PROVE Moves(r)
  <2>1. CASE tx' = [tx EXCEPT ![r].perms[p] = row[p]]
    BY <1>1, <1>8, <2>1 DEF LookupPermission, Moves, TxType
  <2>2. CASE tx' = [tx EXCEPT ![r].pc = "create"]
    <3>1. tx[r].perms[p] = None
      BY <1>8 DEF LookupPermission, NextPerm
    <3> QED BY <1>1, <1>8, <2>2, <3>1 DEF LookupPermission, Moves, TxType
  <2> QED BY <1>8, <2>1, <2>2 DEF LookupPermission
<1>9. ASSUME NEW r \in Request, NEW p \in Perm, CreatePermission(r, p) PROVE Moves(r)
  <2>1. CASE Conflict(r, p, "perm")
    BY <1>4, <1>9, <2>1 DEF CreatePermission, Conflict
  <2>2. CASE CreatePermissionRow(r, p)
    BY <1>1, <1>9, <2>2 DEF CreatePermission, CreatePermissionRow, Moves, TxType
  <2> QED BY <1>9, <2>1, <2>2 DEF CreatePermission
<1>10. ASSUME NEW r \in Request, LookupRole(r) PROVE Moves(r)
  <2>1. CASE Rollback(r, "role")
    BY <1>4, <1>10, <2>1 DEF LookupRole
  <2>2. CASE tx' = [tx EXCEPT ![r].pc = "assign"]
    BY <1>1, <1>10, <2>2 DEF LookupRole, Moves, TxType
  <2> QED BY <1>10, <2>1, <2>2 DEF LookupRole
<1>11. ASSUME NEW r \in Request, Commit(r) PROVE Moves(r)
  <2>1. PICK lost \in {"none", "fault"} :
          tx' = [tx EXCEPT ![r].pc = "committed", ![r].why = lost,
                           ![r].made = AssignRole(tx[r].made)]
    BY <1>11 DEF Commit
  <2>2. tx[r].pc \in {"assign", "lookup"}
    BY <1>11 DEF Commit
  <2> QED BY <1>1, <1>11, <2>1, <2>2 DEF Moves, TxType
<1>12. ASSUME NEW r \in Request, Abort(r) PROVE Moves(r)
  BY <1>4, <1>12 DEF Abort, Running
<1> QED
  BY <1>2, <1>3, <1>5, <1>6, <1>7, <1>8, <1>9, <1>10, <1>11, <1>12 DEF Next, Step

\* A tenant that a call refers to stays.
LEMMA TenantStep == Inv /\ TenantInv /\ [Next]_vars => TenantInv'
<1> SUFFICES ASSUME Inv, TenantInv, [Next]_vars PROVE TenantInv'
  OBVIOUS
<1>1. CASE UNCHANGED vars
  BY <1>1 DEF vars, TenantInv
<1>2. ASSUME NEW r \in Request, Moves(r) PROVE TenantInv'
  <2>1. \A q \in Request : tx[q].owner # None => tx[q].owner \in Request
    BY DEF Inv, TypeOK, TxType
  <2> QED BY <1>2, <2>1 DEF Moves, TenantInv
<1> QED BY <1>1, <1>2, OneCallMoves

\* And what a call is to create stays missing in its role.
LEMMA CreateStep == Inv /\ CreateInv /\ [Next]_vars => CreateInv'
<1> SUFFICES ASSUME Inv, CreateInv, [Next]_vars PROVE CreateInv'
  OBVIOUS
<1>1. CASE UNCHANGED vars
  BY <1>1 DEF vars, CreateInv
<1>2. ASSUME NEW r \in Request, Moves(r) PROVE CreateInv'
  BY <1>2 DEF Moves, CreateInv
<1> QED BY <1>1, <1>2, OneCallMoves

\* What a call commits is what everybody sees of it.
LEMMA QuietStep ==
    ASSUME Inv, TenantInv, NEW r \in Request, Moves(r), row' = row, tx'[r].pc # "committed"
    PROVE  UNCHANGED Visibly!vars
<1>1. ASSUME NEW q \in Request PROVE AccountOf(q)' = AccountOf(q)
  <2>1. CASE q = r
    BY <2>1 DEF Moves, AccountOf
  <2>2. CASE q # r
    <3>1. tx'[q] = tx[q]
      BY <2>2 DEF Moves
    <3>2. tx[q].owner # None => tx[q].owner \in Request \ {r}
      BY DEF Inv, TypeOK, TxType, TenantInv, Moves
    <3>3. TenantOf(q)' = TenantOf(q)
      BY <3>1, <3>2 DEF TenantOf, Moves
    <3> QED BY <3>1, <3>3 DEF AccountOf
  <2> QED BY <2>1, <2>2
<1>2. \A q \in Request : AccountOf(q)' = AccountOf(q)
  BY <1>1
<1>3. AccountsSeen' = AccountsSeen
  BY <1>2, Zenon DEF AccountsSeen, AccountOf, TenantOf
<1> QED BY <1>3 DEF Visibly!vars

\* Commit makes one account visible, with all that belongs to it.
LEMMA CommitRefines ==
    ASSUME Inv, TenantInv, NEW r \in Request, Commit(r), Moves(r)
    PROVE  Visibly!Next
<1> USE RegistrationAssumption
<1>0. TypeOK /\ tx[r] \in TxType /\ tx \in [Request -> TxType]
  BY DEF Inv, TypeOK
<1> DEFINE e == tx[r].email
<1>1. PICK lost \in {"none", "fault"} :
        tx' = [tx EXCEPT ![r].pc = "committed", ![r].why = lost,
                         ![r].made = AssignRole(tx[r].made)]
  BY DEF Commit
<1>2. /\ tx'[r].pc = "committed" /\ tx'[r].made = AssignRole(tx[r].made)
      /\ tx'[r].email = e /\ tx'[r].slug = tx[r].slug /\ tx'[r].owner = tx[r].owner
      /\ tx'[r].perms = tx[r].perms
      /\ \A q \in Request \ {r} : tx'[q] = tx[q]
  BY <1>0, <1>1 DEF TxType
<1>3. /\ e \in Email /\ Owns(r, e) /\ e \in Key /\ held[e] = r
      /\ tx[r].pc \in {"assign", "lookup"}
  BY DEF Commit, Inv, RegistrationInv, PhaseInv, HeldInv, Owns, Key
<1>4. \A k \in Key : row'[k] = IF Owns(r, k) THEN r ELSE row[k]
  BY DEF Commit, Inv, RegistrationInv, HeldInv
<1>5. \A k \in Key : Owns(r, k) => row[k] = None
  BY DEF Inv, RegistrationInv, HeldInv
<1>6. \A q \in Request \ {r} : AccountOf(q)' = AccountOf(q)
  <2> SUFFICES ASSUME NEW q \in Request \ {r} PROVE AccountOf(q)' = AccountOf(q)
    OBVIOUS
  <2>1. tx'[q] = tx[q]
    BY <1>2
  <2>2. tx[q].owner # None => tx[q].owner \in Request \ {r}
    BY DEF Inv, TypeOK, TxType, TenantInv, Moves
  <2>3. TenantOf(q)' = TenantOf(q)
    BY <2>1, <2>2, <1>2 DEF TenantOf
  <2> QED BY <2>1, <2>3 DEF AccountOf
<1>7. AccountsSeen[r] = Visibly!NoAccount
  BY <1>3 DEF AccountsSeen, AccountOf, Visibly!NoAccount
<1>8. AccountsSeen' = [AccountsSeen EXCEPT ![r] = AccountOf(r)']
  <2>1. /\ AccountsSeen = [q \in Request |-> AccountsSeen[q]]
        /\ AccountsSeen' = [q \in Request |-> AccountsSeen'[q]]
    BY DEF AccountsSeen, AccountOf, TenantOf
  <2>2. \A q \in Request \ {r} : AccountsSeen'[q] = AccountsSeen[q]
    BY <1>6 DEF AccountsSeen, AccountOf, TenantOf
  <2>3. AccountsSeen'[r] = AccountOf(r)'
    BY DEF AccountsSeen, AccountOf, TenantOf
  <2> QED BY <2>1, <2>2, <2>3
<1>9. CASE tx[r].pc = "lookup"
  <2> DEFINE s == tx[r].slug
  <2>1. s \in Slug /\ tx[r].owner = None /\ s \in Key /\ Owns(r, s)
    BY <1>9 DEF Inv, RegistrationInv, PhaseInv, Owns, Key
  <2>2. \A p \in Perm : p \in Key /\ tx[r].perms[p] \in Request \cup {None} /\ tx[r].perms[p] # None
    BY <1>0, <1>3, <1>9 DEF Commit, TxType, Key
  <2>3. \A p \in Perm : Owns(r, p) <=> tx[r].perms[p] = r
    BY <1>3, <1>9, <2>1 DEF Owns
  <2>4. \A p \in Perm : ~Owns(r, p) => row[p] = tx[r].perms[p] /\ row[p] # None
    BY <1>9, <2>2, <2>3 DEF Inv, RegistrationInv, AssignedInv, Running
  <2>5. \A p \in Perm : row'[p] = tx[r].perms[p]
    BY <1>4, <2>2, <2>3, <2>4
  <2>6. \A k \in Key : Owns(r, k) <=> k = e \/ k = s \/ (k \in Perm /\ row[k] = None)
    <3>1. \A k \in Perm : Owns(r, k) <=> row[k] = None
      BY <1>5, <2>2, <2>4
    <3> QED BY <1>3, <1>9, <3>1 DEF Owns
  <2>7. row' = [k \in Key |-> IF k = e \/ k = s \/ (k \in Perm /\ row[k] = None)
                              THEN r ELSE row[k]]
    <3>1. row' = [k \in Key |-> row'[k]]
      BY DEF Commit
    <3> QED BY <1>4, <2>6, <3>1
  <2>8. AccountOf(r)' = [email |-> e, tenant |-> s,
                         tables |-> {"credentials", "users", "roles", "user_roles"},
                         grants |-> [p \in Perm |-> row'[p]]]
    <3>1. tx'[r].made = {"credentials", "users", "roles", "user_roles"}
      BY <1>2, <1>9 DEF Inv, RegistrationInv, MadeInv, Filled, AssignRole
    <3>2. tx'[r].perms = [p \in Perm |-> row'[p]]
      BY <1>0, <1>2, <2>5 DEF TxType
    <3>3. TenantOf(r)' = s
      BY <1>2, <2>1 DEF TenantOf
    <3> QED BY <1>2, <3>1, <3>2, <3>3 DEF AccountOf
  <2>9. row[e] = None /\ row[s] = None
    BY <1>3, <1>5, <2>1
  <2>10. Visibly!Register(r, e, s)
    BY <1>7, <1>8, <2>7, <2>8, <2>9 DEF Visibly!Register, Key
  <2> QED BY <1>3, <2>1, <2>10 DEF Visibly!Next
<1>10. CASE tx[r].pc = "assign"
  <2> DEFINE o == tx[r].owner
  <2>1. /\ o \in Request \ {r} /\ tx[o].pc = "committed" /\ tx[o].owner = None
        /\ \A p \in Perm : tx[r].perms[p] = None
    BY <1>0, <1>10 DEF Inv, RegistrationInv, PhaseInv, TxType, TenantInv
  <2>2. \A k \in Key : Owns(r, k) <=> k = e
    BY <1>3, <1>10 DEF Owns
  <2>3. row' = [row EXCEPT ![e] = r]
    <3>1. row' = [k \in Key |-> row'[k]] /\ row = [k \in Key |-> row[k]]
      BY <1>0 DEF Commit, TypeOK
    <3> QED BY <1>3, <1>4, <2>2, <3>1
  <2>4. AccountsSeen[o].tenant = tx[o].slug /\ tx[o].slug \in Slug /\ row[tx[o].slug] = o
    <3>1. AccountOf(o).tenant = tx[o].slug
      BY <2>1 DEF AccountOf, TenantOf
    <3> QED BY <2>1, <3>1 DEF AccountsSeen, Inv, RowsCommitted
  <2>5. AccountOf(r)' = [email |-> e, tenant |-> AccountsSeen[o].tenant,
                         tables |-> {"credentials", "users", "user_roles"},
                         grants |-> [p \in Perm |-> None]]
    <3>1. tx'[r].made = {"credentials", "users", "user_roles"}
      BY <1>2, <1>10 DEF Inv, RegistrationInv, MadeInv, Filled, AssignRole
    <3>2. tx'[r].perms = [p \in Perm |-> None]
      BY <1>0, <1>2, <2>1 DEF TxType
    <3>3. TenantOf(r)' = AccountsSeen[o].tenant
      BY <1>2, <2>1, <2>4 DEF TenantOf
    <3> QED BY <1>2, <3>1, <3>2, <3>3 DEF AccountOf
  <2>6. Visibly!AddUser(r, e, o)
    BY <1>3, <1>5, <1>7, <1>8, <2>3, <2>4, <2>5 DEF Visibly!AddUser
  <2> QED BY <1>3, <2>1, <2>6 DEF Visibly!Next
<1> QED BY <1>3, <1>9, <1>10

\* Registrations and user creations that overlap are, to everybody else, whole
\* accounts that appear one at a time (register.go:74-201, tx.go:29-47).
THEOREM Refinement == Spec => RefinesAccounts
<1>1. Init => TenantInv /\ Visibly!Init
  <2> SUFFICES ASSUME Init PROVE TenantInv /\ Visibly!Init
    OBVIOUS
  <2>1. \A r \in Request : tx[r].pc = "new" /\ tx[r].owner = None
    BY DEF Init, NotBegun
  <2>2. TenantInv
    BY <2>1 DEF TenantInv
  <2>3. AccountsSeen = [r \in Request |-> Visibly!NoAccount]
    BY <2>1 DEF AccountsSeen, AccountOf, Visibly!NoAccount
  <2> QED BY <2>2, <2>3 DEF Visibly!Init, Init, Key
<1>2. Inv /\ TenantInv /\ [Next]_vars => [Visibly!Next]_(Visibly!vars)
  <2> SUFFICES ASSUME Inv, TenantInv, [Next]_vars PROVE [Visibly!Next]_(Visibly!vars)
    OBVIOUS
  <2>1. CASE UNCHANGED vars
    BY <2>1 DEF vars, Visibly!vars, AccountsSeen, AccountOf, TenantOf
  <2>2. ASSUME NEW r \in Request, Moves(r) PROVE [Visibly!Next]_(Visibly!vars)
    BY <2>2, QuietStep, CommitRefines DEF Moves
  <2> QED BY <2>1, <2>2, OneCallMoves
<1> QED BY InitInv, NextInv, TenantStep, <1>1, <1>2, PTL DEF Spec, RefinesAccounts, Visibly!Spec

-----------------------------------------------------------------------------
\* Among the calls under way one waits for no other: it wants no key, or one
\* that nobody holds (register.go:92-179).
THEOREM GoingOn == Spec => []SomeCallGoesOn
<1>1. Inv => SomeCallGoesOn
  <2> SUFFICES ASSUME Inv, \E r \in Request : Running(r)
               PROVE  \E r \in Request : Running(r) /\ \A k \in Key : Wants(r, k) => held[k] = None
    BY DEF SomeCallGoesOn
  <2> DEFINE S == {r \in Request : Running(r)}
  <2>1. PICK r \in S : \A q \in S : ~Waits(r, q)
    BY NoCycle DEF NoWaitCycle
  <2>2. ASSUME NEW k \in Key, Wants(r, k), held[k] # None PROVE FALSE
    <3>1. held[k] \in Request /\ Owns(held[k], k)
      BY <2>2 DEF Inv, TypeOK, RegistrationInv, HeldInv
    <3>2. held[k] \in S
      BY <3>1 DEF Owns, Running
    <3>3. CASE held[k] = r
      <4>1. Rank(k) < Rank(k)
        BY <2>1, <2>2, <3>3, KeysInOrder
      <4>2. Rank(k) \in Nat
        BY RegistrationAssumption DEF Rank, Key, Perm
      <4> QED BY <4>1, <4>2
    <3>4. CASE held[k] # r
      BY <2>1, <2>2, <3>2, <3>4 DEF Waits
    <3> QED BY <3>3, <3>4
  <2> QED BY <2>1, <2>2
<1> QED BY InitInv, NextInv, <1>1, PTL DEF Spec

\* There are finitely many permissions to assign.
LEMMA UnassignedFinite ==
    ASSUME NEW r \in Request
    PROVE  /\ IsFiniteSet(Unassigned(r)) /\ Cardinality(Unassigned(r)) \in Nat
           /\ (\A p \in Perm : tx[r].perms[p] = None) => Cardinality(Unassigned(r)) = NPerm
<1>1. IsFiniteSet(Perm) /\ Cardinality(Perm) = NPerm
  <2>1. NPerm \in Int /\ 1 \in Int /\ NPerm - 1 + 1 = NPerm
    BY RegistrationAssumption
  <2>2. IsFiniteSet(1..NPerm)
        /\ Cardinality(1..NPerm) = IF 1 > NPerm THEN 0 ELSE NPerm - 1 + 1
    BY <2>1, FS_Interval
  <2> QED BY <2>1, <2>2, RegistrationAssumption DEF Perm
<1>2. Unassigned(r) \subseteq Perm
  BY DEF Unassigned
<1>3. IsFiniteSet(Unassigned(r))
  BY <1>1, <1>2, FS_Subset
<1>4. Cardinality(Unassigned(r)) \in Nat
  BY <1>3, FS_CardinalityType
<1>5. (\A p \in Perm : tx[r].perms[p] = None) => Unassigned(r) = Perm
  BY DEF Unassigned
<1> QED BY <1>1, <1>3, <1>4, <1>5

\* What a call has left is a number, and more than none while it runs.
LEMMA CallsLeftType ==
    ASSUME Inv, CreateInv, NEW r \in Request, Running(r)
    PROVE  CallsLeft(r) \in Nat /\ CallsLeft(r) > 0
<1> USE RegistrationAssumption
<1>1. tx[r] \in TxType /\ tx[r].n \in 0..MaxSlugAttempts /\ Cardinality(Unassigned(r)) \in Nat
  BY UnassignedFinite DEF Inv, TypeOK, TxType
<1>2. CASE tx[r].pc = "create"
  <2>1. Cardinality(Unassigned(r)) # 0
    <3>1. Unassigned(r) # {}
      BY <1>2 DEF CreateInv, Unassigned
    <3> QED BY <3>1, UnassignedFinite, FS_EmptySet
  <2> QED BY <1>1, <1>2, <2>1 DEF CallsLeft
<1>3. CASE tx[r].pc # "create"
  <2>1. tx[r].pc \in {"identity", "slug", "tenant", "lookup", "role", "assign"}
    BY <1>1, <1>3 DEF Running, TxType
  <2>2. CASE tx[r].pc = "slug"
    <3>1. CallsLeft(r) = (MaxSlugAttempts - tx[r].n) + 2 * NPerm + 3
      BY ONLY <2>2 DEF CallsLeft
    <3>2. MaxSlugAttempts \in Nat /\ NPerm \in Nat
      OBVIOUS
    <3> QED BY ONLY <1>1, <3>1, <3>2
  <2>3. CASE tx[r].pc = "lookup"
    <3>1. CallsLeft(r) = 2 * Cardinality(Unassigned(r)) + 1
      BY ONLY <2>3 DEF CallsLeft
    <3> QED BY ONLY <1>1, <3>1
  <2>4. CASE tx[r].pc \in {"identity", "tenant"}
    BY <2>4 DEF CallsLeft
  <2>5. CASE tx[r].pc \in {"role", "assign"}
    BY <2>5 DEF CallsLeft
  <2> QED BY <2>1, <2>2, <2>3, <2>4, <2>5
<1> QED BY <1>2, <1>3

\* The only missing permission that a step assigns is no longer missing.
LEMMA OneAssigned ==
    ASSUME TypeOK, NEW r \in Request, NEW p \in Perm, tx[r].perms[p] = None,
           NEW x, x # None, tx'[r].perms = [tx[r].perms EXCEPT ![p] = x]
    PROVE  Cardinality(Unassigned(r))' = Cardinality(Unassigned(r)) - 1
<1>1. Unassigned(r)' = Unassigned(r) \ {p} /\ p \in Unassigned(r)
  <2>1. tx[r].perms \in [Perm -> Request \cup {None}]
    BY Fields
  <2> QED BY <2>1 DEF Unassigned
<1>2. Cardinality(Unassigned(r) \ {p}) = Cardinality(Unassigned(r)) - 1
  BY <1>1, UnassignedFinite, FS_RemoveElement
<1> QED BY <1>1, <1>2

\* A step of a call leaves it less to do.
LEMMA CallsLeftFalls ==
    ASSUME Inv, CreateInv, NEW r \in Request, Running(r), Step(r) \/ Abort(r)
    PROVE  CallsLeft(r)' < CallsLeft(r)
<1> USE RegistrationAssumption
<1>0. TypeOK
  BY DEF Inv
<1>1. /\ tx \in [Request -> TxType] /\ tx[r] \in TxType /\ tx[r].n \in 0..MaxSlugAttempts
      /\ Cardinality(Unassigned(r)) \in Nat
  BY <1>0, UnassignedFinite DEF TypeOK, TxType
<1>2. CallsLeft(r) \in Nat /\ CallsLeft(r) > 0
  BY CallsLeftType
<1>3. ASSUME tx'[r].pc \in {"failed", "committed"} PROVE CallsLeft(r)' < CallsLeft(r)
  <2>1. CallsLeft(r)' = 0
    BY <1>3 DEF CallsLeft
  <2> QED BY <1>2, <2>1
<1>4. ASSUME NEW why, Rollback(r, why) PROVE CallsLeft(r)' < CallsLeft(r)
  <2>1. tx'[r].pc = "failed"
    BY <1>1, <1>4 DEF Rollback, TxType
  <2> QED BY <1>3, <2>1
<1>5. ASSUME InsertIdentity(r) PROVE CallsLeft(r)' < CallsLeft(r)
  <2>1. CASE Conflict(r, tx[r].email, "email")
    BY <1>4, <2>1 DEF Conflict
  <2>2. CASE tx' = [tx EXCEPT ![r].pc = "slug", ![r].made = CreateCredential(tx[r].made)]
    <3>1. tx[r].pc = "identity" /\ tx'[r].pc = "slug" /\ tx'[r].n = 0
      BY <1>1, <1>5, <2>2 DEF InsertIdentity, TxType, Inv, RegistrationInv, PhaseInv
    <3> QED BY <3>1 DEF CallsLeft
  <2>3. CASE tx' = [tx EXCEPT ![r].pc = "role",
                              ![r].made = CreateUser(CreateCredential(tx[r].made))]
    <3>1. tx[r].pc = "identity" /\ tx'[r].pc = "role"
      BY <1>1, <1>5, <2>3 DEF InsertIdentity, TxType
    <3> QED BY <3>1 DEF CallsLeft
  <2> QED BY <1>5, <2>1, <2>2, <2>3 DEF InsertIdentity
<1>6. ASSUME ProbeSlug(r) PROVE CallsLeft(r)' < CallsLeft(r)
  <2>1. CASE Rollback(r, "exhausted")
    BY <1>4, <2>1
  <2>2. ASSUME NEW x, tx' = [tx EXCEPT ![r].pc = "tenant", ![r].slug = x]
        PROVE  CallsLeft(r)' < CallsLeft(r)
    <3>1. tx[r].pc = "slug" /\ tx'[r].pc = "tenant"
      BY <1>1, <1>6, <2>2 DEF ProbeSlug, TxType
    <3> QED BY <1>1, <3>1 DEF CallsLeft
  <2>3. CASE tx[r].n < MaxSlugAttempts /\ tx' = [tx EXCEPT ![r].n = tx[r].n + 1]
    <3>1. tx[r].pc = "slug" /\ tx'[r].pc = "slug" /\ tx'[r].n = tx[r].n + 1
      BY <1>1, <1>6, <2>3 DEF ProbeSlug, TxType
    <3> QED BY <1>1, <3>1 DEF CallsLeft
  <2> QED BY <1>6, <2>1, <2>2, <2>3 DEF ProbeSlug
<1>7. ASSUME InsertTenant(r) PROVE CallsLeft(r)' < CallsLeft(r)
  <2>1. CASE Conflict(r, tx[r].slug, "slug")
    BY <1>4, <2>1 DEF Conflict
  <2>2. CASE CreateTenant(r)
    <3>1. tx[r].pc = "tenant" /\ tx'[r].pc = "lookup" /\ tx'[r].perms = tx[r].perms
      BY <1>1, <1>7, <2>2 DEF InsertTenant, CreateTenant, TxType
    <3>2. Unassigned(r)' = Unassigned(r) /\ Cardinality(Unassigned(r)) = NPerm
      BY <3>1, UnassignedFinite DEF Unassigned, Inv, RegistrationInv, PhaseInv
    <3>3. CallsLeft(r) = 2 * NPerm + 2 /\ CallsLeft(r)' = 2 * NPerm + 1
      BY <3>1, <3>2 DEF CallsLeft
    <3> QED BY <3>3
  <2> QED BY <1>7, <2>1, <2>2 DEF InsertTenant
<1>8. ASSUME NEW p \in Perm, LookupPermission(r, p) PROVE CallsLeft(r)' < CallsLeft(r)
  <2>0. tx[r].pc = "lookup" /\ tx[r].perms[p] = None
    BY <1>8 DEF LookupPermission, NextPerm
  <2>1. CASE row[p] # None /\ tx' = [tx EXCEPT ![r].perms[p] = row[p]]
    <3>1. tx'[r].pc = "lookup" /\ tx'[r].perms = [tx[r].perms EXCEPT ![p] = row[p]]
      BY <1>1, <2>0, <2>1 DEF TxType
    <3>2. Cardinality(Unassigned(r))' = Cardinality(Unassigned(r)) - 1
      BY <1>0, <2>0, <2>1, <3>1, OneAssigned
    <3> QED BY <1>1, <2>0, <3>1, <3>2 DEF CallsLeft
  <2>2. CASE tx' = [tx EXCEPT ![r].pc = "create"]
    <3>1. tx'[r].pc = "create" /\ tx'[r].perms = tx[r].perms
      BY <1>1, <2>2 DEF TxType
    <3>2. Unassigned(r)' = Unassigned(r)
      BY <3>1 DEF Unassigned
    <3> QED BY <1>1, <2>0, <3>1, <3>2 DEF CallsLeft
  <2> QED BY <1>8, <2>1, <2>2 DEF LookupPermission
<1>9. ASSUME NEW p \in Perm, CreatePermission(r, p) PROVE CallsLeft(r)' < CallsLeft(r)
  <2>0. tx[r].pc = "create" /\ tx[r].perms[p] = None /\ r # None
    BY <1>9 DEF CreatePermission, NextPerm
  <2>1. CASE Conflict(r, p, "perm")
    BY <1>4, <2>1 DEF Conflict
  <2>2. CASE CreatePermissionRow(r, p)
    <3>1. tx'[r].pc = "lookup" /\ tx'[r].perms = [tx[r].perms EXCEPT ![p] = r]
      BY <1>1, <2>2 DEF CreatePermissionRow, TxType
    <3>2. Cardinality(Unassigned(r))' = Cardinality(Unassigned(r)) - 1
      BY <1>0, <2>0, <3>1, OneAssigned
    <3> QED BY <1>1, <2>0, <3>1, <3>2 DEF CallsLeft
  <2> QED BY <1>9, <2>1, <2>2 DEF CreatePermission
<1>10. ASSUME LookupRole(r) PROVE CallsLeft(r)' < CallsLeft(r)
  <2>1. CASE Rollback(r, "role")
    BY <1>4, <2>1
  <2>2. CASE tx' = [tx EXCEPT ![r].pc = "assign"]
    <3>1. tx[r].pc = "role" /\ tx'[r].pc = "assign"
      BY <1>1, <1>10, <2>2 DEF LookupRole, TxType
    <3> QED BY <3>1 DEF CallsLeft
  <2> QED BY <1>10, <2>1, <2>2 DEF LookupRole
<1>11. ASSUME Commit(r) PROVE CallsLeft(r)' < CallsLeft(r)
  <2>1. PICK lost \in {"none", "fault"} :
          tx' = [tx EXCEPT ![r].pc = "committed", ![r].why = lost,
                           ![r].made = AssignRole(tx[r].made)]
    BY <1>11 DEF Commit
  <2>2. tx'[r].pc = "committed"
    BY <1>1, <2>1 DEF TxType
  <2> QED BY <1>3, <2>2
<1>12. ASSUME Abort(r) PROVE CallsLeft(r)' < CallsLeft(r)
  BY <1>4, <1>12 DEF Abort
<1> QED BY <1>5, <1>6, <1>7, <1>8, <1>9, <1>10, <1>11, <1>12 DEF Step

\* Every call makes at most MaxSlugAttempts + 2 * NPerm + 4 calls to the
\* database after it has begun, whatever the other calls do
\* (slug_service.go:25-45, permission_bootstrap.go:52-90).
THEOREM Progress == Spec => CallsRunOut
<1>1. Inv /\ CreateInv /\ [Next]_vars
        => [\A r \in Request : Running(r) =>
              tx'[r] = tx[r] \/ CallsLeft(r)' < CallsLeft(r)]_vars
  <2> SUFFICES ASSUME Inv, CreateInv, Next, NEW r \in Request, Running(r)
               PROVE  tx'[r] = tx[r] \/ CallsLeft(r)' < CallsLeft(r)
    OBVIOUS
  <2>1. tx \in [Request -> TxType]
    BY DEF Inv, TypeOK
  <2>2. ASSUME NEW q \in Request, NEW e \in Email,
               BeginRegister(q, e) \/ \E o \in Request : BeginCreateUser(q, e, o)
        PROVE  tx'[r] = tx[r]
    BY <2>1, <2>2 DEF BeginRegister, BeginCreateUser, Running
  <2>3. ASSUME NEW q \in Request, q # r, Step(q) \/ Abort(q) PROVE tx'[r] = tx[r]
    <3>1. ASSUME NEW why, Rollback(q, why) PROVE tx'[r] = tx[r]
      BY <2>1, <2>3, <3>1 DEF Rollback
    <3>2. CASE InsertIdentity(q) \/ ProbeSlug(q)
      BY <2>1, <2>3, <3>1, <3>2 DEF InsertIdentity, ProbeSlug, Conflict
    <3>3. CASE InsertTenant(q)
      BY <2>1, <2>3, <3>1, <3>3 DEF InsertTenant, Conflict, CreateTenant
    <3>4. ASSUME NEW p \in Perm, LookupPermission(q, p) \/ CreatePermission(q, p)
          PROVE  tx'[r] = tx[r]
      BY <2>1, <2>3, <3>1, <3>4
         DEF LookupPermission, CreatePermission, CreatePermissionRow, Conflict
    <3>5. CASE LookupRole(q) \/ Commit(q)
      BY <2>1, <2>3, <3>1, <3>5 DEF LookupRole, Commit
    <3> QED BY <2>3, <3>1, <3>2, <3>3, <3>4, <3>5 DEF Step, Abort
  <2> QED BY <2>2, <2>3, CallsLeftFalls DEF Next
<1>2. Init => CreateInv
  BY DEF Init, NotBegun, CreateInv
<1> QED BY InitInv, NextInv, CreateStep, <1>1, <1>2, PTL DEF Spec, CallsRunOut

\* Types and registration invariant together, for every number of calls and
\* keys (register.go, tx.go).
THEOREM Inductive == Spec => []IInv
<1>1. Init => TenantInv /\ CreateInv
  BY DEF Init, NotBegun, TenantInv, CreateInv
<1>2. Inv => TypeOK /\ RegistrationInv
  BY DEF Inv
<1> QED BY InitInv, NextInv, TenantStep, CreateStep, <1>1, <1>2, PTL DEF Spec, IInv

=============================================================================
