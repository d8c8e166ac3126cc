--------------------------- MODULE SessionsProofs ---------------------------
(***************************************************************************)
(* Proofs about Sessions for any sets of sessions and requests, any        *)
(* lifetimes, either refresh endpoint, with or without failing calls.      *)
(***************************************************************************)
EXTENDS Sessions, TLAPS

\* The values of req[r]: what TypeOK says of them, named for the proofs.
ReqType == [pc : PC, sid : SessionId \cup {NoSession},
            new : SessionId \cup {NoSession}]

\* A countdown that is lowered stays within its bound.
LEMMA DecRange ==
    ASSUME NEW n \in Nat, NEW t \in 0..n
    PROVE  Dec(t) \in 0..n
  BY DEF Dec

\* Initially no row exists and every request slot is idle.
LEMMA InitInv == Init => TypeOK /\ RotationInv
  BY TTLAssumption, IdAssumption
     DEF Init, TypeOK, RotationInv, RowsInv, RequestsInv, NewIdsInv,
         ContentionInv, Rotates, Idle, PC

\* Every step keeps the types, given that requests work on existing rows.
LEMMA TypeStep == TypeOK /\ RequestsInv /\ [Next]_vars => TypeOK'
<1> SUFFICES ASSUME TypeOK, RequestsInv, [Next]_vars
             PROVE  TypeOK'
  OBVIOUS
<1> USE TTLAssumption, IdAssumption
<1>i. Idle \in ReqType
  BY DEF Idle, ReqType, PC
<1>g. ASSUME NEW r \in Request, NEW pc \in PC, Goto(r, pc)
      PROVE  req' \in [Request -> ReqType]
  BY <1>g DEF Goto, TypeOK, ReqType
<1>r. ASSUME NEW r \in Request, Reply(r)
      PROVE  req' \in [Request -> ReqType]
  BY <1>i, <1>r DEF Reply, TypeOK, ReqType
<1>s. ASSUME NEW r \in Request, NEW pc \in PC, NEW s \in SessionId \cup {NoSession},
             NEW c \in SessionId \cup {NoSession},
             req' = [req EXCEPT ![r] = [pc |-> pc, sid |-> s, new |-> c]]
      PROVE  req' \in [Request -> ReqType]
  BY <1>s DEF TypeOK, ReqType
<1> USE DEF PC
<1>1. ASSUME NEW r \in Request, NEW c \in SessionId, Login(r, c) PROVE TypeOK'
  <2>1. req' \in [Request -> ReqType]
    BY <1>1, <1>s DEF Login
  <2> QED BY <1>1, <2>1 DEF Login, CreateRow, TypeOK, ReqType
<1>2. ASSUME NEW r \in Request, Issue(r) PROVE TypeOK'
  <2>1. req' \in [Request -> ReqType]
    BY <1>2, <1>r DEF Issue
  <2>2. req[r].new \in SessionId
    BY <1>2 DEF Issue, RequestsInv
  <2> QED BY <1>2, <2>1, <2>2 DEF Issue, TypeOK, ReqType
<1>3. ASSUME NEW r \in Request, NEW s \in SessionId, NEW c \in SessionId,
             RefreshLookup(r, s, c) PROVE TypeOK'
  <2>1. req' \in [Request -> ReqType]
    BY <1>3, <1>s DEF RefreshLookup, Refresh, GetByRefreshTokenHash
  <2> QED BY <1>3, <2>1 DEF RefreshLookup, Refresh, GetByRefreshTokenHash, TypeOK, ReqType
<1>4. ASSUME NEW r \in Request, RefreshRevoke(r) PROVE TypeOK'
  <2>1. req' \in [Request -> ReqType]
    BY <1>4, <1>g DEF RefreshRevoke
  <2> QED BY <1>4, <2>1 DEF RefreshRevoke, RevokeRow, TypeOK, ReqType
<1>5. ASSUME NEW r \in Request, RefreshPurge(r) PROVE TypeOK'
  <2>1. req' \in [Request -> ReqType]
    BY <1>5, <1>g DEF RefreshPurge
  <2>2. cache' \in [SessionId -> 0..CacheTTL]
    BY <1>5 DEF RefreshPurge, CacheDelete, TypeOK
  <2> QED BY <1>5, <2>1, <2>2 DEF RefreshPurge, TypeOK, ReqType
<1>6. ASSUME NEW r \in Request, RefreshCreate(r) PROVE TypeOK'
  <2>1. req' \in [Request -> ReqType]
    BY <1>6, <1>g DEF RefreshCreate
  <2>2. req[r].sid \in SessionId /\ req[r].new \in SessionId
    BY <1>6 DEF RefreshCreate, RequestsInv
  <2> QED BY <1>6, <2>1, <2>2 DEF RefreshCreate, CreateRow, TypeOK, ReqType
<1>7. ASSUME NEW r \in Request, NEW s \in SessionId,
             BearerAuth(r, s) \/ HeaderCacheHit(r, s) \/ HeaderCacheMiss(r, s)
      PROVE TypeOK'
  <2>1. req' \in [Request -> ReqType]
    BY <1>7, <1>s DEF BearerAuth, Verify, HeaderCacheHit, HeaderCacheMiss
  <2> QED BY <1>7, <2>1 DEF BearerAuth, Verify, HeaderCacheHit, HeaderCacheMiss, TypeOK, ReqType
<1>8. ASSUME NEW r \in Request, HeaderLoad(r) PROVE TypeOK'
  <2>1. req' \in [Request -> ReqType]
    BY <1>8, <1>g, <1>r DEF HeaderLoad
  <2> QED BY <1>8, <2>1 DEF HeaderLoad, TypeOK, ReqType
<1>9. ASSUME NEW r \in Request, HeaderPut(r) PROVE TypeOK'
  <2>1. req' \in [Request -> ReqType]
    BY <1>9, <1>g DEF HeaderPut
  <2>2. cache' \in [SessionId -> 0..CacheTTL]
    BY <1>9 DEF HeaderPut, CachePut, TypeOK
  <2> QED BY <1>9, <2>1, <2>2 DEF HeaderPut, TypeOK, ReqType
<1>10. ASSUME NEW r \in Request,
              IssueAccessToken(r) \/ Handle(r) \/ LogoutLookup(r) \/ Abort(r)
       PROVE TypeOK'
  <2>1. req' \in [Request -> ReqType]
    BY <1>10, <1>g, <1>r DEF IssueAccessToken, Handle, LogoutLookup, Abort
  <2> QED BY <1>10, <2>1
          DEF IssueAccessToken, Handle, LogoutLookup, Abort, TypeOK, ReqType
<1>11. ASSUME NEW r \in Request, LogoutRevoke(r) PROVE TypeOK'
  <2>1. req' \in [Request -> ReqType]
    BY <1>11, <1>g DEF LogoutRevoke
  <2> QED BY <1>11, <2>1 DEF LogoutRevoke, RevokeRow, TypeOK, ReqType
<1>12. ASSUME NEW r \in Request, LogoutPurge(r) PROVE TypeOK'
  <2>1. req' \in [Request -> ReqType]
    BY <1>12, <1>r DEF LogoutPurge
  <2>2. cache' \in [SessionId -> 0..CacheTTL]
    BY <1>12 DEF LogoutPurge, CacheDelete, TypeOK
  <2> QED BY <1>12, <2>1, <2>2 DEF LogoutPurge, TypeOK, ReqType
<1>13. ASSUME Tick PROVE TypeOK'
  BY <1>13, DecRange DEF Tick, TypeOK
<1>14. ASSUME UNCHANGED vars PROVE TypeOK'
  BY <1>14 DEF vars, TypeOK
<1> QED
  BY <1>1, <1>2, <1>3, <1>4, <1>5, <1>6, <1>7, <1>8, <1>9, <1>10, <1>11, <1>12,
     <1>13, <1>14 DEF Next, ServerStep, Logout, ClientStep

\* A step that starts no rotation and writes no successor keeps ContentionInv.
LEMMA ContentionKept ==
    ASSUME ContentionInv, UNCHANGED <<parent, contended>>,
           \A r \in Request, s \in SessionId : Rotates(r, s)' => Rotates(r, s)
    PROVE  ContentionInv'
  BY DEF ContentionInv

\* Every step keeps the inductive invariant.
LEMMA RotationStep == TypeOK /\ RotationInv /\ [Next]_vars => RotationInv'
<1> SUFFICES ASSUME TypeOK, RotationInv, [Next]_vars
             PROVE  RotationInv'
  OBVIOUS
<1> USE IdAssumption DEF TypeOK, RotationInv
<1>1. ASSUME NEW r \in Request, NEW c \in SessionId, Login(r, c)
      PROVE  RotationInv'
  <2> USE <1>1 DEF Login, CreateRow, Fresh, Unused
  <2>1. RowsInv'
    BY DEF RowsInv, RequestsInv
  <2>2. RequestsInv'
    BY DEF RowsInv, RequestsInv, NewIdsInv
  <2>3. NewIdsInv'
    BY DEF RequestsInv, NewIdsInv
  <2>4. ContentionInv'
    BY DEF RowsInv, RequestsInv, ContentionInv, Rotates
  <2> QED BY <2>1, <2>2, <2>3, <2>4
<1>2. ASSUME NEW r \in Request, Issue(r)
      PROVE  RotationInv'
  <2> USE <1>2 DEF Issue, Reply, Idle
  <2>1. RowsInv'
    BY DEF RowsInv, RequestsInv
  <2>2. RequestsInv'
    BY DEF RowsInv, RequestsInv, NewIdsInv
  <2>3. NewIdsInv'
    BY DEF RequestsInv, NewIdsInv
  <2>4. \A q \in Request, p \in SessionId : Rotates(q, p)' => Rotates(q, p)
    BY DEF Rotates
  <2>5. ContentionInv'
    BY <2>4, ContentionKept
  <2> QED BY <2>1, <2>2, <2>3, <2>5
<1>3. ASSUME NEW r \in Request, NEW s \in SessionId, NEW c \in SessionId,
             RefreshLookup(r, s, c)
      PROVE  RotationInv'
  <2> USE <1>3 DEF RefreshLookup, Refresh, GetByRefreshTokenHash, Live, Fresh, Unused, Holds
  <2>1. RowsInv'
    BY DEF RowsInv, RequestsInv
  <2>2. RequestsInv'
    BY DEF RowsInv, RequestsInv, NewIdsInv
  <2>3. NewIdsInv'
    BY DEF RequestsInv, NewIdsInv
  <2>4. ContentionInv'
    BY DEF RowsInv, RequestsInv, ContentionInv, Rotates
  <2> QED BY <2>1, <2>2, <2>3, <2>4
<1>4. ASSUME NEW r \in Request, RefreshRevoke(r)
      PROVE  RotationInv'
  <2> USE <1>4 DEF RefreshRevoke, RevokeRow, Goto
  <2>1. RowsInv'
    BY DEF RowsInv, RequestsInv
  <2>2. RequestsInv'
    BY DEF RowsInv, RequestsInv, NewIdsInv
  <2>3. NewIdsInv'
    BY DEF RequestsInv, NewIdsInv
  <2>4. \A q \in Request, p \in SessionId : Rotates(q, p)' => Rotates(q, p)
    BY DEF Rotates
  <2>5. ContentionInv'
    BY <2>4, ContentionKept
  <2> QED BY <2>1, <2>2, <2>3, <2>5
<1>5. ASSUME NEW r \in Request, RefreshPurge(r)
      PROVE  RotationInv'
  <2> USE <1>5 DEF RefreshPurge, Goto
  <2>1. RowsInv'
    BY DEF RowsInv, RequestsInv
  <2>2. RequestsInv'
    BY DEF RowsInv, RequestsInv, NewIdsInv
  <2>3. NewIdsInv'
    BY DEF RequestsInv, NewIdsInv
  <2>4. \A q \in Request, p \in SessionId : Rotates(q, p)' => Rotates(q, p)
    BY DEF Rotates
  <2>5. ContentionInv'
    BY <2>4, ContentionKept
  <2> QED BY <2>1, <2>2, <2>3, <2>5
<1>6. ASSUME NEW r \in Request, RefreshCreate(r)
      PROVE  RotationInv'
  <2> USE <1>6 DEF RefreshCreate, CreateRow, Goto
  <2>1. RowsInv'
    BY DEF RowsInv, RequestsInv
  <2>2. RequestsInv'
    BY DEF RowsInv, RequestsInv, NewIdsInv
  <2>3. NewIdsInv'
    BY DEF RequestsInv, NewIdsInv
  <2>4. ContentionInv'
    BY DEF RowsInv, RequestsInv, ContentionInv, Rotates
  <2> QED BY <2>1, <2>2, <2>3, <2>4
<1>7. ASSUME NEW r \in Request, NEW s \in SessionId,
             BearerAuth(r, s) \/ HeaderCacheHit(r, s) \/ HeaderCacheMiss(r, s)
      PROVE  RotationInv'
  <2> USE <1>7 DEF BearerAuth, Verify, HeaderCacheHit, HeaderCacheMiss
  <2>1. RowsInv'
    BY DEF RowsInv, RequestsInv
  <2>2. RequestsInv'
    BY DEF RowsInv, RequestsInv, NewIdsInv
  <2>3. NewIdsInv'
    BY DEF RequestsInv, NewIdsInv
  <2>4. \A q \in Request, p \in SessionId : Rotates(q, p)' => Rotates(q, p)
    BY DEF Rotates
  <2>5. ContentionInv'
    BY <2>4, ContentionKept
  <2> QED BY <2>1, <2>2, <2>3, <2>5
<1>8. ASSUME NEW r \in Request, HeaderLoad(r)
      PROVE  RotationInv'
  <2> USE <1>8 DEF HeaderLoad, Goto, Reply, Idle
  <2>1. RowsInv'
    BY DEF RowsInv, RequestsInv
  <2>2. RequestsInv'
    BY DEF RowsInv, RequestsInv, NewIdsInv
  <2>3. NewIdsInv'
    BY DEF RequestsInv, NewIdsInv
  <2>4. \A q \in Request, p \in SessionId : Rotates(q, p)' => Rotates(q, p)
    BY DEF Rotates
  <2>5. ContentionInv'
    BY <2>4, ContentionKept
  <2> QED BY <2>1, <2>2, <2>3, <2>5
<1>9. ASSUME NEW r \in Request, HeaderPut(r)
      PROVE  RotationInv'
  <2> USE <1>9 DEF HeaderPut, Goto
  <2>1. RowsInv'
    BY DEF RowsInv, RequestsInv
  <2>2. RequestsInv'
    BY DEF RowsInv, RequestsInv, NewIdsInv
  <2>3. NewIdsInv'
    BY DEF RequestsInv, NewIdsInv
  <2>4. \A q \in Request, p \in SessionId : Rotates(q, p)' => Rotates(q, p)
    BY DEF Rotates
  <2>5. ContentionInv'
    BY <2>4, ContentionKept
  <2> QED BY <2>1, <2>2, <2>3, <2>5
<1>10. ASSUME NEW r \in Request,
              IssueAccessToken(r) \/ Handle(r) \/ LogoutLookup(r) \/ Abort(r)
      PROVE  RotationInv'
  <2> USE <1>10 DEF IssueAccessToken, Handle, LogoutLookup, Abort, Goto, Reply, Idle
  <2>1. RowsInv'
    BY DEF RowsInv, RequestsInv
  <2>2. RequestsInv'
    BY DEF RowsInv, RequestsInv, NewIdsInv
  <2>3. NewIdsInv'
    BY DEF RequestsInv, NewIdsInv
  <2>4. \A q \in Request, p \in SessionId : Rotates(q, p)' => Rotates(q, p)
    BY DEF Rotates
  <2>5. ContentionInv'
    BY <2>4, ContentionKept
  <2> QED BY <2>1, <2>2, <2>3, <2>5
<1>11. ASSUME NEW r \in Request, LogoutRevoke(r)
      PROVE  RotationInv'
  <2> USE <1>11 DEF LogoutRevoke, RevokeRow, Goto
  <2>1. RowsInv'
    BY DEF RowsInv, RequestsInv
  <2>2. RequestsInv'
    BY DEF RowsInv, RequestsInv, NewIdsInv
  <2>3. NewIdsInv'
    BY DEF RequestsInv, NewIdsInv
  <2>4. \A q \in Request, p \in SessionId : Rotates(q, p)' => Rotates(q, p)
    BY DEF Rotates
  <2>5. ContentionInv'
    BY <2>4, ContentionKept
  <2> QED BY <2>1, <2>2, <2>3, <2>5
<1>12. ASSUME NEW r \in Request, LogoutPurge(r)
      PROVE  RotationInv'
  <2> USE <1>12 DEF LogoutPurge, Reply, Idle
  <2>1. RowsInv'
    BY DEF RowsInv, RequestsInv
  <2>2. RequestsInv'
    BY DEF RowsInv, RequestsInv, NewIdsInv
  <2>3. NewIdsInv'
    BY DEF RequestsInv, NewIdsInv
  <2>4. \A q \in Request, p \in SessionId : Rotates(q, p)' => Rotates(q, p)
    BY DEF Rotates
  <2>5. ContentionInv'
    BY <2>4, ContentionKept
  <2> QED BY <2>1, <2>2, <2>3, <2>5
<1>13. ASSUME Tick PROVE RotationInv'
  BY <1>13 DEF Tick, Dec, RowsInv, RequestsInv, NewIdsInv, ContentionInv, Rotates
<1>14. ASSUME UNCHANGED vars PROVE RotationInv'
  BY <1>14 DEF vars, RowsInv, RequestsInv, NewIdsInv, ContentionInv, Rotates
<1> QED
  BY <1>1, <1>2, <1>3, <1>4, <1>5, <1>6, <1>7, <1>8, <1>9, <1>10, <1>11, <1>12, <1>13, <1>14
     DEF Next, ServerStep, Logout, ClientStep

-----------------------------------------------------------------------------
\* Types and the inductive invariant hold in every reachable state.
THEOREM Invariance == Spec => [](TypeOK /\ RotationInv)
<1>1. TypeOK /\ RotationInv /\ [Next]_vars => (TypeOK /\ RotationInv)'
  BY TypeStep, RotationStep DEF RotationInv
<1> QED
  BY InitInv, <1>1, PTL DEF Spec

\* The type invariant holds for every value of the constants.
THEOREM TypeCorrect == Spec => []TypeOK
  BY Invariance, PTL

\* Rotation never leaves a predecessor usable: a session with a successor is
\* revoked (the order of Revoke and Create in refresh.go and token.go).
THEOREM ParentsRevoked == Spec => []ParentsAreRevoked
<1>1. RotationInv => ParentsAreRevoked
  BY DEF RotationInv, RowsInv, ParentsAreRevoked
<1> QED
  BY Invariance, <1>1, PTL

\* Two successors of one session always come from two refreshes that overlapped
\* between the check of revoked_at and the update of it.
THEOREM OneSuccessor == Spec => []OneSuccessorUnlessContended
<1>1. TypeOK /\ RotationInv => OneSuccessorUnlessContended
  BY DEF TypeOK, RotationInv, ContentionInv, OneSuccessorUnlessContended
<1> QED
  BY Invariance, <1>1, PTL

\* Once the requests that had read a session live or were to issue its tokens
\* are gone, no step makes the cache entry or the access token of a revoked or
\* expired session younger, and none makes its row live again.
THEOREM SealedFades == Spec => SealedOnlyFades
<1>1. TypeOK /\ RotationInv /\ [Next]_vars
        => [\A s \in SessionId :
              Sealed(s) => Sealed(s)' /\ cache'[s] <= cache[s] /\ jwt'[s] <= jwt[s]]_vars
  <2> SUFFICES ASSUME TypeOK, RotationInv, Next,
                      NEW s \in SessionId, Sealed(s)
               PROVE  Sealed(s)' /\ cache'[s] <= cache[s] /\ jwt'[s] <= jwt[s]
    OBVIOUS
  <2> DEFINE Goal == Sealed(s)' /\ cache'[s] <= cache[s] /\ jwt'[s] <= jwt[s]
  <2> USE TTLAssumption, IdAssumption
      DEF TypeOK, Sealed, Goto, Reply, Idle
  <2>0. /\ cache[s] \in Nat /\ cache[s] <= cache[s] /\ 0 <= cache[s]
        /\ jwt[s] \in Nat /\ jwt[s] <= jwt[s] /\ life[s] \in Nat
    OBVIOUS
  <2>1. ASSUME NEW r \in Request, NEW c \in SessionId, Login(r, c)
        PROVE  Goal
    BY <2>0, <2>1 DEF Login, CreateRow, Fresh, Unused
  <2>2. ASSUME NEW r \in Request, NEW p \in SessionId, NEW c \in SessionId,
               RefreshLookup(r, p, c)
        PROVE  Goal
    BY <2>0, <2>2 DEF RefreshLookup, Refresh, GetByRefreshTokenHash
  <2>3. ASSUME NEW r \in Request, RefreshRevoke(r) \/ LogoutRevoke(r)
        PROVE  Goal
    BY <2>0, <2>3 DEF RefreshRevoke, LogoutRevoke, RevokeRow
  <2>4. ASSUME NEW r \in Request, RefreshPurge(r) \/ LogoutPurge(r)
        PROVE  Goal
    BY <2>0, <2>4 DEF RefreshPurge, LogoutPurge, CacheDelete
  <2>5. ASSUME NEW r \in Request, RefreshCreate(r)
        PROVE  Goal
    BY <2>0, <2>5 DEF RefreshCreate, CreateRow, RotationInv, RequestsInv
  <2>6. ASSUME NEW r \in Request, NEW p \in SessionId,
               BearerAuth(r, p) \/ HeaderCacheHit(r, p) \/ HeaderCacheMiss(r, p)
        PROVE  Goal
    BY <2>0, <2>6 DEF BearerAuth, Verify, HeaderCacheHit, HeaderCacheMiss
  <2>7. ASSUME NEW r \in Request, HeaderLoad(r)
        PROVE  Goal
    BY <2>0, <2>7 DEF HeaderLoad, Live
  <2>8. ASSUME NEW r \in Request, HeaderPut(r)
        PROVE  Goal
    BY <2>0, <2>8 DEF HeaderPut, CachePut
  <2>9. ASSUME NEW r \in Request,
               \/ IssueAccessToken(r) \/ Issue(r)
               \/ Handle(r) \/ LogoutLookup(r) \/ Abort(r)
        PROVE  Goal
    BY <2>0, <2>9 DEF IssueAccessToken, Issue, Handle, LogoutLookup, Abort
  <2>10. ASSUME Tick PROVE Goal
    BY <2>0, <2>10 DEF Tick, Dec
  <2> QED
    BY <2>1, <2>2, <2>3, <2>4, <2>5, <2>6, <2>7, <2>8, <2>9, <2>10
       DEF Next, ServerStep, Logout, ClientStep
<1> QED
  BY Invariance, <1>1, PTL DEF Spec, SealedOnlyFades

\* No step brings a live session back into a family that is over.
THEOREM FinishedFamilies == Spec => FinishedFamiliesStayOver
<1>1. TypeOK /\ RotationInv /\ [Next]_vars
        => [\A F \in SUBSET Revoked : Over(F) => Over(F)']_vars
  <2> SUFFICES ASSUME TypeOK, RotationInv, Next,
                      NEW F \in SUBSET Revoked, Over(F)
               PROVE  Over(F)'
    OBVIOUS
  <2> USE IdAssumption DEF TypeOK, Over, Revoked, Rotates, Goto, Reply, Idle
  <2>1. ASSUME NEW r \in Request, NEW c \in SessionId, Login(r, c)
        PROVE  Over(F)'
    BY <2>1 DEF Login, CreateRow, Fresh, Unused
  <2>2. ASSUME NEW r \in Request, NEW p \in SessionId, NEW c \in SessionId,
               RefreshLookup(r, p, c)
        PROVE  Over(F)'
    BY <2>2 DEF RefreshLookup, Refresh, GetByRefreshTokenHash, Live
  <2>3. ASSUME NEW r \in Request, RefreshRevoke(r) \/ LogoutRevoke(r)
        PROVE  Over(F)'
    BY <2>3 DEF RefreshRevoke, LogoutRevoke, RevokeRow
  <2>4. ASSUME NEW r \in Request, RefreshCreate(r)
        PROVE  Over(F)'
    BY <2>4 DEF RefreshCreate, CreateRow, RotationInv, RequestsInv
  <2>5. ASSUME NEW r \in Request, NEW p \in SessionId,
               BearerAuth(r, p) \/ HeaderCacheHit(r, p) \/ HeaderCacheMiss(r, p)
        PROVE  Over(F)'
    BY <2>5 DEF BearerAuth, Verify, HeaderCacheHit, HeaderCacheMiss
  <2>6. ASSUME NEW r \in Request,
               \/ IssueAccessToken(r) \/ Issue(r)
               \/ RefreshPurge(r) \/ HeaderLoad(r) \/ HeaderPut(r)
               \/ Handle(r) \/ LogoutLookup(r) \/ LogoutPurge(r) \/ Abort(r)
        PROVE  Over(F)'
    BY <2>6 DEF IssueAccessToken, Issue, RefreshPurge, HeaderLoad, HeaderPut, Handle,
                LogoutLookup, LogoutPurge, Abort
  <2>7. ASSUME Tick PROVE Over(F)'
    BY <2>7 DEF Tick
  <2> QED
    BY <2>1, <2>2, <2>3, <2>4, <2>5, <2>6, <2>7 DEF Next, ServerStep, Logout, ClientStep
<1> QED
  BY Invariance, <1>1, PTL DEF Spec, FinishedFamiliesStayOver

\* The endpoints implement SessionTree: each of their calls inserts a live
\* first session, revokes a live one, inserts a successor under a revoked
\* parent, or leaves status and parent alone.
THEOREM Refinement == Spec => RefinesSessionTree
<1>1. Init => Tree!Init
  BY DEF Init, Tree!Init
<1>2. TypeOK /\ RotationInv /\ [Next]_vars => [Tree!Next]_(Tree!vars)
  <2> SUFFICES ASSUME TypeOK, RotationInv, [Next]_vars
               PROVE  Tree!Next \/ UNCHANGED Tree!vars
    OBVIOUS
  <2> USE DEF Tree!vars
  <2>1. ASSUME NEW r \in Request, NEW c \in SessionId, Login(r, c)
        PROVE  Tree!Open(c)
    <3>1. parent' = parent
      BY <2>1 DEF Login, CreateRow, Fresh, Unused, TypeOK, RotationInv, RowsInv
    <3> QED BY <2>1, <3>1 DEF Login, CreateRow, Fresh, Unused, Tree!Open
  <2>2. ASSUME NEW r \in Request, RefreshRevoke(r) \/ LogoutRevoke(r)
        PROVE  Tree!Revoke(req[r].sid) \/ UNCHANGED Tree!vars
    BY <2>2 DEF RefreshRevoke, LogoutRevoke, RevokeRow, TypeOK, RotationInv,
                RequestsInv, Tree!Revoke
  <2>3. ASSUME NEW r \in Request, RefreshCreate(r)
        PROVE  Tree!Succeed(req[r].sid, req[r].new)
    BY <2>3 DEF RefreshCreate, CreateRow, RotationInv, RequestsInv, Tree!Succeed
  <2>4. ASSUME NEW r \in Request, RefreshRevoke(r) \/ LogoutRevoke(r) \/ RefreshCreate(r)
        PROVE  req[r].sid \in SessionId /\ (RefreshCreate(r) => req[r].new \in SessionId)
    BY <2>4 DEF RefreshRevoke, LogoutRevoke, RefreshCreate, RotationInv, RequestsInv
  <2>5. ASSUME NEW r \in Request,
               \/ IssueAccessToken(r) \/ Issue(r)
               \/ RefreshPurge(r) \/ HeaderLoad(r) \/ HeaderPut(r)
               \/ Handle(r) \/ LogoutLookup(r) \/ LogoutPurge(r) \/ Abort(r)
        PROVE  UNCHANGED Tree!vars
    BY <2>5 DEF IssueAccessToken, Issue, RefreshPurge, HeaderLoad, HeaderPut, Handle,
                LogoutLookup, LogoutPurge, Abort
  <2>6. ASSUME NEW r \in Request, NEW s \in SessionId,
               \/ \E c \in SessionId : RefreshLookup(r, s, c)
               \/ BearerAuth(r, s) \/ HeaderCacheHit(r, s) \/ HeaderCacheMiss(r, s)
        PROVE  UNCHANGED Tree!vars
    BY <2>6 DEF RefreshLookup, Refresh, GetByRefreshTokenHash, BearerAuth, Verify,
                   HeaderCacheHit, HeaderCacheMiss
  <2>7. ASSUME Tick \/ UNCHANGED vars PROVE UNCHANGED Tree!vars
    BY <2>7 DEF Tick, vars
  <2> QED
    BY <2>1, <2>2, <2>3, <2>4, <2>5, <2>6, <2>7
       DEF Next, ServerStep, Logout, ClientStep, Tree!Next
<1> QED
  BY Invariance, <1>1, <1>2, PTL DEF Spec, RefinesSessionTree, Tree!Spec

\* The row that a request is to issue tokens for stays its session's successor.
LEMMA SuccessorStep ==
    TypeOK /\ RotationInv /\ SuccessorInv /\ [Next]_vars => SuccessorInv'
<1> SUFFICES ASSUME TypeOK, RotationInv, SuccessorInv, [Next]_vars PROVE SuccessorInv'
  OBVIOUS
<1> USE IdAssumption DEF TypeOK, SuccessorInv, Goto, Reply, Idle
<1>1. ASSUME NEW r \in Request, NEW c \in SessionId, Login(r, c) PROVE SuccessorInv'
  BY <1>1 DEF Login, CreateRow, Fresh, Unused
<1>2. ASSUME NEW r \in Request, NEW p \in SessionId, NEW c \in SessionId, RefreshLookup(r, p, c)
      PROVE  SuccessorInv'
  BY <1>2 DEF RefreshLookup
<1>3. ASSUME NEW r \in Request, RefreshCreate(r) PROVE SuccessorInv'
  <2>1. /\ req[r].new \in SessionId /\ req[r].pc = "rt_create"
        /\ parent' = [parent EXCEPT ![req[r].new] = req[r].sid]
        /\ req' = [req EXCEPT ![r].pc = "issue"]
    BY <1>3 DEF RefreshCreate, CreateRow, RotationInv, RequestsInv
  <2>2. \A q \in Request \ {r} : req[q].new # req[r].new
    BY <2>1 DEF RotationInv, NewIdsInv
  <2>3. /\ req'[r].new = req[r].new /\ req'[r].sid = req[r].sid
        /\ \A q \in Request \ {r} : req'[q] = req[q]
    BY <2>1
  <2>4. /\ parent'[req[r].new] = req[r].sid
        /\ \A q \in Request \ {r} : parent'[req[q].new] = parent[req[q].new]
    BY <2>1, <2>2
  <2> QED BY <2>3, <2>4
<1>4. ASSUME NEW r \in Request,
             \/ Issue(r) \/ RefreshRevoke(r) \/ RefreshPurge(r) \/ HeaderLoad(r) \/ HeaderPut(r)
             \/ Handle(r) \/ Logout(r) \/ Abort(r)
      PROVE  SuccessorInv'
  <2>1. /\ UNCHANGED parent
        /\ \/ req' = [req EXCEPT ![r] = Idle]
           \/ \E pc \in PC \ {"issue", "idtoken"} : req' = [req EXCEPT ![r].pc = pc]
    BY <1>4 DEF Issue, RefreshRevoke, RefreshPurge, HeaderLoad, HeaderPut, Handle, Logout,
       LogoutLookup, LogoutRevoke, LogoutPurge, Abort, RevokeRow, PC
  <2> QED BY <2>1
<1>5. ASSUME NEW r \in Request, NEW s \in SessionId,
             BearerAuth(r, s) \/ HeaderCacheHit(r, s) \/ HeaderCacheMiss(r, s)
      PROVE  SuccessorInv'
  BY <1>5 DEF BearerAuth, HeaderCacheHit, HeaderCacheMiss
<1>6. ASSUME NEW r \in Request, IssueAccessToken(r) PROVE SuccessorInv'
  BY <1>6 DEF IssueAccessToken
<1>7. CASE Tick \/ UNCHANGED vars
  BY <1>7 DEF Tick, vars
<1> QED BY <1>1, <1>2, <1>3, <1>4, <1>5, <1>6, <1>7 DEF Next, ServerStep, ClientStep

\* The rows of sessions and the refreshes under way fit together.
THEOREM Successors == Spec => []SuccessorInv
<1>1. Init => SuccessorInv
  BY DEF Init, Idle, SuccessorInv
<1> QED BY Invariance, <1>1, SuccessorStep, PTL DEF Spec

\* An id is lost only when the request that has it is over, and an id that was
\* lost is found again before a request works with it.
LEMMA LostStep ==
    TypeOK /\ NewIdsInv /\ LostInv /\ [Next]_vars => LostInv'
<1> SUFFICES ASSUME TypeOK, NewIdsInv, LostInv, [Next]_vars PROVE LostInv'
  OBVIOUS
<1> USE IdAssumption DEF TypeOK, LostInv, Goto, Reply, Idle
<1>1. ASSUME NEW r \in Request, NEW c \in SessionId, Login(r, c) PROVE LostInv'
  BY <1>1 DEF Login
<1>2. ASSUME NEW r \in Request, NEW p \in SessionId, NEW c \in SessionId, RefreshLookup(r, p, c)
      PROVE  LostInv'
  BY <1>2 DEF RefreshLookup
<1>3. ASSUME NEW r \in Request, ServerStep(r) PROVE LostInv'
  <2>1. UNCHANGED lost /\ \/ req' = [req EXCEPT ![r] = Idle]
                          \/ \E pc \in PC : req' = [req EXCEPT ![r].pc = pc]
    BY <1>3 DEF ServerStep, IssueAccessToken, Issue, RefreshRevoke, RefreshPurge,
       RefreshCreate, HeaderLoad, HeaderPut, Handle, Logout, LogoutLookup, LogoutRevoke,
       LogoutPurge, PC
  <2> QED BY <2>1
<1>4. ASSUME NEW r \in Request, Abort(r) PROVE LostInv'
  BY <1>4 DEF Abort, NewIdsInv
<1>5. ASSUME NEW r \in Request, NEW s \in SessionId,
             BearerAuth(r, s) \/ HeaderCacheHit(r, s) \/ HeaderCacheMiss(r, s)
      PROVE  LostInv'
  BY <1>5 DEF BearerAuth, HeaderCacheHit, HeaderCacheMiss
<1>6. CASE Tick \/ UNCHANGED vars
  BY <1>6 DEF Tick, vars
<1> QED BY <1>1, <1>2, <1>3, <1>4, <1>5, <1>6 DEF Next, ClientStep

\* No request works with an id that a failed call has lost.
THEOREM NothingLostAtWork == Spec => []LostInv
<1>1. Init => LostInv
  BY DEF Init, LostInv
<1> QED BY Invariance, <1>1, LostStep, PTL DEF Spec, RotationInv

\* Each refresh that has passed its check stays at work, with the same successor
\* in mind, until its client has that very successor or one of its own calls has
\* failed, whatever other refreshes of the same session do: the safety half of
\* RefreshHandsOver, for any number of requests (refresh.go:75-147).
THEOREM RefreshesKept == Spec => RefreshesAccountedFor
<1>1. TypeOK /\ RotationInv /\ SuccessorInv /\ LostInv /\ [Next]_vars
        => [\A r \in Request, s, c \in SessionId : Refreshes(r, s, c) =>
              Refreshes(r, s, c)' \/ c \in lost' \ lost \/ HandedOver(s, c)']_vars
  <2> SUFFICES ASSUME TypeOK, RotationInv, SuccessorInv, LostInv, Next,
                      NEW r \in Request, NEW s \in SessionId, NEW c \in SessionId,
                      Refreshes(r, s, c)
               PROVE  Refreshes(r, s, c)' \/ c \in lost' \ lost \/ HandedOver(s, c)'
    OBVIOUS
  <2> DEFINE Goal == Refreshes(r, s, c)' \/ c \in lost' \ lost \/ HandedOver(s, c)'
  <2> USE IdAssumption DEF TypeOK, Refreshes, Rotates, HandedOver, Goto, Reply, Idle
  <2>0. ASSUME req'[r] = req[r] PROVE Goal
    BY <2>0
  <2>1. ASSUME NEW q \in Request, ClientStep(q) PROVE req'[r] = req[r]
    <3>1. req[q].pc = "idle" /\ \E x : req' = [req EXCEPT ![q] = x]
      BY <2>1 DEF ClientStep, Login, RefreshLookup, BearerAuth, HeaderCacheHit, HeaderCacheMiss
    <3> QED BY <3>1
  <2>2. ASSUME NEW q \in Request \ {r}, ServerStep(q) \/ Abort(q) PROVE req'[r] = req[r]
    <3>1. \E x : req' = [req EXCEPT ![q] = x] \/ req' = [req EXCEPT ![q].pc = x]
      BY <2>2 DEF ServerStep, IssueAccessToken, Issue, RefreshRevoke, RefreshPurge,
         RefreshCreate, HeaderLoad, HeaderPut, Handle, Logout, LogoutLookup, LogoutRevoke,
         LogoutPurge, Abort
    <3> QED BY <3>1
  <2>3. ASSUME Issue(r) PROVE Goal
    <3>1. /\ req[r].new = c /\ req[r].sid = s
          /\ c \in handed' /\ parent'[c] = req[r].sid
      BY <2>3 DEF Issue, SuccessorInv
    <3> QED BY <3>1
  <2>4. ASSUME RefreshRevoke(r) \/ RefreshPurge(r) \/ RefreshCreate(r) PROVE Goal
    <3>1. \E pc \in {"rt_purge", "rt_create", "issue"} : req' = [req EXCEPT ![r].pc = pc]
      BY <2>4 DEF RefreshRevoke, RefreshPurge, RefreshCreate
    <3> QED BY <3>1
  <2>5. ASSUME \/ IssueAccessToken(r) \/ HeaderLoad(r) \/ HeaderPut(r)
               \/ Handle(r) \/ Logout(r)
        PROVE  FALSE
    BY <2>5 DEF IssueAccessToken, HeaderLoad, HeaderPut, Handle, Logout, LogoutLookup,
       LogoutRevoke, LogoutPurge
  <2>6. ASSUME Abort(r) PROVE Goal
    <3>1. c # NoSession /\ req[r].new = c /\ c \notin lost
      BY DEF LostInv
    <3> QED BY <2>6, <3>1 DEF Abort
  <2>7. ASSUME Tick PROVE req'[r] = req[r]
    BY <2>7 DEF Tick
  <2> QED BY <2>0, <2>1, <2>2, <2>3, <2>4, <2>5, <2>6, <2>7 DEF Next, ServerStep
<1> QED BY Invariance, Successors, NothingLostAtWork, <1>1, PTL DEF Spec, RefreshesAccountedFor

\* Types and rotation invariant together: what sessions_safety checks on a
\* small instance holds for every number of sessions and requests (refresh.go).
THEOREM Inductive == Spec => []IInv
  BY Invariance, Successors, NothingLostAtWork, PTL DEF IInv

=============================================================================
