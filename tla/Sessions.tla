------------------------------ MODULE Sessions ------------------------------
(***************************************************************************)
(* The life of a session: the sessions table, the principal cache in Redis *)
(* and the signed access tokens, written and read by concurrent HTTP       *)
(* requests.  A request is a process that takes one step per call to       *)
(* Postgres or Redis; between two steps any other request may run, time    *)
(* may pass, and (when Faults) the call may fail or the client disconnect. *)
(*                                                                         *)
(* Time is kept as countdowns: a Tick lowers the remaining lifetime of     *)
(* every row, cache entry and access token by one, so that the state space *)
(* stays finite without a horizon.                                         *)
(*                                                                         *)
(* A session's refresh token is a fresh random 32-byte string stored as a  *)
(* hash in its row, so the token is named by the row's id.  A client knows *)
(* an id, its refresh token and its access token once the request that     *)
(* created the row has replied (handed).                                   *)
(***************************************************************************)
EXTENDS Naturals

CONSTANTS SessionId,    \* session ids; their number bounds the rows of a run
          Before,       \* Before[c]: ids that are drawn before c, so that a run
                        \* without symmetry need not try all orders of ids
          Request,      \* request slots; their number bounds the concurrency
          NoSession,    \* no session / NULL parent_session_id
          RefreshTTL,   \* refreshTokenTTL, 7 days in the code
          AccessTTL,    \* accessTokenTTL, 15 minutes in the code
          CacheTTL,     \* PrincipalCache.ttl, 5 minutes in the code
          Paths,        \* bound, Paths[s]: what the client of s makes use of, of the
                        \* two refresh endpoints "refresh" and "grant", and of
                        \* the "bearer" and "header" paths of the middleware
          Faults        \* TRUE: calls to Postgres and Redis may fail

ASSUME TTLAssumption ==
    /\ RefreshTTL \in Nat \ {0}
    /\ AccessTTL \in Nat \ {0}
    /\ CacheTTL \in Nat \ {0}

ASSUME IdAssumption ==
    /\ NoSession \notin SessionId
    /\ Faults \in BOOLEAN

ASSUME BoundAssumption ==
    /\ Before \in [SessionId -> SUBSET SessionId]
    /\ Paths \in [SessionId -> SUBSET {"refresh", "grant", "bearer", "header"}]

VARIABLES
    \* Postgres, table sessions
    status,     \* "absent", "active" (revoked_at IS NULL) or "revoked"
    life,       \* time left until expires_at, 0 when it has passed
    parent,     \* parent_session_id
    \* Redis, keys auth:principal:<session id>
    cache,      \* time left of the cached principal, 0 when there is none
    \* what clients hold
    handed,     \* sessions whose id and tokens a reply has carried
    jwt,        \* time left of the access token issued for the session
    \* requests in flight
    req,        \* req[r]: where r is, the session it works on, the id it will insert
    \* history, read by the properties only
    contended,  \* sessions read as live by a refresh while another one held them
    lost        \* ids that a request was to insert or to answer with when a
                \* call of it failed, until they are drawn again

dbVars == <<status, life, parent>>
vars == <<status, life, parent, cache, handed, jwt, req, contended, lost>>

\* Where a request stands: the call it makes next.
PC == {"idle",
       "issue", "idtoken",                        \* a created session, tokens to come
       "rt_revoke", "gt_revoke", "rt_purge", "rt_create",      \* /refresh, grant
       "load", "put", "authed",                   \* Authenticate middleware
       "lo_revoke", "lo_purge"}                   \* /logout

Idle == [pc |-> "idle", sid |-> NoSession, new |-> NoSession]

Goto(r, pc) == req' = [req EXCEPT ![r].pc = pc]
Reply(r) == req' = [req EXCEPT ![r] = Idle]

\* No row and no request has the id c.
Unused(c) == status[c] = "absent" /\ \A r \in Request : req[r].new # c

\* An id that id.New() may return.  One that a failed request has drawn in vain
\* may come again, so that few do.
Fresh(c) == Unused(c) /\ \A d \in Before[c] : ~Unused(d)

\* A live row as the endpoints test it: RevokedAt == nil, not after ExpiresAt.
Live(s) == status[s] = "active" /\ life[s] > 0

\* r has read s as live and is about to rotate it.
Holds(r, s) == req[r].sid = s /\ req[r].pc \in {"rt_revoke", "gt_revoke"}

Dec(t) == IF t > 0 THEN t - 1 ELSE 0

-----------------------------------------------------------------------------
Init ==
    /\ status = [s \in SessionId |-> "absent"]
    /\ life = [s \in SessionId |-> 0]
    /\ parent = [s \in SessionId |-> NoSession]
    /\ cache = [s \in SessionId |-> 0]
    /\ handed = {}
    /\ jwt = [s \in SessionId |-> 0]
    /\ req = [r \in Request |-> Idle]
    /\ contended = {}
    /\ lost = {}

-----------------------------------------------------------------------------
(* session repository and principal cache, one call each *)

\* INSERT INTO sessions, revoked_at NULL, expires_at = now + refreshTokenTTL.
CreateRow(c, p) ==
    /\ status' = [status EXCEPT ![c] = "active"]
    /\ life' = [life EXCEPT ![c] = RefreshTTL]
    /\ parent' = [parent EXCEPT ![c] = p]

\* UPDATE sessions SET revoked_at = NOW(), whatever revoked_at was.
RevokeRow(s) ==
    /\ status' = [status EXCEPT ![s] = "revoked"]
    /\ UNCHANGED <<life, parent>>

\* PrincipalCache.Delete; an error is swallowed and the entry stays.
CacheDelete(s) ==
    \/ cache' = [cache EXCEPT ![s] = 0]
    \/ Faults /\ UNCHANGED cache

\* PrincipalCache.Put; an error is swallowed and nothing is stored.
CachePut(s) ==
    \/ cache' = [cache EXCEPT ![s] = CacheTTL]
    \/ Faults /\ UNCHANGED cache

-----------------------------------------------------------------------------
(* Opening a session *)

\* Login.Execute up to sessionRepo.Create.  MFA completion, passkey login and
\* the authorization code grant end with the same calls.
Login(r, c) ==
    /\ req[r].pc = "idle"
    /\ Fresh(c)
    /\ CreateRow(c, NoSession)
    /\ req' = [req EXCEPT ![r] = [pc |-> "issue", sid |-> NoSession, new |-> c]]
    /\ lost' = lost \ {c}
    /\ UNCHANGED <<cache, handed, jwt, contended>>

\* The authorization code grant with the scope openid: the access token is
\* signed, and an ID token, which the middleware accepts too, is to follow.
IssueAccessToken(r) ==
    /\ req[r].pc = "issue"
    /\ req[r].sid = NoSession
    /\ Goto(r, "idtoken")
    /\ UNCHANGED <<status, life, parent, cache, handed, jwt, contended, lost>>

\* jwtService.Issue for the last token of the new session, which is the one
\* that expires last, then the reply with all its tokens.
Issue(r) ==
    /\ req[r].pc \in {"issue", "idtoken"}
    /\ jwt' = [jwt EXCEPT ![req[r].new] = AccessTTL]
    /\ handed' = handed \cup {req[r].new}
    /\ Reply(r)
    /\ UNCHANGED <<status, life, parent, cache, contended, lost>>

-----------------------------------------------------------------------------
(* POST /refresh and the refresh_token grant *)

\* Faulty variant: the check of RevokedAt is missing.
RefreshLookupIgnoringRevocation(r, s, c) ==
    /\ req[r].pc = "idle"
    /\ s \in handed
    /\ life[s] > 0
    /\ Fresh(c)
    /\ req' = [req EXCEPT ![r] = [pc |-> "rt_revoke", sid |-> s, new |-> c]]
    /\ contended' = IF \E q \in Request \ {r} : Holds(q, s)
                    THEN contended \cup {s} ELSE contended
    /\ lost' = lost \ {c}
    /\ UNCHANGED <<status, life, parent, cache, handed, jwt>>

\* Handler.Refresh: a client presents a refresh token it was given, in the body
\* or else in the cookie; a request with neither is refused.
Refresh(s) == s \in handed

\* The hash of the token leads to its row.
GetByRefreshTokenHash(s) == status[s] # "absent"

\* The row of s is found; nothing deletes rows here (SessionRetention does).
GetByID(s) == status[s] # "absent"

\* GetByRefreshTokenHash and the two checks; a token that fails them is
\* refused without any effect.
RefreshLookup(r, s, c) ==
    /\ req[r].pc = "idle"
    /\ Refresh(s)
    /\ GetByRefreshTokenHash(s) /\ Live(s)
    /\ Fresh(c)
    /\ \E path \in Paths[s] \cap {"refresh", "grant"} :
         req' = [req EXCEPT ![r] =
                   [pc  |-> IF path = "refresh" THEN "rt_revoke" ELSE "gt_revoke",
                    sid |-> s, new |-> c]]
    /\ contended' = IF \E q \in Request \ {r} : Holds(q, s)
                    THEN contended \cup {s} ELSE contended
    /\ lost' = lost \ {c}
    /\ UNCHANGED <<status, life, parent, cache, handed, jwt>>

\* Faulty variant: an error of Revoke is ignored.
RefreshWithoutRevoke(r) ==
    /\ req[r].pc \in {"rt_revoke", "gt_revoke"}
    /\ Goto(r, "rt_create")
    /\ UNCHANGED <<status, life, parent, cache, handed, jwt, contended, lost>>

\* Faulty variant: a row that somebody else has revoked since the check ends the
\* request in silence.
RefreshRevokeOnlyLive(r) ==
    /\ req[r].pc \in {"rt_revoke", "gt_revoke"}
    /\ RevokeRow(req[r].sid)
    /\ IF status[req[r].sid] = "revoked"
       THEN Reply(r)
       ELSE Goto(r, IF req[r].pc = "rt_revoke" THEN "rt_purge" ELSE "rt_create")
    /\ UNCHANGED <<cache, handed, jwt, contended, lost>>

\* sessionRepo.Revoke: /refresh goes on to the cache, the grant does not.
RefreshRevoke(r) ==
    /\ req[r].pc \in {"rt_revoke", "gt_revoke"}
    /\ RevokeRow(req[r].sid)
    /\ Goto(r, IF req[r].pc = "rt_revoke" THEN "rt_purge" ELSE "rt_create")
    /\ UNCHANGED <<cache, handed, jwt, contended, lost>>

RefreshPurge(r) ==
    /\ req[r].pc = "rt_purge"
    /\ CacheDelete(req[r].sid)
    /\ Goto(r, "rt_create")
    /\ UNCHANGED <<status, life, parent, handed, jwt, contended, lost>>

\* Faulty variant: the old row is made live again instead of a new one inserted.
RefreshReusesRow(r) ==
    /\ req[r].pc = "rt_create"
    /\ CreateRow(req[r].sid, parent[req[r].sid])
    /\ Goto(r, "issue")
    /\ UNCHANGED <<cache, handed, jwt, contended, lost>>

\* sessionRepo.Create of the successor, parent_session_id = the old session.
RefreshCreate(r) ==
    /\ req[r].pc = "rt_create"
    /\ CreateRow(req[r].new, req[r].sid)
    /\ Goto(r, "issue")
    /\ UNCHANGED <<cache, handed, jwt, contended, lost>>

-----------------------------------------------------------------------------
(* Authenticate middleware *)

\* JWTService.Verify: the signing key is still in the table, for keys are never
\* deleted, and exp has not passed.
Verify(s) == jwt[s] > 0

\* Authorization: Bearer <token>: no database read of the session.
BearerAuth(r, s) ==
    /\ "bearer" \in Paths[s]
    /\ req[r].pc = "idle"
    /\ Verify(s)
    /\ req' = [req EXCEPT ![r] = [pc |-> "authed", sid |-> s, new |-> NoSession]]
    /\ UNCHANGED <<status, life, parent, cache, handed, jwt, contended, lost>>

\* Faulty variant: every hit renews the entry.
HeaderCacheHitRenews(r, s) ==
    /\ "header" \in Paths[s]
    /\ req[r].pc = "idle"
    /\ s \in handed
    /\ cache[s] > 0
    /\ cache' = [cache EXCEPT ![s] = CacheTTL]
    /\ req' = [req EXCEPT ![r] = [pc |-> "authed", sid |-> s, new |-> NoSession]]
    /\ UNCHANGED <<status, life, parent, handed, jwt, contended, lost>>

\* X-Session-ID found in the cache: accepted without a look at the row.
HeaderCacheHit(r, s) ==
    /\ "header" \in Paths[s]
    /\ req[r].pc = "idle"
    /\ s \in handed
    /\ cache[s] > 0
    /\ req' = [req EXCEPT ![r] = [pc |-> "authed", sid |-> s, new |-> NoSession]]
    /\ UNCHANGED <<status, life, parent, cache, handed, jwt, contended, lost>>

\* A miss; an error of Redis counts as one.
HeaderCacheMiss(r, s) ==
    /\ "header" \in Paths[s]
    /\ req[r].pc = "idle"
    /\ s \in handed
    /\ cache[s] = 0 \/ Faults
    /\ req' = [req EXCEPT ![r] = [pc |-> "load", sid |-> s, new |-> NoSession]]
    /\ UNCHANGED <<status, life, parent, cache, handed, jwt, contended, lost>>

\* Faulty variant: the middleware checks the expiry only.
HeaderLoadIgnoringRevocation(r) ==
    /\ req[r].pc = "load"
    /\ IF life[req[r].sid] > 0 THEN Goto(r, "put") ELSE Reply(r)
    /\ UNCHANGED <<status, life, parent, cache, handed, jwt, contended, lost>>

\* GetByID and the two checks: go on to read identity, roles and permissions,
\* or refuse.
HeaderLoad(r) ==
    /\ req[r].pc = "load"
    /\ IF GetByID(req[r].sid) /\ Live(req[r].sid) THEN Goto(r, "put") ELSE Reply(r)
    /\ UNCHANGED <<status, life, parent, cache, handed, jwt, contended, lost>>

HeaderPut(r) ==
    /\ req[r].pc = "put"
    /\ CachePut(req[r].sid)
    /\ Goto(r, "authed")
    /\ UNCHANGED <<status, life, parent, handed, jwt, contended, lost>>

\* The handler behind the middleware, for every route but /logout.
Handle(r) ==
    /\ req[r].pc = "authed"
    /\ Reply(r)
    /\ UNCHANGED <<status, life, parent, cache, handed, jwt, contended, lost>>

-----------------------------------------------------------------------------
(* POST /logout, for the session of the authenticated principal *)

\* GetByID: an already revoked session is only dropped from the cache.
LogoutLookup(r) ==
    /\ req[r].pc = "authed"
    /\ GetByID(req[r].sid)
    /\ Goto(r, IF status[req[r].sid] = "revoked" THEN "lo_purge" ELSE "lo_revoke")
    /\ UNCHANGED <<status, life, parent, cache, handed, jwt, contended, lost>>

LogoutRevoke(r) ==
    /\ req[r].pc = "lo_revoke"
    /\ RevokeRow(req[r].sid)
    /\ Goto(r, "lo_purge")
    /\ UNCHANGED <<cache, handed, jwt, contended, lost>>

LogoutPurge(r) ==
    /\ req[r].pc = "lo_purge"
    /\ CacheDelete(req[r].sid)
    /\ Reply(r)
    /\ UNCHANGED <<status, life, parent, handed, jwt, contended, lost>>

\* Handler.Logout, for the session of the principal; an error leaves the
\* client its cookie.
Logout(r) == LogoutLookup(r) \/ LogoutRevoke(r) \/ LogoutPurge(r)

-----------------------------------------------------------------------------
(* Environment *)

\* The next call of r fails (database error, or the client went away and its
\* context is cancelled): the handler returns the error, undoing nothing.
Abort(r) ==
    /\ Faults
    /\ req[r].pc # "idle"
    /\ Reply(r)
    /\ lost' = lost \cup ({req[r].new} \ {NoSession})
    /\ UNCHANGED <<status, life, parent, cache, handed, jwt, contended>>

Tick ==
    /\ life' = [s \in SessionId |-> Dec(life[s])]
    /\ cache' = [s \in SessionId |-> Dec(cache[s])]
    /\ jwt' = [s \in SessionId |-> Dec(jwt[s])]
    /\ UNCHANGED <<status, parent, handed, req, contended, lost>>

-----------------------------------------------------------------------------
\* What the server does for a request it has accepted.
ServerStep(r) ==
    \/ IssueAccessToken(r) \/ Issue(r)
    \/ RefreshRevoke(r) \/ RefreshPurge(r) \/ RefreshCreate(r)
    \/ HeaderLoad(r) \/ HeaderPut(r)
    \/ Handle(r) \/ Logout(r)

\* What clients ask for.
ClientStep(r) ==
    \/ \E c \in SessionId : Login(r, c)
    \/ \E s, c \in SessionId : RefreshLookup(r, s, c)
    \/ \E s \in SessionId : BearerAuth(r, s)
    \/ \E s \in SessionId : HeaderCacheHit(r, s)
    \/ \E s \in SessionId : HeaderCacheMiss(r, s)

Next == \/ \E r \in Request : ServerStep(r) \/ ClientStep(r) \/ Abort(r)
        \/ Tick

Spec == Init /\ [][Next]_vars

\* The runtime keeps every started handler going and time passes; clients owe
\* nothing.
FairSpec == /\ Spec
            /\ \A r \in Request : WF_vars(ServerStep(r))
            /\ WF_vars(Tick)

-----------------------------------------------------------------------------
(* Properties *)

TypeOK ==
    /\ status \in [SessionId -> {"absent", "active", "revoked"}]
    /\ life \in [SessionId -> 0..RefreshTTL]
    /\ parent \in [SessionId -> SessionId \cup {NoSession}]
    /\ cache \in [SessionId -> 0..CacheTTL]
    /\ handed \subseteq SessionId
    /\ jwt \in [SessionId -> 0..AccessTTL]
    /\ req \in [Request -> [pc : PC, sid : SessionId \cup {NoSession},
                            new : SessionId \cup {NoSession}]]
    /\ contended \subseteq SessionId
    /\ lost \subseteq SessionId

\* A session that has a successor is revoked: no refresh token outlives its
\* rotation, however the Revoke and Create calls of several refreshes, a
\* logout and failing requests interleave (refresh.go:75, 104).
ParentsAreRevoked ==
    \A s \in SessionId :
        parent[s] # NoSession => status[parent[s]] = "revoked"

\* The check of a refresh token and its revocation are two calls
\* (refresh.go:67, 75), so two refreshes may both pass the check.  Nothing
\* else yields two successors: if no two refreshes of s ever held it together,
\* then s has at most one successor, whatever crashes, logouts or retries occur.
OneSuccessorUnlessContended ==
    \A c, d \in SessionId :
        /\ c # d
        /\ parent[c] # NoSession
        /\ parent[c] = parent[d]
        => parent[c] \in contended

\* r is rotating s: it has read s as live and has not inserted the successor.
Rotates(r, s) ==
    /\ req[r].sid = s
    /\ req[r].pc \in {"rt_revoke", "gt_revoke", "rt_purge", "rt_create"}

\* Rows: nothing refers to an id that has no row.
RowsInv ==
    \A s \in SessionId :
        /\ status[s] = "absent" => /\ parent[s] = NoSession
                                   /\ s \notin handed
                                   /\ jwt[s] = 0
        /\ parent[s] # NoSession => status[parent[s]] = "revoked"

\* Requests: the row r works on exists, the row r is to insert does not yet.
RequestsInv ==
    \A r \in Request :
        /\ req[r].pc \in {"rt_revoke", "gt_revoke", "rt_purge", "rt_create"} =>
             /\ req[r].sid \in SessionId /\ status[req[r].sid] # "absent"
             /\ req[r].new \in SessionId /\ status[req[r].new] = "absent"
        /\ req[r].pc \in {"rt_purge", "rt_create"} => status[req[r].sid] = "revoked"
        /\ req[r].pc \in {"issue", "idtoken"} =>
             req[r].new \in SessionId /\ status[req[r].new] # "absent"
        /\ req[r].pc \in {"load", "put", "authed", "lo_revoke", "lo_purge"} =>
             req[r].sid \in SessionId /\ status[req[r].sid] # "absent"

\* No two requests insert the same id.
NewIdsInv ==
    \A r, q \in Request :
        r # q /\ req[r].new # NoSession => req[r].new # req[q].new

\* A session with two rotations, done or under way, is contended.
ContentionInv ==
    \A s \in SessionId :
        /\ \A r, q \in Request : r # q /\ Rotates(r, s) /\ Rotates(q, s)
                                    => s \in contended
        /\ \A r \in Request, c \in SessionId :
                Rotates(r, s) /\ parent[c] = s => s \in contended
        /\ \A c, d \in SessionId : c # d /\ parent[c] = s /\ parent[d] = s
                                    => s \in contended

\* The inductive invariant behind the safety properties above: at every point
\* between two calls of any request the rows, the requests and the ids about
\* to be inserted agree, and every double rotation goes back to an overlap of
\* the check-then-revoke windows (refresh.go:62-104, token.go:197-228).
RotationInv == RowsInv /\ RequestsInv /\ NewIdsInv /\ ContentionInv

\* s is revoked or past expires_at, no request that read it while live is still
\* to cache it, and none is still to issue its tokens.
Sealed(s) ==
    /\ status[s] = "revoked" \/ (status[s] = "active" /\ life[s] = 0)
    /\ \A r \in Request : /\ ~(req[r].pc = "put" /\ req[r].sid = s)
                          /\ ~(req[r].pc \in {"issue", "idtoken"} /\ req[r].new = s)

\* Once sealed a session stays sealed, and its cache entry and its signed tokens
\* can only run out: no later request, no refresh with its token, no cache hit
\* and no failing call makes either younger or the row live again.  With the
\* two lifetimes this bounds how long a dead session is still accepted
\* (principal_cache.go:14-22, authentication.go:72, 142).
SealedOnlyFades ==
    [][\A s \in SessionId :
         Sealed(s) => Sealed(s)' /\ cache'[s] <= cache[s] /\ jwt'[s] <= jwt[s]]_vars

Revoked == {s \in SessionId : status[s] = "revoked"}

\* F is over: its sessions are revoked, all their successors are among them,
\* and no refresh that read one of them as live is still under way.
Over(F) ==
    /\ F \subseteq Revoked
    /\ \A s \in F :
         /\ \A r \in Request : ~Rotates(r, s)
         /\ \A c \in SessionId : parent[c] = s => c \in F

\* A family that is over stays over: after a logout nothing a client still
\* holds - an old refresh token, a cached principal, an access token - and no
\* request in flight brings a live session back.  A logout leaves its user
\* signed in only through a refresh that overlaps it (logout.go:43).
FinishedFamiliesStayOver ==
    [][\A F \in SUBSET Revoked : Over(F) => Over(F)']_vars

\* A session that is revoked or past expires_at stops being accepted for good,
\* by the cache as well as by its access token, even though neither path reads
\* the row again and the calls that empty the cache may fail or be skipped.
DeadSessionsFadeOut ==
    \A s \in SessionId :
        (status[s] = "revoked" \/ (status[s] = "active" /\ life[s] = 0))
            ~> [](cache[s] = 0 /\ jwt[s] = 0)

\* r is between the check of the refresh token of s and its reply, and c is the
\* id of the successor it is to make.
Refreshes(r, s, c) ==
    /\ Rotates(r, s) \/ (req[r].pc = "issue" /\ req[r].sid = s)
    /\ req[r].new = c

\* The refresh of s with c has done what it is for: the client has the tokens of
\* its successor c.
HandedOver(s, c) == c \in handed /\ parent[c] = s

\* Every single refresh whose token passed the check ends with a successor of
\* its own in the client's hands, unless one of its own calls fails: revoking
\* first strands nobody, whatever other refreshes of the same token, logouts
\* and expiry come in between.  A refresh goes by the id it has drawn, which no
\* other one has (refresh.go:75-106).
RefreshHandsOver ==
    \A c \in SessionId :
        (\E r \in Request, s \in SessionId : Refreshes(r, s, c))
            ~> (c \in lost \/ \E s \in SessionId : HandedOver(s, c))

\* The row a request is to issue tokens for is the successor of the session it
\* works on, or the first of a family.
SuccessorInv ==
    \A r \in Request : req[r].pc \in {"issue", "idtoken"} => parent[req[r].new] = req[r].sid

\* The ids that requests work with have not been lost to a failed call.
LostInv == \A r \in Request : req[r].new \notin lost

\* No refresh is dropped on its way: a request that has passed the check stays
\* at work, with the same successor in mind, until the client has that
\* successor or one of the request's own calls has failed, whatever revokes,
\* expires or rotates the session meanwhile (refresh.go:75-147,
\* token.go:205-264).
RefreshesAccountedFor ==
    [][\A r \in Request, s, c \in SessionId : Refreshes(r, s, c) =>
         Refreshes(r, s, c)' \/ c \in lost' \ lost \/ HandedOver(s, c)']_vars

\* The endpoints implement the session table's promise.
Tree == INSTANCE SessionTree
RefinesSessionTree == Tree!Spec

\* What the integration test says of a refresh token: once it has been used,
\* "reusing old refresh should fail", so a session never has two successors.
RefreshTokenSingleUse ==
    \A c, d \in SessionId :
        c # d /\ parent[c] # NoSession => parent[c] # parent[d]

\* What logout.go says of the invalidator: it "removes the cached principal so
\* a revoked session can no longer authenticate via the cache".  Once no logout
\* of s is under way, a revoked s is not in the cache.
RevokedSessionsLeaveCache ==
    \A s \in SessionId :
        /\ status[s] = "revoked"
        /\ \A r \in Request : req[r].sid = s => req[r].pc # "lo_purge"
        => cache[s] = 0

\* The inductive invariant with the types it needs: what each program counter
\* of a request says about the rows still holds when it acts on them
\* (refresh.go:59-147, authentication.go:89-144).
IInv == TypeOK /\ RotationInv /\ SuccessorInv /\ LostInv

=============================================================================
