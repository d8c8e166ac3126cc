------------------------------ MODULE Passkeys ------------------------------
(***************************************************************************)
(* The two WebAuthn ceremonies.  Each is a pair of requests around an      *)
(* authenticator: begin stores a challenge in Redis under a fresh session  *)
(* key, the authenticator signs it, and complete takes the challenge out   *)
(* of Redis and verifies the answer.  Registration stores a credential     *)
(* row; login raises its signature counter and opens a session.            *)
(*                                                                         *)
(* The webauthn library and the authenticators are external: the library   *)
(* accepts an answer when the challenge, the user handle and the           *)
(* credential fit and may refuse any other way.  The bytes of an identity  *)
(* id serve as user handle (service.go:55), so handles are identities.     *)
(* Deleting a credential has no route in the server.                       *)
(***************************************************************************)
EXTENDS Naturals

CONSTANTS Identity,
          Key,           \* session keys; their number bounds the ceremonies
          Cred,          \* credential ids; their number bounds the passkeys
          SessionId,     \* session ids; their number bounds the logins
          Request,       \* request slots; their number bounds concurrency
          None,
          SessionTTL,    \* sessionTTL, 5 minutes in the code
          MaxCount,      \* bound on the counter of an authenticator
          FirstCounts,   \* bound: the counters a new passkey may start from
          Faults         \* TRUE: calls to Postgres and Redis may fail

ASSUME PasskeyAssumption ==
    /\ None \notin Identity \cup Key \cup Cred
    /\ SessionTTL \in Nat \ {0}
    /\ MaxCount \in Nat /\ FirstCounts \subseteq 0..MaxCount
    /\ Faults \in BOOLEAN

VARIABLES
    \* Redis, keys webauthn:session:<key>
    ttl,         \* time left of the stored challenge, 0 when there is none
    ceremony,    \* ceremony[k]: its kind, who began it, the handle it is for
    \* the authenticators
    home,        \* home[c]: the user handle the passkey was made for
    counter,     \* counter[c]: its signature counter
    signer,      \* signer[k]: the passkey that answered challenge k
    asserted,    \* asserted[k]: the counter in that answer
    \* Postgres
    row,         \* row[c] of webauthn_credentials, and the ceremony that made it
    sess,        \* sess[s]: the owner of a session, and the ceremony that opened it
    \* requests
    req,         \* req[r]: a begin or complete in flight
    \* history
    borrowed,    \* identities that completed a registration somebody else began
    overlap      \* credentials that a login read while another that had read
                 \* them was yet to write the counter

vars == <<ttl, ceremony, home, counter, signer, asserted, row, sess, req, borrowed,
          overlap>>
device == <<home, counter, signer, asserted>>

Idle == [pc |-> "idle", who |-> None, key |-> None, n |-> 0]
NoCeremony == [kind |-> "none", by |-> None, handle |-> None]
NoRow == [who |-> None, handle |-> None, count |-> 0, key |-> None]
NoSession == [who |-> None, key |-> None]

Reply(r) == req' = [req EXCEPT ![r] = Idle]
Dec(t) == IF t > 0 THEN t - 1 ELSE 0

\* Faulty variant: the query has no WHERE clause.
ListByIdentityAll(i) == {c \in Cred : row[c] # NoRow}

ListByIdentity(i) == {c \in Cred : row[c].who = i}

ListByUserHandle(h) == {c \in Cred : row[c] # NoRow /\ row[c].handle = h}

-----------------------------------------------------------------------------
Init ==
    /\ ttl = [k \in Key |-> 0]
    /\ ceremony = [k \in Key |-> NoCeremony]
    /\ home = [c \in Cred |-> None]
    /\ counter = [c \in Cred |-> 0]
    /\ signer = [k \in Key |-> None]
    /\ asserted = [k \in Key |-> 0]
    /\ row = [c \in Cred |-> NoRow]
    /\ sess = [s \in SessionId |-> NoSession]
    /\ req = [r \in Request |-> Idle]
    /\ borrowed = {}
    /\ overlap = {}

-----------------------------------------------------------------------------
(* Begin *)

\* POST /webauthn/register/begin of identity i: the handle of one of its
\* passkeys, in no particular order, or its own id.
BeginRegistration(r, i, k) ==
    /\ req[r].pc = "idle"
    /\ ceremony[k] = NoCeremony
    /\ \E h \in Identity :
         /\ \/ ListByIdentity(i) = {} /\ h = i
            \/ \E c \in ListByIdentity(i) : h = row[c].handle
         /\ ceremony' = [ceremony EXCEPT ![k] = [kind |-> "register", by |-> i, handle |-> h]]
    /\ req' = [req EXCEPT ![r] = [pc |-> "store", who |-> i, key |-> k, n |-> 0]]
    /\ UNCHANGED <<ttl, device, row, sess, borrowed, overlap>>

\* sessions.Store, then the reply with the options and the key.
Store(r) ==
    /\ req[r].pc = "store"
    /\ ttl' = [ttl EXCEPT ![req[r].key] = SessionTTL]
    /\ Reply(r)
    /\ UNCHANGED <<ceremony, device, row, sess, borrowed, overlap>>

\* POST /webauthn/login/begin: anybody, for no identity in particular.
BeginLogin(k) ==
    /\ ceremony[k] = NoCeremony
    /\ ceremony' = [ceremony EXCEPT ![k] = [kind |-> "login", by |-> None, handle |-> None]]
    /\ ttl' = [ttl EXCEPT ![k] = SessionTTL]
    /\ UNCHANGED <<device, row, sess, req, borrowed, overlap>>

-----------------------------------------------------------------------------
(* Authenticators (external) *)

\* A new passkey for the handle in the options, with a counter to start from.
MakeCredential(k, c) ==
    /\ ttl[k] > 0 /\ signer[k] = None
    /\ ceremony[k].kind = "register"
    /\ home[c] = None
    /\ home' = [home EXCEPT ![c] = ceremony[k].handle]
    /\ signer' = [signer EXCEPT ![k] = c]
    /\ \E n \in FirstCounts : /\ counter' = [counter EXCEPT ![c] = n]
                            /\ asserted' = [asserted EXCEPT ![k] = n]
    /\ UNCHANGED <<ttl, ceremony, row, sess, req, borrowed, overlap>>

\* A passkey signs a login challenge; one without a counter says 0 for ever.
GetAssertion(k, c) ==
    /\ ttl[k] > 0 /\ signer[k] = None
    /\ ceremony[k].kind = "login"
    /\ home[c] # None
    /\ signer' = [signer EXCEPT ![k] = c]
    /\ \/ counter[c] < MaxCount /\ counter' = [counter EXCEPT ![c] = counter[c] + 1]
       \/ counter[c] = 0 /\ UNCHANGED counter
    /\ asserted' = [asserted EXCEPT ![k] = counter'[c]]
    /\ UNCHANGED <<ttl, ceremony, home, row, sess, req, borrowed, overlap>>

-----------------------------------------------------------------------------
(* Complete *)

\* Faulty variant: GET instead of GETDEL.
ConsumeKeeping(k) == ttl[k] > 0 /\ UNCHANGED ttl

\* sessions.Consume: GETDEL finds the challenge and removes it.
Consume(k) == ttl[k] > 0 /\ ttl' = [ttl EXCEPT ![k] = 0]

\* POST /webauthn/register/complete of identity i.  Nothing says that i is the
\* identity that began.
RegisterConsume(r, i, k) ==
    /\ req[r].pc = "idle"
    /\ Consume(k)
    /\ req' = [req EXCEPT ![r] = [pc |-> "list", who |-> i, key |-> k, n |-> 0]]
    /\ borrowed' = IF ceremony[k].by = i THEN borrowed ELSE borrowed \cup {i}
    /\ UNCHANGED <<ceremony, device, row, sess, overlap>>

\* The passkey is registered under the handle of one of the identity's, or of
\* the ceremony when there is none or the query fails.  The library refuses a
\* handle other than that of the ceremony, and an answer to a login challenge.
RegisterVerify(r) ==
    LET k == req[r].key
    IN  /\ req[r].pc = "list"
        /\ \/ /\ ceremony[k].kind = "register"
              /\ signer[k] # None
              /\ \/ ListByIdentity(req[r].who) = {} \/ Faults
                 \/ \E c \in ListByIdentity(req[r].who) : row[c].handle = ceremony[k].handle
              /\ req' = [req EXCEPT ![r].pc = "insert"]
           \/ Reply(r)
        /\ UNCHANGED <<ttl, ceremony, device, row, sess, borrowed, overlap>>

\* credRepo.Create: credential_id is unique, and sign_count is the counter in the
\* answer that made the passkey.
CreateRow(c, i, k) ==
    IF row[c] = NoRow
    THEN row' = [row EXCEPT ![c] = [who |-> i, handle |-> ceremony[k].handle,
                                    count |-> asserted[k], key |-> k]]
    ELSE UNCHANGED row

RegisterCreate(r) ==
    LET k == req[r].key
        c == signer[k]
    IN  /\ req[r].pc = "insert"
        /\ CreateRow(c, req[r].who, k)
        /\ Reply(r)
        /\ UNCHANGED <<ttl, ceremony, device, sess, borrowed, overlap>>

\* POST /webauthn/login/complete.
LoginConsume(r, k) ==
    /\ req[r].pc = "idle"
    /\ Consume(k)
    /\ req' = [req EXCEPT ![r] = [pc |-> "load", who |-> None, key |-> k, n |-> 0]]
    /\ UNCHANGED <<ceremony, device, row, sess, borrowed, overlap>>

\* Authenticator.UpdateCounter of the library (external).
UpdateCounter(count, n) == IF n > count THEN n ELSE count

\* Logins that have read the row of passkey c, and verified its answer, and not
\* yet written its counter.
Verified(c) == {q \in Request : req[q].pc = "count" /\ signer[req[q].key] = c}

\* Faulty variant: the counter of the answer is taken as it is.
LoginVerifyAnyCount(r) ==
    LET k == req[r].key
        c == signer[k]
    IN  /\ req[r].pc = "load"
        /\ \/ /\ ceremony[k].kind = "login"
              /\ c # None /\ c \in ListByUserHandle(home[c])
              /\ req' = [req EXCEPT ![r].pc = "count", ![r].n = asserted[k]]
              /\ overlap' = IF Verified(c) = {} THEN overlap ELSE overlap \cup {c}
           \/ Reply(r) /\ UNCHANGED overlap
        /\ UNCHANGED <<ttl, ceremony, device, row, sess, borrowed>>

\* The rows of the handle in the answer are read, and the library accepts an
\* answer to a login challenge by one of them.  It raises the counter that was
\* read, and leaves it when the answer is not ahead: the clone warning it then
\* sets is not looked at.  What is used afterwards is what was read, so the step
\* is the read: two logins overlap from there to the write of the counter.
LoginVerify(r) ==
    LET k == req[r].key
        c == signer[k]
    IN  /\ req[r].pc = "load"
        /\ \/ /\ ceremony[k].kind = "login"
              /\ c # None /\ c \in ListByUserHandle(home[c])
              /\ req' = [req EXCEPT ![r].pc = "count",
                                    ![r].n = UpdateCounter(row[c].count, asserted[k])]
              /\ overlap' = IF Verified(c) = {} THEN overlap ELSE overlap \cup {c}
           \/ Reply(r) /\ UNCHANGED overlap
        /\ UNCHANGED <<ttl, ceremony, device, row, sess, borrowed>>

\* Faulty variant: the owner is that of some row of the handle.
LoginCountFirst(r) ==
    LET c == signer[req[r].key]
    IN  /\ req[r].pc = "count"
        /\ \E first \in ListByUserHandle(home[c]) :
             req' = [req EXCEPT ![r].pc = "open", ![r].who = row[first].who]
        /\ \/ row' = [row EXCEPT ![c].count = req[r].n]
           \/ Faults /\ UNCHANGED row
        /\ UNCHANGED <<ttl, ceremony, device, sess, borrowed, overlap>>

\* The row of passkey c.
GetByCredentialID(c) == row[c]

\* The counter is overwritten with the caller's.
UpdateSignCount(c, n) == row' = [row EXCEPT ![c].count = n]

\* GetByCredentialID, then UpdateSignCount, whose error is ignored.
LoginCount(r) ==
    LET c == signer[req[r].key]
    IN  /\ req[r].pc = "count"
        /\ req' = [req EXCEPT ![r].pc = "open", ![r].who = GetByCredentialID(c).who]
        /\ \/ UpdateSignCount(c, req[r].n)
           \/ Faults /\ UNCHANGED row
        /\ UNCHANGED <<ttl, ceremony, device, sess, borrowed, overlap>>

\* Faulty variant: the insert is tried again when its answer is lost.
LoginCreateRetried(r, s) ==
    /\ req[r].pc = "open"
    /\ sess[s] = NoSession
    /\ sess' = [sess EXCEPT ![s] = [who |-> req[r].who, key |-> req[r].key]]
    /\ UNCHANGED <<ttl, ceremony, device, row, req, borrowed, overlap>>

\* The user's roles are read and the session is created and answered with.
LoginCreate(r, s) ==
    /\ req[r].pc = "open"
    /\ sess[s] = NoSession
    /\ sess' = [sess EXCEPT ![s] = [who |-> req[r].who, key |-> req[r].key]]
    /\ Reply(r)
    /\ UNCHANGED <<ttl, ceremony, device, row, borrowed, overlap>>

-----------------------------------------------------------------------------
(* Environment *)

\* The next call of r fails; nothing is undone.
Abort(r) ==
    /\ Faults
    /\ req[r].pc # "idle"
    /\ Reply(r)
    /\ UNCHANGED <<ttl, ceremony, device, row, sess, borrowed, overlap>>

Tick ==
    /\ ttl' = [k \in Key |-> Dec(ttl[k])]
    /\ UNCHANGED <<ceremony, device, row, sess, req, borrowed, overlap>>

Next ==
    \/ \E r \in Request :
         \/ \E i \in Identity, k \in Key : BeginRegistration(r, i, k) \/ RegisterConsume(r, i, k)
         \/ \E k \in Key : LoginConsume(r, k)
         \/ Store(r) \/ RegisterVerify(r) \/ RegisterCreate(r)
         \/ LoginVerify(r) \/ LoginCount(r)
         \/ \E s \in SessionId : LoginCreate(r, s)
         \/ Abort(r)
    \/ \E k \in Key : BeginLogin(k)
    \/ \E k \in Key, c \in Cred : MakeCredential(k, c) \/ GetAssertion(k, c)
    \/ Tick

Spec == Init /\ [][Next]_vars

-----------------------------------------------------------------------------
(* Properties *)

CeremonyType == [kind : {"none", "register", "login"}, by : Identity \cup {None},
                 handle : Identity \cup {None}]
RowType == [who : Identity \cup {None}, handle : Identity \cup {None},
            count : 0..MaxCount, key : Key \cup {None}]
SessionType == [who : Identity \cup {None}, key : Key \cup {None}]
ReqType == [pc : {"idle", "store", "list", "insert", "load", "count", "open"},
            who : Identity \cup {None}, key : Key \cup {None}, n : 0..MaxCount]

\* Every variable has its type; a challenge lives at most sessionTTL
\* (session_store.go:24-30).
TypeOK ==
    /\ ttl \in [Key -> 0..SessionTTL]
    /\ ceremony \in [Key -> CeremonyType]
    /\ home \in [Cred -> Identity \cup {None}]
    /\ counter \in [Cred -> 0..MaxCount]
    /\ signer \in [Key -> Cred \cup {None}]
    /\ asserted \in [Key -> 0..MaxCount]
    /\ row \in [Cred -> RowType]
    /\ sess \in [SessionId -> SessionType]
    /\ req \in [Request -> ReqType]
    /\ borrowed \subseteq Identity
    /\ overlap \subseteq Cred

\* A ceremony ends in at most one passkey or one session, however often and by
\* however many requests it is completed at once (session_store.go:32-45).
OneOutcomePerCeremony ==
    \A k \in Key :
        /\ \A c, d \in Cred : row[c].key = k /\ row[d].key = k => c = d
        /\ \A s, t \in SessionId : sess[s].key = k /\ sess[t].key = k => s = t
        /\ \A c \in Cred, s \in SessionId : ~(row[c].key = k /\ sess[s].key = k)

\* A passkey login opens a session of the identity that registered the very
\* passkey that signed the challenge, also when passkeys of several identities
\* have the same handle (service.go:156-184, login_complete.go:62-100).
SessionsOpenForOwner ==
    \A s \in SessionId : sess[s] # NoSession =>
        \E c \in Cred : /\ signer[sess[s].key] = c
                        /\ row[c].who = sess[s].who /\ row[c].who # None

\* A passkey carries the handle of its owner, from the first to the last and
\* also when several are registered at once, unless the owner has completed a
\* ceremony that another identity began (service.go:55-58, 96-100).
HandlesAreOwners ==
    \A c \in Cred : row[c].handle # row[c].who => row[c].who \in borrowed

\* The stored counter of a passkey only goes up, whatever the order in which
\* its answers arrive and whichever updates fail, unless two logins with it
\* read the row before either wrote the counter (service.go:156-182).
CountsOnlyRise ==
    [][\A c \in Cred : row'[c].count < row[c].count => c \in overlap]_vars

-----------------------------------------------------------------------------
(* The inductive invariant *)

\* A request that will store or has taken the challenge of k.
Carries(r, k) == req[r].pc # "idle" /\ req[r].key = k

\* A challenge is about to be stored, stored, taken by one request, or gone.
PlaceInv ==
    /\ \A r \in Request : req[r].pc # "idle" => req[r].key \in Key
    /\ \A k \in Key : ttl[k] > 0 \/ (\E r \in Request : Carries(r, k)) => ceremony[k] # NoCeremony
    /\ \A r \in Request, k \in Key : Carries(r, k) =>
         ttl[k] = 0 /\ \A q \in Request : Carries(q, k) => q = r

\* What a ceremony has led to keeps it from being used again.
SpentInv ==
    \A k \in Key :
        (\E c \in Cred : row[c].key = k) \/ (\E s \in SessionId : sess[s].key = k) =>
            /\ ceremony[k] # NoCeremony
            /\ ttl[k] = 0
            /\ \A r \in Request : ~Carries(r, k)

\* Each request is on the path of its ceremony's kind, with an answer to it.
PathInv ==
    \A r \in Request :
        LET k == req[r].key
        IN  /\ req[r].pc \in {"store", "list", "insert", "open"} => req[r].who \in Identity
            /\ req[r].pc \in {"store", "insert"} => ceremony[k].kind = "register"
            /\ req[r].pc = "insert" => signer[k] \in Cred
            /\ req[r].pc \in {"count", "open"} =>
                 /\ ceremony[k].kind = "login" /\ signer[k] \in Cred
                 /\ row[signer[k]].who \in Identity
            /\ req[r].pc = "open" => row[signer[k]].who = req[r].who

\* A registration's handle is the identity's own unless it has borrowed.
HandleInv ==
    /\ \A k \in Key : ceremony[k].kind = "register" =>
         /\ ceremony[k].by \in Identity /\ ceremony[k].handle \in Identity
         /\ ceremony[k].handle # ceremony[k].by => ceremony[k].by \in borrowed
    /\ \A r \in Request : req[r].pc \in {"list", "insert"} =>
         req[r].who = ceremony[req[r].key].by \/ req[r].who \in borrowed

\* A row comes from a registration and a session from a login.
RowInv ==
    /\ \A c \in Cred : row[c] # NoRow =>
         /\ row[c].who \in Identity /\ row[c].handle \in Identity /\ row[c].key \in Key
         /\ ceremony[row[c].key].kind = "register" /\ signer[row[c].key] = c
    /\ \A s \in SessionId : sess[s] # NoSession =>
         /\ sess[s].who \in Identity /\ sess[s].key \in Key
         /\ ceremony[sess[s].key].kind = "login"

\* A counter about to be written is not behind the stored one, and no other is
\* about to be written, unless logins with the passkey have overlapped.
CountInv ==
    \A c \in Cred : c \notin overlap =>
        /\ \A r \in Verified(c) : req[r].n >= row[c].count
        /\ \A r, q \in Verified(c) : r = q

\* The inductive invariant: a challenge is in one place at a time, and what was
\* read about it before an interleaved request still holds when it is used
\* (service.go:44-184).
PasskeyInv == PlaceInv /\ SpentInv /\ PathInv /\ HandleInv /\ RowInv /\ CountInv

-----------------------------------------------------------------------------
(* Refinement *)

\* Ceremonies that can still lead to something, and what the others have led to.
Usable == {k \in Key : ttl[k] > 0 \/ \E r \in Request : Carries(r, k)}
Outcome(x, k) == [sid |-> x, ticket |-> k, who |-> ceremony[k]]
Outcomes == {Outcome(c, row[c].key) : c \in {d \in Cred : row[d] # NoRow}}
              \cup {Outcome(s, sess[s].key) : s \in {t \in SessionId : sess[t] # NoSession}}

\* A ceremony is a one-time ticket for what it was begun for: it is begun once,
\* ends in at most one passkey or one session, however often and by however
\* many requests it is completed at once, and neither an expired nor a used or
\* failed one can be completed afterwards (session_store.go:24-45).
Once == INSTANCE OneShot WITH
    Ticket <- Key,
    Holder <- CeremonyType,
    SessionId <- Cred \cup SessionId,
    None <- NoCeremony,
    holder <- ceremony,
    usable <- Usable,
    opened <- Outcomes
RefinesOneShot == Once!Spec

\* The inductive invariant with the types it needs: a challenge is in one place
\* at a time and lives at most sessionTTL (session_store.go:24-45).
IInv == TypeOK /\ PasskeyInv

=============================================================================
