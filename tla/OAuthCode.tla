----------------------------- MODULE OAuthCode -----------------------------
(***************************************************************************)
(* The authorization code flow: /oauth/authorize builds a code and stores  *)
(* it in Redis, /oauth/token exchanges it for a session and tokens.  Token *)
(* requests present any code with any client, redirect URI and verifier,   *)
(* and two of them may present the same code at once.                      *)
(*                                                                         *)
(* A PKCE challenge is named by the verifier it is the hash of.  Requests  *)
(* for unknown clients or response types are refused before anything is    *)
(* read or written and are left out.  The refresh_token grant is the       *)
(* refresh of Sessions.tla.                                                *)
(***************************************************************************)
EXTENDS Naturals

CONSTANTS Client, Identity, Code, SessionId, Request, Uri, Scope, Verifier,
          None,
          OpenID,         \* the scope openid
          TenantOf,       \* TenantOf[x]: tenant of a client or an identity
          RedirectURIs,   \* RedirectURIs[cl]: the registered ones
          Scopes,         \* Scopes[cl]: the allowed ones
          CodeClients,    \* clients with the grant type authorization_code
          Confidential,   \* clients that must present their secret
          CodeTTL,        \* codeTTL, 10 minutes in the code
          Faults          \* TRUE: calls to Postgres and Redis may fail

ASSUME OAuthAssumption ==
    /\ None \notin Client \cup Identity \cup Code \cup SessionId
    /\ RedirectURIs \in [Client -> SUBSET Uri]
    /\ Scopes \in [Client -> SUBSET Scope]
    /\ CodeClients \subseteq Client /\ Confidential \subseteq Client
    /\ CodeTTL \in Nat \ {0}
    /\ Faults \in BOOLEAN

VARIABLES
    grant,    \* grant[c]: what the code c was built for
    expiry,   \* time left until ExpiresAt
    stored,   \* Redis, key oauth:code:<c>: time left, 0 when there is none
    exch,     \* history: exch[c]: the token request that was accepted for c
    sess,     \* sess[s]: a session row opened with a code
    tok,      \* tok[s]: the answer of the token endpoint for session s
    lost,     \* history: codes that a request was carrying when a call failed
    req       \* req[r]: an authorize or token request in flight

vars == <<grant, expiry, stored, exch, sess, tok, lost, req>>

NoGrant == [client |-> None, who |-> None, uri |-> None, ver |-> None, scope |-> {}]
NoExch == [client |-> None, uri |-> None, ver |-> None]
NoRow == [code |-> None, who |-> None]
NoTok == [aud |-> None, scope |-> {}, id |-> None]
Idle == [pc |-> "idle", code |-> None, sid |-> None, ttl |-> 0]

Reply(r) == req' = [req EXCEPT ![r] = Idle]
Dec(t) == IF t > 0 THEN t - 1 ELSE 0

Init ==
    /\ grant = [c \in Code |-> NoGrant]
    /\ expiry = [c \in Code |-> 0]
    /\ stored = [c \in Code |-> 0]
    /\ exch = [c \in Code |-> NoExch]
    /\ sess = [s \in SessionId |-> NoRow]
    /\ tok = [s \in SessionId |-> NoTok]
    /\ lost = {}
    /\ req = [r \in Request |-> Idle]

-----------------------------------------------------------------------------
(* GET /oauth/authorize *)

\* The row of client cl; no operation of the server changes it.
GetByClientID(cl) ==
    [tenant |-> TenantOf[cl], uris |-> RedirectURIs[cl], scopes |-> Scopes[cl],
     codes |-> cl \in CodeClients, confidential |-> cl \in Confidential]

\* HasRedirectURI, HasGrantType and AllowsScope of the client.
Allows(g) ==
    LET client == GetByClientID(g.client)
    IN  g.uri \in client.uris /\ client.codes /\ g.scope \subseteq client.scopes

\* Identity i, signed in, asks for a code for g; the code c is fresh.
Authorize(r, i, g, c) ==
    /\ req[r].pc = "idle"
    /\ g.who = i
    /\ Allows(g)
    /\ GetByClientID(g.client).tenant = TenantOf[i]
    /\ grant[c] = NoGrant
    /\ grant' = [grant EXCEPT ![c] = g]
    /\ expiry' = [expiry EXCEPT ![c] = CodeTTL]
    /\ req' = [req EXCEPT ![r] = [pc |-> "store", code |-> c, sid |-> None, ttl |-> 0]]
    /\ UNCHANGED <<stored, exch, sess, tok, lost>>

\* CodeStore.Store takes the time left until ExpiresAt; a code that has expired
\* meanwhile is refused, and the user sees an error.
AuthorizeStore(r) ==
    /\ req[r].pc = "store"
    /\ LET ttl == expiry[req[r].code]
       IN  IF ttl > 0 THEN req' = [req EXCEPT ![r].pc = "set", ![r].ttl = ttl] ELSE Reply(r)
    /\ UNCHANGED <<grant, expiry, stored, exch, sess, tok, lost>>

\* The SET with that lifetime, which Redis counts from when the command gets
\* there, and the redirect.
AuthorizeSet(r) ==
    /\ req[r].pc = "set"
    /\ stored' = [stored EXCEPT ![req[r].code] = req[r].ttl]
    /\ Reply(r)
    /\ UNCHANGED <<grant, expiry, exch, sess, tok, lost>>

-----------------------------------------------------------------------------
(* POST /oauth/token, grant type authorization_code *)

\* Faulty variant: the verifier is not compared.
FitsAnyVerifier(x, c) ==
    /\ grant[c].client = x.client
    /\ grant[c].uri = x.uri

\* The code was issued for just this client, redirect URI and verifier.
Fits(x, c) ==
    /\ grant[c].client = x.client
    /\ grant[c].uri = x.uri
    /\ grant[c].ver = x.ver

\* Faulty variant: the code is read first and deleted when it has been used.
TokenConsumeLater(r, x, secret, c) ==
    /\ req[r].pc = "idle"
    /\ x.client \in Confidential => secret = "right"
    /\ stored[c] > 0 /\ expiry[c] > 0 /\ Fits(x, c)
    /\ exch' = [exch EXCEPT ![c] = x]
    /\ req' = [req EXCEPT ![r] = [pc |-> "opening", code |-> c, sid |-> None, ttl |-> 0]]
    /\ UNCHANGED <<grant, expiry, stored, sess, tok, lost>>

\* CodeStore.Consume: GETDEL.
Consume(c) == stored[c] > 0 /\ stored' = [stored EXCEPT ![c] = 0]

\* Faulty variant: what Redis still holds counts as valid.
TokenConsumeExpired(r, x, secret, c) ==
    /\ req[r].pc = "idle"
    /\ x.client \in Confidential => secret = "right"
    /\ Consume(c)
    /\ IF Fits(x, c)
       THEN /\ exch' = [exch EXCEPT ![c] = x]
            /\ req' = [req EXCEPT ![r] = [pc |-> "opening", code |-> c, sid |-> None, ttl |-> 0]]
       ELSE UNCHANGED <<exch, req>>
    /\ UNCHANGED <<grant, expiry, sess, tok, lost>>

\* The client is authenticated, the code is taken out of Redis, and
\* only then is it compared with the request x: a misfit loses the code.
TokenConsume(r, x, secret, c) ==
    /\ req[r].pc = "idle"
    /\ GetByClientID(x.client).confidential => secret = "right"
    /\ Consume(c)
    /\ IF expiry[c] > 0 /\ Fits(x, c)
       THEN /\ exch' = [exch EXCEPT ![c] = x]
            /\ req' = [req EXCEPT ![r] = [pc |-> "opening", code |-> c, sid |-> None, ttl |-> 0]]
       ELSE UNCHANGED <<exch, req>>
    /\ UNCHANGED <<grant, expiry, sess, tok, lost>>

\* Identity, roles and permissions are read, then the session is inserted.
TokenCreate(r, s) ==
    /\ req[r].pc = "opening"
    /\ sess[s] = NoRow
    /\ sess' = [sess EXCEPT ![s] = [code |-> req[r].code, who |-> grant[req[r].code].who]]
    /\ req' = [req EXCEPT ![r] = [pc |-> "issue", code |-> req[r].code, sid |-> s, ttl |-> 0]]
    /\ UNCHANGED <<grant, expiry, stored, exch, tok, lost>>

hasScope(scope) == OpenID \in scope

\* The answer with the access token, the granted scopes and perhaps an ID token
\* that carries the nonce of the code idt.
Answer(r, idt) ==
    /\ tok' = [tok EXCEPT ![req[r].sid] = [aud   |-> exch[req[r].code].client,
                                           scope |-> grant[req[r].code].scope,
                                           id    |-> idt]]
    /\ Reply(r)

\* Faulty variant: without the scope openid nothing is answered.
TokenIssueIfOpenID(r) ==
    /\ req[r].pc = "issue"
    /\ IF hasScope(grant[req[r].code].scope)
       THEN req' = [req EXCEPT ![r].pc = "idtoken"] ELSE Reply(r)
    /\ UNCHANGED <<grant, expiry, stored, exch, sess, tok, lost>>

\* The access token is signed.  Without the scope openid it is the answer.
TokenIssue(r) ==
    /\ req[r].pc = "issue"
    /\ IF hasScope(grant[req[r].code].scope)
       THEN req' = [req EXCEPT ![r].pc = "idtoken"] /\ UNCHANGED tok
       ELSE Answer(r, None)
    /\ UNCHANGED <<grant, expiry, stored, exch, sess, lost>>

\* The ID token is signed too, in a second read of the active key.
IssueIDToken(r) ==
    /\ req[r].pc = "idtoken"
    /\ Answer(r, req[r].code)
    /\ UNCHANGED <<grant, expiry, stored, exch, sess, lost>>

-----------------------------------------------------------------------------
\* The next call of r fails; nothing is undone.
Abort(r) ==
    /\ Faults
    /\ req[r].pc # "idle"
    /\ lost' = lost \cup {req[r].code}
    /\ Reply(r)
    /\ UNCHANGED <<grant, expiry, stored, exch, sess, tok>>

Tick ==
    /\ stored' = [c \in Code |-> Dec(stored[c])]
    /\ expiry' = [c \in Code |-> Dec(expiry[c])]
    /\ UNCHANGED <<grant, exch, sess, tok, lost, req>>

Grants == [client : Client, who : Identity, uri : Uri, ver : Verifier,
           scope : SUBSET Scope]
Exchanges == [client : Client, uri : Uri, ver : Verifier]

\* Handler.Authorize: identity and tenant come from the session of the caller,
\* the rest from the query; a refusal and the code go out in a redirect.
HandleAuthorize(r) ==
    \/ \E g \in Grants, c \in Code : Authorize(r, g.who, g, c)
    \/ AuthorizeStore(r)
    \/ AuthorizeSet(r)

\* Handler.Token: the client's name and secret come from the header or else the
\* form, as do the fields of the exchange.
HandleToken(r) ==
    \/ \E x \in Exchanges, k \in {"right", "wrong"}, c \in Code : TokenConsume(r, x, k, c)
    \/ \E s \in SessionId : TokenCreate(r, s)
    \/ TokenIssue(r)
    \/ IssueIDToken(r)

Next ==
    \/ \E r \in Request : HandleAuthorize(r) \/ HandleToken(r) \/ Abort(r)
    \/ Tick

Spec == Init /\ [][Next]_vars

\* A request in flight is served to its end.
Serve(r) == \/ AuthorizeStore(r) \/ AuthorizeSet(r)
            \/ \E s \in SessionId : TokenCreate(r, s)
            \/ TokenIssue(r) \/ IssueIDToken(r)
FairSpec == Spec /\ \A r \in Request : WF_vars(Serve(r))

-----------------------------------------------------------------------------
(* Properties *)

ReqType == [pc : {"idle", "store", "set", "opening", "issue", "idtoken"},
            code : Code \cup {None}, sid : SessionId \cup {None},
            ttl : 0..CodeTTL]

TypeOK ==
    /\ grant \in [Code -> Grants \cup {NoGrant}]
    /\ expiry \in [Code -> 0..CodeTTL]
    /\ stored \in [Code -> 0..CodeTTL]
    /\ exch \in [Code -> Exchanges \cup {NoExch}]
    /\ sess \in [SessionId -> [code : Code \cup {None}, who : Identity \cup {None}]]
    /\ tok \in [SessionId -> [aud : Client \cup {None}, scope : SUBSET Scope,
                              id : Code \cup {None}]]
    /\ lost \subseteq Code
    /\ req \in [Request -> ReqType]

\* A request that carries the right to open a session with code c.
Carries(r, c) == req[r].code = c /\ req[r].pc \in {"store", "set", "opening"}

\* The answer for session s fits the code c and the exchange accepted for it.
TokenMatches(s, c) ==
    /\ c \in Code
    /\ exch[c] = [client |-> grant[c].client, uri |-> grant[c].uri, ver |-> grant[c].ver]
    /\ sess[s].who = grant[c].who
    /\ tok[s] = [aud |-> grant[c].client, scope |-> grant[c].scope,
                 id |-> IF hasScope(grant[c].scope) THEN c ELSE None]
    /\ tok[s].scope \subseteq Scopes[tok[s].aud]
    /\ TenantOf[sess[s].who] = TenantOf[tok[s].aud]

\* Whoever got tokens for a code named the client, redirect URI and verifier of
\* the authorization, and the tokens are for that client, for no more than the
\* scopes it may have, for an identity of the client's tenant, and with an ID
\* token for this very code if and only if openid was granted - although
\* the answer is put together several calls after the code was compared
\* (authorize.go:69-85, token.go:111-123, token.go:169-183).
TokensMatchGrant ==
    \A s \in SessionId : tok[s] # NoTok => TokenMatches(s, sess[s].code)

\* A code that exists was built as authorize.go checks it.
GrantInv ==
    \A c \in Code : grant[c] # NoGrant =>
        /\ grant[c].client \in CodeClients
        /\ grant[c].scope \subseteq Scopes[grant[c].client]
        /\ TenantOf[grant[c].who] = TenantOf[grant[c].client]

\* A request and a row point to a code that exists; the row was opened by an
\* exchange that fits.
PointerInv ==
    /\ \A r \in Request : req[r].pc # "idle" =>
         req[r].code \in Code /\ grant[req[r].code] # NoGrant
    /\ \A r \in Request : req[r].pc = "opening" => exch[req[r].code] # NoExch
    /\ \A r \in Request : req[r].pc \in {"issue", "idtoken"} =>
         req[r].sid \in SessionId /\ sess[req[r].sid].code = req[r].code
    /\ \A r \in Request : req[r].pc = "idtoken" => hasScope(grant[req[r].code].scope)
    /\ \A s \in SessionId : sess[s] # NoRow =>
         /\ sess[s].code \in Code
         /\ grant[sess[s].code] # NoGrant
         /\ sess[s].who = grant[sess[s].code].who
         /\ exch[sess[s].code] # NoExch
    /\ \A c \in Code : exch[c] # NoExch => grant[c] # NoGrant /\ Fits(exch[c], c)

\* The right to open a session with a code is in one place: with the request
\* that stores it, in Redis, with one exchange, or used up.
PlaceInv ==
    \A c \in Code :
        /\ stored[c] > 0 => grant[c] # NoGrant
        /\ \A r \in Request : Carries(r, c) =>
             stored[c] = 0 /\ \A q \in Request : Carries(q, c) => q = r
        /\ \A s \in SessionId : sess[s].code = c =>
             stored[c] = 0 /\ \A r \in Request : ~Carries(r, c)

\* The inductive invariant: what a code was built for, who holds it and what
\* became of it always fit together (authorize.go:92-108, token.go:107-157).
CodeInv == GrantInv /\ PointerInv /\ PlaceInv

\* r redeems the code c, which it has taken out of Redis in time.
Redeems(r, c) == req[r].code = c /\ req[r].pc = "opening"

\* An authorization code is a one-time ticket that is void from ExpiresAt on,
\* also when the same code is presented twice at the same time and calls fail,
\* and although the key may outlive the code: the lifetime of the key is taken
\* before the call that sets it (code_store.go:30-39, token.go:107-113).
Once == INSTANCE OneShot WITH
    Ticket <- Code, Holder <- Identity,
    holder <- [c \in Code |-> grant[c].who],
    usable <- {c \in Code :
                 \/ expiry[c] > 0 /\ (stored[c] > 0 \/ \E r \in Request : Carries(r, c))
                 \/ \E r \in Request : Redeems(r, c)},
    opened <- {[sid |-> s, ticket |-> sess[s].code, who |-> sess[s].who] :
                 s \in {x \in SessionId : sess[x] # NoRow}}
RefinesOneShot == Once!Spec

\* An accepted exchange ends with tokens for its code, unless a call of the
\* request that carries it fails: the code that was deleted first is not lost
\* otherwise (token.go:107-193).
AcceptedExchangeDelivers ==
    \A c \in Code :
        exch[c] # NoExch ~> c \in lost \/ \E s \in SessionId : sess[s].code = c /\ tok[s] # NoTok

\* r serves the exchange that was accepted for c.
Serves(r, c) == req[r].code = c /\ req[r].pc \in {"opening", "issue", "idtoken"}

\* No accepted exchange is dropped in silence: the code is gone from Redis, so
\* at any moment a request is at work on it, the tokens have been handed out,
\* or a call of that request has failed (token.go:107-193).
ExchangesAccountedFor ==
    \A c \in Code : exch[c] # NoExch =>
        \/ c \in lost
        \/ \E r \in Request : Serves(r, c)
        \/ \E s \in SessionId : sess[s].code = c /\ tok[s] # NoTok

\* The inductive invariant with the types it needs: a code is in one place at a
\* time and fits its grant (token.go:91-194).
IInv == TypeOK /\ CodeInv /\ ExchangesAccountedFor

=============================================================================
