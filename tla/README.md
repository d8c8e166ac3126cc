# Janus: TLA+ models, checks and proofs

Janus is a multi-tenant authentication server written in Go: an HTTP server (`cmd/iam-server`), a worker for the audit trail
and for dead sessions (`cmd/worker`) and a key rotation command (`cmd/key-rotator`) over Postgres, Redis and NATS. This
directory holds TLA+ modules that model its stateful parts, TLC configurations that check them on small instances, and
proofs, checked by TLAPS, that the main properties hold for every size.

`PROJECT.json` lists components, runs, mutants, findings, hazards and theorems, and maps every definition to the
lines it models. Paths below are relative to `src/`.

## 1. Inventory

### Components

| Component | State | Operations | Model |
|---|---|---|---|
| Session endpoints (`internal/auth/app/refresh.go`, `logout.go`, refresh grant in `internal/oauth/app/token.go`) | rows of `sessions` | refresh (lookup, revoke, purge cache, create, issue), logout (lookup, revoke, purge) | `Sessions`, `SessionTree` |
| Authentication middleware and principal cache (`internal/auth/middleware`) | `auth:principal:<sid>` in Redis, 5 min TTL | bearer token path, session header path (cache get, load, put) | `Sessions` (sessions), `Roles` (permissions in the principal) |
| Worker (`cmd/worker`, `DeleteExpiredOrRevoked`) | the process and its context; rows of `sessions`, foreign key `parent_session_id` | start, signal, shutdown; one `DELETE` at the start and per tick | `SessionRetention`, `Worker` |
| Audit (`internal/audit`) | NATS subject, the worker's subscription, `audit_events` | emit, deliver, insert | `Audit`, `Worker`; the server builds a publisher and does not use it yet |
| Signing keys (`internal/token`, `cmd/key-rotator`) | `signing_keys` | generate, deactivate all, insert; get active, sign; publish JWKS, which relying parties keep | `SigningKeys`, `KeySet` |
| Password login and MFA (`internal/auth/app/login.go`, `internal/mfa`) | `mfa_factors`, `tenant_policies`, `mfa:challenge:<token>` in Redis | login, complete, enrol, verify enrolment, put policy | `SignIn`, `OneShot` |
| OAuth authorization code (`internal/oauth`) | `oauth:code:<code>` in Redis, sessions | authorize, token | `OAuthCode`, `OneShot`; `SignIn` has the sign-in by a code |
| Registration and user creation (`internal/auth/app/register.go`, `internal/identity/app/create_user.go`, slug service, owner bootstrap, `internal/platform/postgres/tx`) | identities, credentials, tenants, users, roles, permissions and their assignments | one transaction per call | `Registration`, `Accounts` |
| WebAuthn passkeys (`internal/webauthn`) | credentials with handles and sign counts, ceremony sessions in Redis | begin and complete of registration and login | `Passkeys`, `OneShot`; `SignIn` has the sign-in beside passwords |
| Roles and permissions (`internal/authorization`) | `roles`, `role_permissions`, `user_roles`, and copies of permissions in tokens and in the cache | create role, assign permission, assign role, check of a route's permission, lists of roles, permissions and users | `Roles`; the owner role in `Registration` |
| OIDC | none | ID token of an exchange; discovery and userinfo read and format | `OAuthCode` (ID token), `Sessions` and `Roles` (the middleware takes it for a principal) |
| Platform (config, HTTP server, metrics, pools) | connections | set-up | not modelled; a failing call is a `Faults` step |
| Shared helpers (random tokens, hashes, passwords, ids) | none | pure functions | names that are fresh or equal |

### How the parts interact

All requests share Postgres and Redis and nothing else; handlers keep no state between requests. A handler is a sequence of
calls, and between two calls any other request may run. Outside of registration and user creation there is no transaction:
every call commits on its own. The cache in Redis is filled by the middleware and emptied by refresh and logout; the refresh
grant of the OAuth endpoint does not touch it. Access tokens are accepted on signature and expiry alone, and so are ID
tokens, which carry no permissions. The worker and the rotator are processes of their own on the same tables.

### What is hard, and what makes each part correct

* **Check, then act.** Refresh reads a row as live and revokes it two calls later; login reads the policy, then the factors,
  then inserts; registration looks for a slug or a permission and inserts it later. Correct means: what an overlap
  can cause is known and bounded, and nothing else causes it. So a logout ends the whole family of a session unless
  a refresh overlaps it.
* **Stale copies.** Principals are cached after several reads; tokens outlive sessions and keys. Correct means: a
  copy of what is revoked only runs out, the key of every live token stays published, and a key set kept by a relying party
  lacks only keys that are younger than it.
* **One-time tickets.** MFA tokens and authorization codes are taken with `GETDEL` before anything is compared.
  Correct means: at most one session per ticket, for its holder, also when a call fails half-way or comes so late that the
  key in Redis outlives the code.
* **Passed the middleware.** A route checks the session first and writes later, and a code opens a session after the one it
  was got with has ended. Correct means: whoever is locked out by the MFA policy is so only when nothing of this is left.
* **Several writes.** Rotation of keys and of sessions is several statements; registration is a transaction that waits for
  other transactions' keys. Correct means: accounts are complete or absent, also when the answer of a commit is lost,
  no circular waits, and gaps close.
* **Ceremonies around a device.** A passkey answer is verified against rows read before, and the count is written
  after it. Correct means: one outcome per challenge, a session for the owner of the passkey only, and a count that
  falls only by an overlap of logins.
* **Permissions by copy.** A route is checked against a principal made minutes ago, the write follows several calls
  later. Correct means: a copy never has more than the tables, who writes is still allowed to, what is shown is of the
  caller's tenant, and after a grant only the copies of earlier or broken reads are left without it.
* **Delivery without acknowledgement.** An event is published, delivered and inserted once each, while workers start,
  stop and die. Correct means: a hole in the trail has a cause, does not close later, and nothing stays pending for ever.
* **Deletion under a foreign key.** One statement deletes all rows past retention or none.

`PROJECT.json` lists the hazards line by line with the properties that cover each; those without a property say why.

## 2. Modules

Time is kept as countdowns: a `Tick` lowers every lifetime by one and stops at zero, so no horizon is needed. `Faults`
lets any call fail, or the client disconnect, after which the rest of the handler does not run. A *faulty variant* in front of a
definition is the form it would have with a plausible mistake; the mutants of `PROJECT.json` use them to show that each
property can fail.

**Sessions** - a request is a process with one step per call: `RefreshLookup`, `RefreshRevoke`, `RefreshPurge`,
`RefreshCreate`, `Issue` for both refresh endpoints (the grant skips the purge), `IssueAccessToken` for a code exchange with
openid, which signs an ID token after the access token (the middleware does not tell them apart), `BearerAuth`,
`HeaderCacheHit`, `HeaderCacheMiss`, `HeaderLoad`, `HeaderPut` for the middleware, and `Logout` with `LogoutLookup`,
`LogoutRevoke`, `LogoutPurge`. A refresh token is named by its session. `contended` remembers sessions that two refreshes
held at once. `lost` remembers the ids that a request was to insert or to answer with when a call of it failed: it is about
one refresh, and says nothing of another refresh of the same session. A new request may draw an id that was lost before it
was inserted.
**SessionTree** is what the table promises: rows are inserted once, only ever revoked, and a successor appears after its
parent is revoked. `Sessions` implements it.

**SessionRetention** - the same rows with ages instead of interleavings. `Cleanup` is the one `DELETE`: it deletes every
eligible row, or fails as a whole when a row it would keep refers to one it would delete.

**Audit** - `Emit` in the server, `Deliver` for NATS (external), and the worker: `Start`, `Take`, `Insert`, `Signal`,
`Exit`, `Crash`. Events are numbered in the order of their emission. `missed` remembers which worker did not get or
could not insert which event: a failed publish, no subscription at the time, the pending limit, a broken connection, a
shutdown, a failed insert.

**Worker** - `SessionRetention` and `Audit` in one process: a pass of the cleanup runs while the worker is up, and fails
when its context is cancelled or the connection does.

**SigningKeys** - rotators (`Generate`, `DeactivateAll`, `Insert`, `RotatorDies`) and issuers (`GetActive`, `Sign`).
`SignDelay` bounds the time between reading a key and signing with it. `Fetch` is a relying party (external) that reads
the key set and keeps it; `since` remembers the keys inserted after its copy.
**KeySet** is what the published keys promise to those who verify with them: a key is published once, withdrawn once, and
not while a token signed with it lives. `SigningKeys` implements it, with `stamp`, `rot` and `iss` hidden.

**OneShot** - the abstract one-time ticket: issued to a holder, redeemed at most once, void for good. Implemented by
`SignIn` (MFA tokens), `OAuthCode` (codes) and `Passkeys` (ceremonies).

**SignIn** - one tenant: `Login` with `LoginPolicy`, `LoginFactors`, `LoginStore`, `LoginCreate`; `Complete` with
`CompleteConsume`, `CompleteVerify`, `CompleteCreate`; `PasskeyLogin`; and the authorization code grant. `Authenticate` is
the middleware: the request has passed it as an identity, and what its route writes (`EnrollTOTP`, `HandleVerifyEnrollment`,
`PolicyPut`, `AddPasskey`, `Authorize`) is a later step, by which the session may have ended. `Authorize` stores a code,
`RedeemCode` takes it, `RedeemCreate` opens the session and `CodeRunsOut` lets it expire; the codes of an identity are
alike here, so `codes` counts them. A session is a row with an owner;
`End` stands for all that `Sessions` says about its end. Implements `OneShot` for MFA tokens.

**OAuthCode** - `Authorize`, `AuthorizeStore`, `AuthorizeSet`, `TokenConsume`, `TokenCreate`, `TokenIssue`, and
`IssueIDToken` when the scope openid was granted. Token requests combine any code with any client, secret, redirect URI and
verifier. `AuthorizeStore` computes the remaining lifetime of the code and `AuthorizeSet` sends it to Redis, where it counts
from its arrival: a slow call leaves a key that outlives the code, and only the comparison with `ExpiresAt` at the exchange
refuses it. `lost` remembers codes whose request had a failing call. Implements `OneShot` for codes: a code is void from its
`ExpiresAt` on, whatever Redis still keeps, unless a request has been accepted with it by then.

**Registration** - both transactions over unique keys (emails, slugs, permission names): `held` are the uncommitted
inserts, `row` the committed ones. An insert waits for the transaction that holds its key (READ COMMITTED) and fails if
the key is then taken; a lookup sees committed rows only. Rows under fresh ids (credentials, users, roles, assignments) are
kept as a list of what the call has made. A commit may go through while its answer is lost, and the caller sees an error.
`met` remembers calls that overlapped others. `GetByEmail`, `GetCredential`, `GetByIdentityID` and `GetRolesForUser` are the
reads of a later sign-in, in which `AllOrNothing` is stated.
**Accounts** is what the two calls promise: an account appears in one step - for an owner with its tenant, its role and all
permissions, for a user in a tenant that exists - or never. `Registration` implements it: the rows committed are the rows
of `Accounts`, and an account is there when its call has committed.

**Passkeys** - `BeginRegistration`, `BeginLogin` store a challenge (`Store`); the authenticator answers it
(`MakeCredential`, `GetAssertion`, external); `RegisterConsume`, `RegisterVerify`, `RegisterCreate` and `LoginConsume`,
`LoginVerify`, `LoginCount`, `LoginCreate` are the calls of the completion. Handles are the bytes of an identity id.
A passkey's count starts with the counter of its attestation, one of `FirstCounts`. `LoginVerify` reads the rows and
verifies the answer against them. `borrowed` remembers registrations completed by somebody else, `overlap` the
passkeys of which a login read the row while another was between its own read and its write of the count.
Implements `OneShot`: a ceremony is a ticket whose holder is what it was begun for (a login has no user yet, so the holder
is the ceremony's record and not a person), and a passkey or a session is what it is redeemed for.

**Roles** - the tables `role`, `grant`, `member` with their writers (`CreateRole`/`InsertRole`,
`AssignPermission`/`InsertGrant`, `CreateUser`/`CommitUser`), and `copy`, the tokens and cache entries that carry
permissions (`SignIn`/`Issue`, `HeaderLoad`/`HeaderPut`). `IssueIDToken` adds the ID token of an exchange, a copy of its own
kind without any permission that the middleware accepts for as long as an access token. `RequirePermission` takes any copy
of the user, or the principal the request has loaded itself. A read of permissions may break off and return the rows so far
(`Prefix`): the code does not ask `rows.Err`. `cut` remembers of a request that its read broke off. `GetUser`, `ListUsers`,
`ListRoles` and `ListRolePermissions`/`ReadPermissions` keep what they are about to answer in the request, and `Handle`
sends it. Each tenant starts registered, with its owner and the roles of `Existing`. No route takes a permission or a role
away.

The `*Proofs` modules hold the theorems, the `MC*` modules the constants and symmetry for TLC where a cfg cannot state them.

## 3. Runs

| Run | Checks | Instance |
|---|---|---|
| `sessions_safety` | `IInv`, `OneSuccessorUnlessContended`, `SealedOnlyFades`, `RefinesSessionTree`, `FinishedFamiliesStayOver` | 3 sessions, 2 requests, faults |
| `sessions_liveness` | `RefreshHandsOver`, `DeadSessionsFadeOut` | 3 sessions, the first also used with the session header, 2 requests, faults, fairness |
| `sessions_reuse` (violation) | `RefreshTokenSingleUse` | 3 sessions, 2 requests |
| `sessions_logout_cache` (violation) | `RevokedSessionsLeaveCache` | 1 session, 2 requests |
| `worker` | `WorkerInv`, `EventsSettle`, `DeadRowsGoWhenRefreshStops` | 2 rows, 2 events, 1 worker, faults, crashes, fairness |
| `retention_cleanup` (violation) | `CleanupDeletesEligible` | 3 rows |
| `signing_keys` | `IInv`, `OneActiveUnlessOverlap`, `CopiesMissOnlyNewKeys`, `GapCloses`, `RefinesKeySet` | 3 keys, 2 rotators, 2 issuers, 1 relying party, crashes, fairness |
| `sign_in` | `IInv`, `FactorEndsPasswordOnly`, `PolicyEndsPasswordOnly`, `LockoutNeedsAdmin`, `RefinesOneShot` | 2 identities, 1 of them an administrator, 1 factor, 1 ticket, 1 code of each identity, 3 sessions, 2 requests, faults |
| `oauth_code` | `IInv`, `TokensMatchGrant`, `RefinesOneShot`, `AcceptedExchangeDelivers` | 3 clients of 2 tenants, 2 identities, 2 codes, 2 requests, faults, fairness |
| `registration` | `IInv`, `FailuresHaveCause`, `NoWaitCycle`, `CallsRunOut`, `EveryCallEnds`, `RefinesAccounts` | 3 calls, 3 emails, 3 slugs, 2 permissions, faults, fairness |
| `passkeys` | `IInv`, `SessionsOpenForOwner`, `HandlesAreOwners`, `CountsOnlyRise`, `RefinesOneShot` | 2 identities, 2 passkeys, 4 ceremonies, 2 sessions, 2 requests, faults |
| `roles` | `IInv`, `PrincipalsWithinRoles`, `ReadsStayInTenant`, `ActsAreAllowed`, `GrantsArrive` | 2 tenants with their owners, the second with 1 more role at the start, requests of the first, which gets 1 more role and 1 more user, 5 permissions of which 2 are assigned, 2 copies, 2 requests, faults |

`IInv` (`WorkerInv` for the worker) is the inductive invariant of a module together with its type invariant: the formula the
proofs use is the one TLC checks. What each property says is in the comment above it.

**Bounds.** The smallest numbers that let every case happen: two requests for every pairwise overlap, three sessions for a
session with two successors, so that two refreshes of one session overlap to their end, and for chains of two rotations,
three keys for two rotations on top of a first key, two permissions for two orders of taking keys, four ceremonies for two
passkeys and a login with each, three registrations for a commit between two overlapping calls, one more slug after the
first so that the next one is tried and the last one is reached, two tenants with one further role each so that a role name
exists in both, two copies so that a token and a cache entry are there side by side, and a further request so that a grant
falls between a read and a put, two events so that one can overtake the other, and a worker that stops and comes back
between them. Two workers were checked once, for `WorkerInv` (656 640 states) and for `DeadRowsOnlyAge` and
`EventsOnlyAdvance` (1 425 960 states), and are covered by their proofs. `Paths` says which endpoints the client of a
session uses and `Before` in which order ids are drawn: `sessions_liveness`, which cannot use symmetry, draws the ids in
their order, and only the principal of its first session is cached. `Existing` are the further roles of `Roles` that are
there at the start, `Caller` its users who make requests. `MaxCodes` bounds the codes of an identity in `SignIn`,
`FirstCounts` are the counters that a new passkey may start with. `Offered` bounds the permissions that are assigned to
roles to one that writes and one that reads. Lifetimes are 1 to 3 ticks, with the order of the code's constants where a
property depends on it (published keys outlive tokens). The proofs remove these bounds for what they cover. Only
`registration` says `CHECK_DEADLOCK FALSE`: when all its calls have ended nothing is left to do. Symmetry of the ids is used
where a run checks no liveness.

**Fairness.** `FairSpec` asks that a handler that has started goes on (the Go runtime runs it, and calls have
timeouts or return), that time passes and that a rotator that does not die runs to its end. Clients
owe nothing: no request has to be made. In `Worker`, NATS routes what was published and a worker's handler goes on (weak
fairness), and a worker that is up again and again gets a pass done at last (strong fairness: it makes one as it starts and
one per tick, and each may fail); nobody has to start a worker, so `DeadRowsGoWhenRefreshStops` assumes that one is up again
and again.

**Findings.** The three violation runs show where the code departs from what it or its tests say: two overlapping refreshes
of one token both succeed (`test/integration/auth_test.go:81`: "reusing old refresh should fail"); a principal may be cached
after the logout has emptied the cache (`internal/auth/app/logout.go:14`); the cleanup deletes nothing while a row past
retention has a younger successor (`cmd/worker/main.go:5`).

## 4. Proofs

Every theorem holds for all values of the constants that satisfy the module's named assumption.

| Module | Theorems | Assumptions used |
|---|---|---|
| `SessionsProofs` | `Inductive`, `ParentsRevoked`, `OneSuccessor`, `SealedFades`, `FinishedFamilies`, `RefreshesKept`, `Refinement` | lifetimes positive, `NoSession` is no id |
| `WorkerProofs` | `WorkerInvariant`, `AncestryAlwaysKept`, `TrailNeverOvertakes`, `NothingLostInSilence`, `RowsAge`, `EventsAdvance` | lifetimes, `NoSession` is no id, a pending limit of at least one |
| `SigningKeysProofs` | `Inductive`, `TokensListed`, `OneActive`, `GapInRotation`, `CopiesMissNewKeys`, `Refinement` | publication covers token lifetime plus `SignDelay` |
| `SignInProofs` | `Inductive`, `FactorEnds`, `PolicyEnds`, `Lockout`, `Refinement` | lifetime positive, `None` is no id |
| `OAuthCodeProofs` | `Inductive`, `TokensMatch`, `Delivery`, `Refinement` | client data well-formed, `None` is no id |
| `RegistrationProofs` | `Inductive`, `Atomicity`, `Owners`, `Failures`, `NoDeadlock`, `Progress`, `GoingOn`, `Refinement` | emails, slugs and permissions are different keys |
| `PasskeysProofs` | `Inductive`, `SingleOutcome`, `Ownership`, `Handles`, `Counters`, `Refinement` | lifetime positive, `None` is no id |
| `RolesProofs` | `Inductive`, `Within`, `Reads`, `Acts`, `Arrival` | lifetimes positive, later ids differ from the tenants' own, `None` is no id |

`Inductive` is `Spec => []IInv` throughout. Each module follows the same argument: an inductive invariant, one lemma per
action, then the properties.

* *Sessions*: `ParentsAreRevoked` alone is not inductive, since a refresh about to insert must have revoked its row.
  `RotationInv` adds what every program counter means for the rows, that ids about to be inserted are fresh and distinct,
  and that two rotations of one session imply contention. `FinishedFamilies` needs no more: a successor is inserted by a
  request that holds its parent. Neither does `SealedFades`: what is dead is cached or issued only by a request that read it
  while it was live, and a sealed session has none of these. `RefreshesKept` is about each refresh by itself, a request, its
  session and the id it has drawn for the successor. It needs `SuccessorInv`: the row whose tokens a request is about to
  send is the successor of the session it was asked to refresh; and `LostInv`: an id at work has not been lost, so that what
  excuses a refresh is a failure of its own.
* *Worker*: `NoOvertaking` alone is not inductive. `OrderInv` says that what is on the wire is later than what is pending,
  and that later than what is being inserted; `EventsAccountedFor` says that whatever is not ahead of a worker has been
  inserted or missed. That rotation chains stay whole and that rows only age needs only the types. `EventsAdvance` rests on
  `OrderInv`: an event is in one place at a time, so leaving it is a step forward.
* *Signing keys*: `LiveTokensListed` needs the signatures under way: `CoverInv` relates the time a token or a signature may
  still take to the time its key stays listed, and `CopyInv` says that what is listed now was in a kept key set or has been
  inserted since. For the refinement of `KeySet` this does not exclude that a rotator inserts a key a second time;
  `NewKeysInv` does: keys in the table have been stamped, and a rotator's key is its own and not in the table.
* *One-time tickets*: `ChallengeInv` and `CodeInv` say that the right to open a session is in exactly one place - a request
  about to store it, Redis, one request about to redeem it, or used up. The refinement mapping to `OneShot` takes the
  tickets in the first three places as usable, an authorization code that nobody redeems only until it expires. `Lockout` of
  `SignIn` needs all ways in to be counted: sessions, factors, passkeys, challenges, codes, and the requests that have
  passed the middleware or taken a code. `ExchangesAccountedFor` adds that an accepted exchange is at work, has delivered or
  has failed.
* *Registration*: `RegistrationInv` says that the keys a call holds are those its progress says it has inserted, that no
  held key has a committed row, that permissions referred to are committed or its own, and that what a call that overlaps no
  other has looked up still holds, and that the tables a call has filled are those its progress says (`MadeInv`).
  `NoDeadlock` follows from `KeysInOrder`: a call wants keys of a higher rank (email, slug, permissions in list order) than
  all it holds; in a circle of waiting calls the highest wanted rank would be exceeded. `GoingOn` is the same argument
  without a circle: the call that wants the highest rank waits for nobody. `Progress` has `CallsLeft` as its measure and
  needs `CreateInv`: a permission is created only where one is missing, and the missing ones grow fewer. The refinement of
  `Accounts` needs `TenantInv` (the tenant of a user belongs to a committed owner, so it is visible and does not change) and
  from `RegistrationInv` that the keys a commit makes visible are the email, the slug and the permissions it created.
* *Passkeys*: `PasskeyInv` says where the right to complete a ceremony is (as for tickets), that a row's ceremony was a
  registration and a session's a login, that a row's handle is its owner's unless the owner is in `borrowed`, and that a
  login about to write a count holds at least the row's unless another login read the row before the write. The refinement
  of `OneShot` needs the places only.
* *Roles*: rows are only added (`Grows` in the proofs), so whatever was read or checked earlier stays within the tables.
  `IInv` says this of copies and requests, and of a handler that its permission, its role and their tenant still stand when
  it writes or answers. That a name means one role rests on the unique key, as the lookup before the insert may fail or be
  overtaken. `GrantsArrive` is the safety half of "a grant becomes visible". Once a user has a permission, no copy without
  it is renewed, a new one uses up a read that was made without it, one copy for each, and after the grant only a read that
  broke off is without it. ID tokens never have permissions, so no grant reaches them; the statement is about access tokens
  and cache entries.

Some theorems state a property that no run lists, because a property that a run lists contains it: `LiveTokensListed` is the
core of `RefinesKeySet`, `OneOutcomePerCeremony` of `RefinesOneShot`, `AllOrNothing` and `OwnersHaveAllPermissions` of
`RefinesAccounts`, and `ExchangesAccountedFor` is part of `IInv`. `RefreshesAccountedFor`, `SomeCallGoesOn`,
`DeadRowsOnlyAge` and `EventsOnlyAdvance` are the proved parts of liveness properties that runs list.

Only model-checked: every liveness property, since the prover handles neither fairness nor `ENABLED`. What each leans on
without fairness is proved for all sizes:

| Liveness property | Its safety half | Left to TLC |
|---|---|---|
| `DeadSessionsFadeOut` | `SealedFades`: what is dead only runs out | that time passes and requests under way end |
| `RefreshHandsOver` | `RefreshesKept`: no refresh is dropped | that a request under way goes on |
| `DeadRowsGoWhenRefreshStops` | `RowsAge`: past retention is for good | that a pass succeeds at last |
| `EventsSettle` | `EventsAdvance`, `NothingLostInSilence`: forward only, and nowhere else than pending, inserted or missed | that handlers go on |
| `GapCloses` | `GapInRotation`: without an active key a rotation is under way or was cut | that a rotator goes on |
| `AcceptedExchangeDelivers` | `Delivery`: no exchange is dropped | that a request goes on |
| `EveryCallEnds` | `Progress`, `GoingOn`: a bound on the steps of each call, and one that need not wait | that a call that can go on does |

## 5. Not modelled

Cryptography (hashes are injective, signatures are not forged, random values are fresh), encodings (a JWK coordinate with
leading zero bytes is shorter than its field; who reads it as a number is not affected), HTTP status codes, cookie
attributes, configuration, metrics and logging. The wiring of the three commands (`main.go` of the server) is constructors
and routes; the permission a route asks for is in the action of its handler. The password and email rules of the tenant
policy and its limit of sessions are not called by any endpoint. `Unenroll` and the deletion of passkeys have no route, and
neither has the use case in `internal/auth/app/me.go`. `/me`, `/oauth/userinfo`, discovery and the lists of factors and
passkeys only format what was read. The load generators under `test/` are clients.

## 6. Plan

Done, in this order: sessions, retention, signing keys, sign-in, authorization codes, registration, passkeys, roles, each
with its proofs; then audit and the worker around retention and audit, families of sessions after a logout, relying parties'
copies of the key set, ID tokens, lost answers of a commit, and the endpoints that read; then the promises `KeySet` and
`Accounts` with the proofs that they are kept, `OneShot` for ceremonies, and the safety halves of the liveness properties.

Next:

1. A composition of `SignIn`, `OAuthCode` and `Passkeys` with `Sessions`, in which a redeemed ticket's session is the root of
   a family.
2. `CleanupDeletesEligible` restricted to the states in which it holds, with a proof.
3. `Roles` joined with `Registration`, so that the role of a new user is looked up inside its transaction.
