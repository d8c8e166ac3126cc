------------------------------- MODULE SignIn -------------------------------
(***************************************************************************)
(* Signing in to one tenant: the password login with its MFA decision, the *)
(* MFA challenge in Redis, TOTP enrolment, the tenant's require_mfa policy *)
(* and, beside them, the passkey login and the authorization code grant,   *)
(* which ask for neither.  A login reads the policy and then the factors,  *)
(* and acts on both afterwards; a route behind the middleware writes its   *)
(* row some time after its session was checked.  Other requests, and the   *)
(* end of the session, fall in between.                                    *)
(*                                                                         *)
(* A session stands for its family here: refresh, logout, expiry and the   *)
(* tokens issued for it are in Sessions.tla, and End for the moment when   *)
(* nothing of it is accepted any more.  The contents of authorization      *)
(* codes are in OAuthCode.tla; here they are counted.  TOTP codes and      *)
(* passkey assertions are right or wrong.  Unenroll and the deletion of    *)
(* passkeys have no route in the server, so factors and passkeys only      *)
(* accumulate.                                                             *)
(***************************************************************************)
EXTENDS Naturals

CONSTANTS Identity,      \* the tenant's identities
          Admin,         \* those that hold the permission tenant:update
          Factor,        \* mfa_factors ids; their number bounds enrolments
          Ticket,        \* MFA tokens; their number bounds challenges
          SessionId,     \* session ids; their number bounds sign-ins
          Request,       \* request slots; their number bounds concurrency
          None,
          MaxCodes,      \* bound: authorization codes of one identity at a time
          ChallengeTTL,  \* challengeTTL, 5 minutes in the code
          Faults         \* TRUE: calls to Postgres and Redis may fail

ASSUME SignInAssumption ==
    /\ Admin \subseteq Identity
    /\ None \notin Identity \cup Ticket
    /\ MaxCodes \in Nat
    /\ ChallengeTTL \in Nat \ {0}
    /\ Faults \in BOOLEAN

VARIABLES
    \* Postgres
    requireMFA,  \* tenant_policies.require_mfa, FALSE without a row
    factor,      \* factor[f]: "none", "pending" or "verified"
    owner,       \* owner[f]: identity_id
    passkey,     \* identities with a passkey
    sess,        \* sess[s]: "none", "live" or "ended", whose, and opened by what
    \* Redis, keys mfa:challenge:<token>
    stored,      \* time left of the stored challenge, 0 when there is none
    \* challenges, as built by the login
    subject,     \* subject[t]: IdentityID
    expiry,      \* time left until ExpiresAt
    \* Redis, keys oauth:code:<code>
    codes,       \* codes[i]: number of authorization codes stored for i
    req          \* req[r]: a request in flight; its pc is "factors_mfa" when the
                 \* policy it read requires MFA, and "authed" when it has passed
                 \* the middleware as who

vars == <<requireMFA, factor, owner, passkey, sess, stored, subject, expiry, codes, req>>

Idle == [pc |-> "idle", who |-> None, tic |-> None]
NoRow == [st |-> "none", who |-> None, how |-> "none", tic |-> None]

Goto(r, pc) == req' = [req EXCEPT ![r].pc = pc]
Reply(r) == req' = [req EXCEPT ![r] = Idle]
Dec(t) == IF t > 0 THEN t - 1 ELSE 0

\* PolicyRepository.Get and Upsert; without a row MFA is not required.
PolicyGet == requireMFA
PolicyUpsert(b) == requireMFA' = b

\* GetVerifiedByIdentity returns some factor.
Enrolled(i) == \E f \in Factor : owner[f] = i /\ factor[f] = "verified"

\* i has a session that the Authenticate middleware accepts.
SignedIn(i) == \E s \in SessionId : sess[s].st = "live" /\ sess[s].who = i

\* sessionRepo.Create, tic being the challenge that was redeemed, if any.
CreateSession(s, i, how, tic) ==
    /\ sess[s] = NoRow
    /\ sess' = [sess EXCEPT ![s] = [st |-> "live", who |-> i, how |-> how, tic |-> tic]]

-----------------------------------------------------------------------------
\* The identities are registered and nobody has signed in.
Init ==
    /\ requireMFA = FALSE
    /\ factor = [f \in Factor |-> "none"]
    /\ owner = [f \in Factor |-> None]
    /\ passkey = {}
    /\ sess = [s \in SessionId |-> NoRow]
    /\ stored = [t \in Ticket |-> 0]
    /\ subject = [t \in Ticket |-> None]
    /\ expiry = [t \in Ticket |-> 0]
    /\ codes = [i \in Identity |-> 0]
    /\ req = [r \in Request |-> Idle]

-----------------------------------------------------------------------------
(* POST /login *)

\* The password is right and policyEnforcer.Get has returned.
LoginPolicy(r, i) ==
    /\ req[r].pc = "idle"
    /\ req' = [req EXCEPT ![r] = [pc |-> IF PolicyGet THEN "factors_mfa" ELSE "factors",
                                  who |-> i, tic |-> None]]
    /\ UNCHANGED <<requireMFA, factor, owner, passkey, sess, stored, subject, expiry, codes>>

\* Faulty variant: factors are only asked for when the policy requires MFA.
LoginFactorsIfRequired(r) ==
    /\ req[r].pc \in {"factors", "factors_mfa"}
    /\ IF req[r].pc = "factors"
       THEN Goto(r, "create") /\ UNCHANGED <<subject, expiry>>
       ELSE IF ~Enrolled(req[r].who)
       THEN Reply(r) /\ UNCHANGED <<subject, expiry>>
       ELSE \E t \in Ticket :
              /\ subject[t] = None
              /\ subject' = [subject EXCEPT ![t] = req[r].who]
              /\ expiry' = [expiry EXCEPT ![t] = ChallengeTTL]
              /\ req' = [req EXCEPT ![r] = [pc |-> "store", who |-> req[r].who, tic |-> t]]
    /\ UNCHANGED <<requireMFA, factor, owner, passkey, sess, stored, codes>>

\* Faulty variant: the policy is not consulted.
LoginFactorsIgnoringPolicy(r) ==
    /\ req[r].pc \in {"factors", "factors_mfa"}
    /\ IF ~Enrolled(req[r].who)
       THEN Goto(r, "create") /\ UNCHANGED <<subject, expiry>>
       ELSE \E t \in Ticket :
              /\ subject[t] = None
              /\ subject' = [subject EXCEPT ![t] = req[r].who]
              /\ expiry' = [expiry EXCEPT ![t] = ChallengeTTL]
              /\ req' = [req EXCEPT ![r] = [pc |-> "store", who |-> req[r].who, tic |-> t]]
    /\ UNCHANGED <<requireMFA, factor, owner, passkey, sess, stored, codes>>

\* GetVerifiedByIdentity: with a factor a challenge is built under a fresh
\* random token; without one the policy decides between refusal and a session.
LoginFactors(r) ==
    /\ req[r].pc \in {"factors", "factors_mfa"}
    /\ \/ /\ Enrolled(req[r].who)
          /\ \E t \in Ticket :
               /\ subject[t] = None
               /\ subject' = [subject EXCEPT ![t] = req[r].who]
               /\ expiry' = [expiry EXCEPT ![t] = ChallengeTTL]
               /\ req' = [req EXCEPT ![r] = [pc |-> "store", who |-> req[r].who, tic |-> t]]
       \/ /\ ~Enrolled(req[r].who)
          /\ IF req[r].pc = "factors_mfa" THEN Reply(r) ELSE Goto(r, "create")
          /\ UNCHANGED <<subject, expiry>>
    /\ UNCHANGED <<requireMFA, factor, owner, passkey, sess, stored, codes>>

\* mfaChallengeStore.Store, then the reply with the MFA token.
LoginStore(r) ==
    /\ req[r].pc = "store"
    /\ stored' = [stored EXCEPT ![req[r].tic] = ChallengeTTL]
    /\ Reply(r)
    /\ UNCHANGED <<requireMFA, factor, owner, passkey, sess, subject, expiry, codes>>

\* A session for the password alone.
LoginCreate(r, s) ==
    /\ req[r].pc = "create"
    /\ CreateSession(s, req[r].who, "password", None)
    /\ Reply(r)
    /\ UNCHANGED <<requireMFA, factor, owner, passkey, stored, subject, expiry, codes>>

-----------------------------------------------------------------------------
(* POST /mfa/complete *)

\* Faulty variant: the challenge is read but not deleted.
CompleteConsumeKeeping(r, t) ==
    /\ req[r].pc = "idle"
    /\ stored[t] > 0
    /\ expiry[t] > 0
    /\ req' = [req EXCEPT ![r] = [pc |-> "verify", who |-> subject[t], tic |-> t]]
    /\ UNCHANGED <<requireMFA, factor, owner, passkey, sess, stored, subject, expiry, codes>>

\* mfaChallengeStore.Consume: GETDEL.
Consume(t) == stored[t] > 0 /\ stored' = [stored EXCEPT ![t] = 0]

\* The challenge is taken out of Redis, and ExpiresAt is checked.
CompleteConsume(r, t) ==
    /\ req[r].pc = "idle"
    /\ Consume(t)
    /\ IF expiry[t] > 0
       THEN req' = [req EXCEPT ![r] = [pc |-> "verify", who |-> subject[t], tic |-> t]]
       ELSE UNCHANGED req
    /\ UNCHANGED <<requireMFA, factor, owner, passkey, sess, subject, expiry, codes>>

\* totpService.Verify: the code fits a verified factor, or the challenge is lost.
CompleteVerify(r) ==
    /\ req[r].pc = "verify"
    /\ \/ Enrolled(req[r].who) /\ Goto(r, "opening")
       \/ Reply(r)
    /\ UNCHANGED <<requireMFA, factor, owner, passkey, sess, stored, subject, expiry, codes>>

\* Faulty variant: the insert is retried after it has succeeded.
CompleteCreateRetried(r, s) ==
    /\ req[r].pc = "opening"
    /\ CreateSession(s, req[r].who, "mfa", req[r].tic)
    /\ Reply(r) \/ UNCHANGED req
    /\ UNCHANGED <<requireMFA, factor, owner, passkey, stored, subject, expiry, codes>>

CompleteCreate(r, s) ==
    /\ req[r].pc = "opening"
    /\ CreateSession(s, req[r].who, "mfa", req[r].tic)
    /\ Reply(r)
    /\ UNCHANGED <<requireMFA, factor, owner, passkey, stored, subject, expiry, codes>>

-----------------------------------------------------------------------------
(* Routes behind the Authenticate middleware *)

\* Faulty variant: whoever the request says it is.
AuthenticateAnyone(r, i) ==
    /\ req[r].pc = "idle"
    /\ req' = [req EXCEPT ![r] = [pc |-> "authed", who |-> i, tic |-> None]]
    /\ UNCHANGED <<requireMFA, factor, owner, passkey, sess, stored, subject, expiry, codes>>

\* AuthenticationMiddleware: the session is checked, once, before the handler.
Authenticate(r, i) ==
    /\ req[r].pc = "idle"
    /\ SignedIn(i)
    /\ req' = [req EXCEPT ![r] = [pc |-> "authed", who |-> i, tic |-> None]]
    /\ UNCHANGED <<requireMFA, factor, owner, passkey, sess, stored, subject, expiry, codes>>

\* The factor repository: a new row under a fresh id, not verified.
CreateFactor(f, i) ==
    /\ factor[f] = "none"
    /\ factor' = [factor EXCEPT ![f] = "pending"]
    /\ owner' = [owner EXCEPT ![f] = i]

GetFactorByID(f) == factor[f] # "none"

MarkVerified(f) == factor' = [factor EXCEPT ![f] = "verified"]

\* TOTPService.Enroll.
Enroll(i, f) ==
    /\ CreateFactor(f, i)
    /\ UNCHANGED <<requireMFA, passkey, sess, stored, subject, expiry, codes>>

\* TOTPService.VerifyEnrollment with a right code; the factor is looked up by
\* its id alone.
VerifyEnrollment(f) ==
    /\ GetFactorByID(f)
    /\ MarkVerified(f)
    /\ UNCHANGED <<requireMFA, owner, passkey, sess, stored, subject, expiry, codes>>

\* Handler.EnrollTOTP, POST /mfa/enroll/totp: the identity is the principal's.
EnrollTOTP(r) ==
    /\ req[r].pc = "authed"
    /\ \E f \in Factor : Enroll(req[r].who, f)
    /\ Reply(r)

\* Handler.VerifyEnrollment, POST /mfa/enroll/verify: any principal, any factor
\* id in the body.
HandleVerifyEnrollment(r) ==
    /\ req[r].pc = "authed"
    /\ \E f \in Factor : VerifyEnrollment(f)
    /\ Reply(r)

\* PUT /tenant/policy, for principals with tenant:update.
PolicyPut(r, b) ==
    /\ req[r].pc = "authed"
    /\ req[r].who \in Admin
    /\ PolicyUpsert(b)
    /\ Reply(r)
    /\ UNCHANGED <<factor, owner, passkey, sess, stored, subject, expiry, codes>>

\* POST /webauthn/register/complete, up to the insert of the passkey.
AddPasskey(r) ==
    /\ req[r].pc = "authed"
    /\ passkey' = passkey \cup {req[r].who}
    /\ Reply(r)
    /\ UNCHANGED <<requireMFA, factor, owner, sess, stored, subject, expiry, codes>>

\* GET /oauth/authorize, up to the code for the principal in Redis.
Authorize(r) ==
    /\ req[r].pc = "authed"
    /\ codes[req[r].who] < MaxCodes
    /\ codes' = [codes EXCEPT ![req[r].who] = @ + 1]
    /\ Reply(r)
    /\ UNCHANGED <<requireMFA, factor, owner, passkey, sess, stored, subject, expiry>>

-----------------------------------------------------------------------------
(* Sessions without a login *)

\* POST /webauthn/login/complete: neither the policy nor the factors are read.
PasskeyLogin(i, s) ==
    /\ i \in passkey
    /\ CreateSession(s, i, "passkey", None)
    /\ UNCHANGED <<requireMFA, factor, owner, passkey, stored, subject, expiry, codes, req>>

\* POST /oauth/token: a code of i is taken out of Redis and compared with the
\* request; neither the policy nor the factors are read.
RedeemCode(r, i) ==
    /\ req[r].pc = "idle"
    /\ codes[i] > 0
    /\ codes' = [codes EXCEPT ![i] = @ - 1]
    /\ \/ req' = [req EXCEPT ![r] = [pc |-> "exchange", who |-> i, tic |-> None]]
       \/ UNCHANGED req
    /\ UNCHANGED <<requireMFA, factor, owner, passkey, sess, stored, subject, expiry>>

\* The session of the authorization code grant.
RedeemCreate(r, s) ==
    /\ req[r].pc = "exchange"
    /\ CreateSession(s, req[r].who, "code", None)
    /\ Reply(r)
    /\ UNCHANGED <<requireMFA, factor, owner, passkey, stored, subject, expiry, codes>>

-----------------------------------------------------------------------------
(* Environment *)

\* The session has expired or is revoked, with all its successors, and its
\* tokens and cache entries have run out.
End(s) ==
    /\ sess[s].st = "live"
    /\ sess' = [sess EXCEPT ![s].st = "ended"]
    /\ UNCHANGED <<requireMFA, factor, owner, passkey, stored, subject, expiry, codes, req>>

\* The key of a code of i expires.
CodeRunsOut(i) ==
    /\ codes[i] > 0
    /\ codes' = [codes EXCEPT ![i] = @ - 1]
    /\ UNCHANGED <<requireMFA, factor, owner, passkey, sess, stored, subject, expiry, req>>

\* The next call of r fails; nothing is undone.
Abort(r) ==
    /\ Faults
    /\ req[r].pc # "idle"
    /\ Reply(r)
    /\ UNCHANGED <<requireMFA, factor, owner, passkey, sess, stored, subject, expiry, codes>>

Tick ==
    /\ stored' = [t \in Ticket |-> Dec(stored[t])]
    /\ expiry' = [t \in Ticket |-> Dec(expiry[t])]
    /\ UNCHANGED <<requireMFA, factor, owner, passkey, sess, subject, codes, req>>

\* Handler.Login: the calls of one login up to its answer, which is a session,
\* an MFA token or a refusal.
Login(r) ==
    \/ \E i \in Identity : LoginPolicy(r, i)
    \/ LoginFactors(r) \/ LoginStore(r)
    \/ \E s \in SessionId : LoginCreate(r, s)

\* Handler.Complete of MFA: whoever has the MFA token; no session is asked for.
Complete(r) ==
    \/ \E t \in Ticket : CompleteConsume(r, t)
    \/ CompleteVerify(r)
    \/ \E s \in SessionId : CompleteCreate(r, s)

\* The middleware and the handlers behind it.
SessionRoute(r) ==
    \/ \E i \in Identity : Authenticate(r, i)
    \/ EnrollTOTP(r) \/ HandleVerifyEnrollment(r)
    \/ \E b \in BOOLEAN : PolicyPut(r, b)
    \/ AddPasskey(r) \/ Authorize(r)

\* The authorization code grant: whoever has the code and its verifier.
Exchange(r) ==
    \/ \E i \in Identity : RedeemCode(r, i)
    \/ \E s \in SessionId : RedeemCreate(r, s)

RequestStep(r) == Login(r) \/ Complete(r) \/ SessionRoute(r) \/ Exchange(r) \/ Abort(r)

IdentityStep(i) ==
    \/ \E s \in SessionId : PasskeyLogin(i, s)
    \/ CodeRunsOut(i)

Next == \/ \E r \in Request : RequestStep(r)
        \/ \E i \in Identity : IdentityStep(i)
        \/ \E s \in SessionId : End(s)
        \/ Tick

Spec == Init /\ [][Next]_vars

-----------------------------------------------------------------------------
(* Properties *)

RowType == [st : {"none", "live", "ended"}, who : Identity \cup {None},
            how : {"none", "password", "mfa", "passkey", "code"}, tic : Ticket \cup {None}]

ReqType == [pc : {"idle", "factors", "factors_mfa", "store", "create", "verify",
                  "opening", "authed", "exchange"},
            who : Identity \cup {None}, tic : Ticket \cup {None}]

TypeOK ==
    /\ requireMFA \in BOOLEAN
    /\ factor \in [Factor -> {"none", "pending", "verified"}]
    /\ owner \in [Factor -> Identity \cup {None}]
    /\ passkey \subseteq Identity
    /\ sess \in [SessionId -> RowType]
    /\ stored \in [Ticket -> 0..ChallengeTTL]
    /\ subject \in [Ticket -> Identity \cup {None}]
    /\ expiry \in [Ticket -> 0..ChallengeTTL]
    /\ codes \in [Identity -> 0..MaxCodes]
    /\ req \in [Request -> ReqType]

PasswordOnly(i) == {s \in SessionId : sess[s].who = i /\ sess[s].how = "password"}

\* i has a verified factor and no login that found none is still under way.
Guarded(i) ==
    /\ Enrolled(i)
    /\ \A r \in Request : ~(req[r].pc = "create" /\ req[r].who = i)

\* Once a factor is verified and the logins that read the factors before have
\* ended, the password alone never opens a session of that identity again,
\* whatever the tenant's policy says (login.go:114-140).
FactorEndsPasswordOnly ==
    [][\A i \in Identity :
         Guarded(i) => Guarded(i)' /\ PasswordOnly(i)' = PasswordOnly(i)]_vars

\* MFA is required and no login that read an older policy is still under way.
Enforced ==
    /\ requireMFA
    /\ \A r \in Request : req[r].pc \notin {"factors", "create"}

\* Once MFA is required and the logins that read the policy before have ended,
\* no password alone opens a session until the policy is taken back
\* (login.go:109-120).
PolicyEndsPasswordOnly ==
    [][Enforced => /\ Enforced' \/ ~requireMFA'
                   /\ \A i \in Identity : PasswordOnly(i)' = PasswordOnly(i)]_vars

\* i cannot sign in: MFA is required, i has neither factor nor passkey, is not
\* signed in, so that the routes to enrol are closed to i, and nothing i did
\* while signed in is still to come: no request has passed the middleware as i,
\* and no authorization code of i is stored or being exchanged.
LockedOut(i) ==
    /\ Enforced
    /\ i \notin passkey
    /\ ~SignedIn(i)
    /\ \A f \in Factor : owner[f] # i
    /\ \A t \in Ticket : subject[t] # i
    /\ codes[i] = 0
    /\ \A r \in Request : req[r].pc \in {"authed", "exchange"} => req[r].who # i

\* Being told "mfa enrollment required" (login.go:118) has no way out of its
\* own, by any route of the server: a locked out identity stays so until the
\* policy is changed by a request that has passed the middleware as an
\* administrator, and when every identity of the tenant is locked out the
\* tenant stays so for good.
LockoutNeedsAdmin ==
    [][\A i \in Identity :
         LockedOut(i) =>
           \/ LockedOut(i)'
           \/ /\ ~requireMFA'
              /\ \E r \in Request : req[r].pc = "authed" /\ req[r].who \in Admin]_vars

\* A request that carries the right to open a session with challenge t.
Carries(r, t) == req[r].tic = t /\ req[r].pc \in {"store", "verify", "opening"}

\* A request knows its identity, and a challenge it carries is that identity's.
CarrierInv ==
    \A r \in Request :
        /\ req[r].pc # "idle" => req[r].who \in Identity
        /\ req[r].pc \in {"store", "verify", "opening"} =>
             req[r].tic \in Ticket /\ subject[req[r].tic] = req[r].who

\* A challenge is carried by one request, stored in Redis, or neither.
OnePlaceInv ==
    \A t \in Ticket :
        /\ stored[t] > 0 => subject[t] \in Identity
        /\ \A r \in Request : Carries(r, t) =>
             stored[t] = 0 /\ \A q \in Request : Carries(q, t) => q = r

\* A challenge that has opened a session is nowhere else any more.
SpentInv ==
    \A s \in SessionId, t \in Ticket : sess[s].tic = t =>
        /\ subject[t] \in Identity
        /\ stored[t] = 0
        /\ \A r \in Request : ~Carries(r, t)

\* The inductive invariant: the right to a second-factor session is in one
\* place at a time - in a login about to store it, in Redis, in one completion,
\* or used up - whichever calls of which requests interleave or fail
\* (login.go:121-139, complete.go:66-111).
ChallengeInv == CarrierInv /\ OnePlaceInv /\ SpentInv

\* An MFA challenge is a one-time ticket, also under concurrent completions of
\* the same token and with calls that fail at any point (complete.go:65-111,
\* challenge_store.go:42).
Once == INSTANCE OneShot WITH
    Holder <- Identity,
    holder <- subject,
    usable <- {t \in Ticket : stored[t] > 0 \/ \E r \in Request : Carries(r, t)},
    opened <- {[sid |-> s, ticket |-> sess[s].tic, who |-> sess[s].who] :
                 s \in {x \in SessionId : sess[x].tic # None}}
RefinesOneShot == Once!Spec

\* The inductive invariant with the types it needs: an MFA token is in one
\* place at a time (login.go:89-201, complete.go:65-138).
IInv == TypeOK /\ ChallengeInv

=============================================================================
