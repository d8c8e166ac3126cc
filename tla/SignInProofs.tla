---------------------------- MODULE SignInProofs ----------------------------
(* Sign-in for any number of identities, factors, challenges and requests. *)
EXTENDS SignIn, TLAPS

\* A countdown that is lowered stays within its bound.
LEMMA DecRange ==
    ASSUME NEW n \in Nat, NEW t \in 0..n
    PROVE  Dec(t) \in 0..n /\ (Dec(t) > 0 => t > 0)
  BY DEF Dec

\* The initial state has the types and the inductive invariant.
LEMMA InitInv == Init => TypeOK /\ ChallengeInv
<1> SUFFICES ASSUME Init PROVE TypeOK /\ ChallengeInv
  OBVIOUS
<1> USE SignInAssumption DEF Init, Idle, NoRow
<1>1. Idle \in ReqType /\ NoRow \in RowType
  BY DEF ReqType, RowType
<1>2. /\ stored \in [Ticket -> 0..ChallengeTTL]
      /\ expiry \in [Ticket -> 0..ChallengeTTL]
      /\ codes \in [Identity -> 0..MaxCodes]
  OBVIOUS
<1>3. TypeOK
  BY <1>1, <1>2 DEF TypeOK
<1>4. CarrierInv /\ OnePlaceInv /\ SpentInv
  BY DEF CarrierInv, OnePlaceInv, SpentInv, Carries
<1> QED BY <1>3, <1>4 DEF ChallengeInv

\* How a request changes when it moves on, replies or starts.
LEMMA RequestMoves ==
    ASSUME TypeOK, NEW r \in Request
    PROVE  /\ Reply(r) => /\ req' \in [Request -> ReqType]
                          /\ req'[r] = Idle
                          /\ \A q \in Request \ {r} : req'[q] = req[q]
           /\ \A pc \in {"create", "opening"} :
                Goto(r, pc) => /\ req' \in [Request -> ReqType]
                               /\ req'[r] = [pc |-> pc, who |-> req[r].who, tic |-> req[r].tic]
                               /\ \A q \in Request \ {r} : req'[q] = req[q]
           /\ \A x \in ReqType :
                req' = [req EXCEPT ![r] = x] =>
                  /\ req' \in [Request -> ReqType]
                  /\ req'[r] = x
                  /\ \A q \in Request \ {r} : req'[q] = req[q]
<1> USE SignInAssumption DEF TypeOK
<1>1. Idle \in ReqType
  BY DEF Idle, ReqType
<1>2. Reply(r) => /\ req' \in [Request -> ReqType]
                  /\ req'[r] = Idle
                  /\ \A q \in Request \ {r} : req'[q] = req[q]
  BY <1>1 DEF Reply
<1>3. ASSUME NEW pc \in {"create", "opening"}, Goto(r, pc)
      PROVE  /\ req' \in [Request -> ReqType]
             /\ req'[r] = [pc |-> pc, who |-> req[r].who, tic |-> req[r].tic]
             /\ \A q \in Request \ {r} : req'[q] = req[q]
  BY <1>3 DEF Goto, ReqType
<1> QED BY <1>2, <1>3

\* A reply frees its request.
LEMMA ReplyMoves ==
    ASSUME TypeOK, NEW r \in Request, Reply(r)
    PROVE  req'[r].pc = "idle" /\ \A q \in Request \ {r} : req'[q] = req[q]
<1>1. req'[r] = Idle /\ \A q \in Request \ {r} : req'[q] = req[q]
  BY RequestMoves
<1> QED BY <1>1 DEF Idle

\* LoginFactors either builds a challenge under a token not used before, or
\* ends without one, leaving the challenges alone.
LEMMA FactorsCases ==
    ASSUME TypeOK, NEW r \in Request, LoginFactors(r)
    PROVE  \/ \E t \in Ticket :
                /\ subject[t] = None
                /\ subject' = [subject EXCEPT ![t] = req[r].who]
                /\ expiry' = [expiry EXCEPT ![t] = ChallengeTTL]
                /\ req' = [req EXCEPT ![r] = [pc |-> "store", who |-> req[r].who, tic |-> t]]
           \/ UNCHANGED <<subject, expiry>> /\ (Reply(r) \/ Goto(r, "create"))
  BY DEF LoginFactors

\* A route behind the middleware starts with a session and ends with a reply, and
\* leaves sessions and challenges alone; so does the redemption of a code.
LEMMA RouteMoves ==
    ASSUME TypeOK, NEW r \in Request,
           SessionRoute(r) \/ \E i \in Identity : RedeemCode(r, i)
    PROVE  /\ UNCHANGED <<sess, stored, subject, expiry>>
           /\ req' \in [Request -> ReqType]
           /\ \A q \in Request \ {r} : req'[q] = req[q]
           /\ \/ req'[r] = req[r]
              \/ req'[r].pc = "idle"
              \/ req'[r].pc \in {"authed", "exchange"} /\ req'[r].who \in Identity
<1> USE SignInAssumption
<1>0. \A pc \in {"authed", "exchange"}, i \in Identity :
        [pc |-> pc, who |-> i, tic |-> None] \in ReqType
  BY DEF ReqType
<1>1. CASE EnrollTOTP(r) \/ HandleVerifyEnrollment(r)
  BY <1>1, RequestMoves, ReplyMoves DEF EnrollTOTP, Enroll, HandleVerifyEnrollment, VerifyEnrollment
<1>2. CASE \/ \E b \in BOOLEAN : PolicyPut(r, b)
           \/ AddPasskey(r) \/ Authorize(r)
  BY <1>2, RequestMoves, ReplyMoves DEF PolicyPut, AddPasskey, Authorize
<1>3. ASSUME NEW i \in Identity, Authenticate(r, i)
      PROVE  /\ UNCHANGED <<sess, stored, subject, expiry>>
             /\ req' \in [Request -> ReqType]
             /\ \A q \in Request \ {r} : req'[q] = req[q]
             /\ req'[r].pc = "authed" /\ req'[r].who = i
  <2>1. /\ req' \in [Request -> ReqType]
        /\ \A q \in Request \ {r} : req'[q] = req[q]
        /\ req'[r] = [pc |-> "authed", who |-> i, tic |-> None]
    BY <1>0, <1>3, RequestMoves DEF Authenticate
  <2> QED BY <1>3, <2>1 DEF Authenticate
<1>4. ASSUME NEW i \in Identity, RedeemCode(r, i)
      PROVE  /\ UNCHANGED <<sess, stored, subject, expiry>>
             /\ req' \in [Request -> ReqType]
             /\ \A q \in Request \ {r} : req'[q] = req[q]
             /\ \/ req'[r].pc = "exchange" /\ req'[r].who = i
                \/ req'[r] = req[r]
  <2>1. CASE UNCHANGED req
    BY <1>4, <2>1 DEF RedeemCode, TypeOK
  <2>2. CASE req' = [req EXCEPT ![r] = [pc |-> "exchange", who |-> i, tic |-> None]]
    <3>1. /\ req' \in [Request -> ReqType]
          /\ \A q \in Request \ {r} : req'[q] = req[q]
          /\ req'[r] = [pc |-> "exchange", who |-> i, tic |-> None]
      BY <1>0, <2>2, RequestMoves
    <3> QED BY <1>4, <3>1 DEF RedeemCode
  <2> QED BY <1>4, <2>1, <2>2 DEF RedeemCode
<1> QED BY <1>1, <1>2, <1>3, <1>4 DEF SessionRoute

\* Every step keeps the types.
LEMMA TypeStep == TypeOK /\ CarrierInv /\ [Next]_vars => TypeOK'
<1> SUFFICES ASSUME TypeOK, CarrierInv, [Next]_vars PROVE TypeOK'
  OBVIOUS
<1> USE SignInAssumption
<1>c. \A r \in Request : req[r].pc = "authed" => req[r].who \in Identity
  BY DEF CarrierInv
<1>q. \A r \in Request : req[r].who \in Identity \cup {None} /\ req[r].tic \in Ticket \cup {None}
  BY DEF TypeOK, ReqType
<1>s. ASSUME NEW s \in SessionId, NEW i \in Identity \cup {None},
             NEW how \in {"password", "mfa", "passkey", "code"}, NEW t \in Ticket \cup {None},
             CreateSession(s, i, how, t)
      PROVE  sess' \in [SessionId -> RowType]
  BY <1>s DEF CreateSession, TypeOK, RowType
<1>1. ASSUME NEW r \in Request, NEW i \in Identity, LoginPolicy(r, i) PROVE TypeOK'
  <2>1. \A pc \in {"factors", "factors_mfa"} : [pc |-> pc, who |-> i, tic |-> None] \in ReqType
    BY DEF ReqType
  <2>2. PICK pc \in {"factors", "factors_mfa"} :
          req' = [req EXCEPT ![r] = [pc |-> pc, who |-> i, tic |-> None]]
    <3>1. CASE requireMFA
      BY <1>1, <3>1 DEF LoginPolicy, PolicyGet
    <3>2. CASE ~requireMFA
      BY <1>1, <3>2 DEF LoginPolicy, PolicyGet
    <3> QED BY <3>1, <3>2
  <2>3. req' \in [Request -> ReqType]
    BY <2>1, <2>2, RequestMoves
  <2> QED BY <1>1, <2>3 DEF LoginPolicy, PolicyGet, TypeOK
<1>2. ASSUME NEW r \in Request, LoginFactors(r) PROVE TypeOK'
  <2>1. CASE UNCHANGED <<subject, expiry>> /\ (Reply(r) \/ Goto(r, "create"))
    <3>1. req' \in [Request -> ReqType]
      BY <2>1, RequestMoves
    <3> QED BY <1>2, <2>1, <3>1 DEF LoginFactors, TypeOK
  <2>2. ASSUME NEW t \in Ticket,
               subject' = [subject EXCEPT ![t] = req[r].who],
               expiry' = [expiry EXCEPT ![t] = ChallengeTTL],
               req' = [req EXCEPT ![r] = [pc |-> "store", who |-> req[r].who, tic |-> t]]
        PROVE  TypeOK'
    <3>1. [pc |-> "store", who |-> req[r].who, tic |-> t] \in ReqType
      BY <1>q DEF ReqType
    <3>2. req' \in [Request -> ReqType]
      BY <2>2, <3>1, RequestMoves
    <3> QED BY <1>2, <1>q, <2>2, <3>2 DEF LoginFactors, TypeOK
  <2> QED BY <1>2, <2>1, <2>2, FactorsCases
<1>3. ASSUME NEW r \in Request, LoginStore(r) PROVE TypeOK'
  <2>1. req' \in [Request -> ReqType]
    BY <1>3, RequestMoves DEF LoginStore
  <2>2. ChallengeTTL \in 0..ChallengeTTL
    OBVIOUS
  <2>3. stored' \in [Ticket -> 0..ChallengeTTL]
    BY <1>3, <2>2 DEF LoginStore, TypeOK
  <2> QED BY <1>3, <2>1, <2>3 DEF LoginStore, TypeOK
<1>4. ASSUME NEW r \in Request, NEW s \in SessionId,
             LoginCreate(r, s) \/ CompleteCreate(r, s) \/ RedeemCreate(r, s)
      PROVE  TypeOK'
  <2>1. req' \in [Request -> ReqType]
    BY <1>4, RequestMoves DEF LoginCreate, CompleteCreate, RedeemCreate
  <2>2. sess' \in [SessionId -> RowType]
    BY <1>4, <1>q, <1>s DEF LoginCreate, CompleteCreate, RedeemCreate
  <2> QED BY <1>4, <2>1, <2>2 DEF LoginCreate, CompleteCreate, RedeemCreate, TypeOK
<1>5. ASSUME NEW r \in Request, NEW t \in Ticket, CompleteConsume(r, t) PROVE TypeOK'
  <2>1. [pc |-> "verify", who |-> subject[t], tic |-> t] \in ReqType
    BY DEF TypeOK, ReqType
  <2>2. req' \in [Request -> ReqType]
    BY <1>5, <2>1, RequestMoves DEF CompleteConsume, Consume, TypeOK
  <2> QED BY <1>5, <2>2 DEF CompleteConsume, Consume, TypeOK
<1>6. ASSUME NEW r \in Request, CompleteVerify(r) \/ Abort(r) PROVE TypeOK'
  <2>1. req' \in [Request -> ReqType]
    BY <1>6, RequestMoves DEF CompleteVerify, Abort
  <2> QED BY <1>6, <2>1 DEF CompleteVerify, Abort, TypeOK
<1>7. ASSUME NEW i \in Identity, IdentityStep(i) PROVE TypeOK'
  <2>1. ASSUME NEW s \in SessionId, PasskeyLogin(i, s) PROVE TypeOK'
    <3>1. sess' \in [SessionId -> RowType]
      BY <2>1, <1>s DEF PasskeyLogin
    <3> QED BY <2>1, <3>1 DEF PasskeyLogin, TypeOK
  <2>2. ASSUME CodeRunsOut(i) PROVE TypeOK'
    <3>1. codes' \in [Identity -> 0..MaxCodes]
      BY <2>2 DEF CodeRunsOut, TypeOK
    <3> QED BY <2>2, <3>1 DEF CodeRunsOut, TypeOK
  <2> QED BY <1>7, <2>1, <2>2 DEF IdentityStep
<1>8. ASSUME NEW s \in SessionId, End(s) PROVE TypeOK'
  <2>1. sess' \in [SessionId -> RowType]
    BY <1>8 DEF End, TypeOK, RowType
  <2> QED BY <1>8, <2>1 DEF End, TypeOK
<1>9. ASSUME Tick PROVE TypeOK'
  <2>1. /\ stored' \in [Ticket -> 0..ChallengeTTL]
        /\ expiry' \in [Ticket -> 0..ChallengeTTL]
    BY <1>9, DecRange DEF Tick, TypeOK
  <2> QED BY <1>9, <2>1 DEF Tick, TypeOK
<1>10. ASSUME UNCHANGED vars PROVE TypeOK'
  BY <1>10 DEF vars, TypeOK
<1>11. ASSUME NEW r \in Request, SessionRoute(r) PROVE TypeOK'
  <2>0. req' \in [Request -> ReqType] /\ UNCHANGED <<sess, stored, subject, expiry>>
    BY <1>11, RouteMoves
  <2>1. ASSUME EnrollTOTP(r) PROVE TypeOK'
    BY <2>0, <2>1, <1>q DEF EnrollTOTP, Enroll, CreateFactor, TypeOK
  <2>2. ASSUME HandleVerifyEnrollment(r) PROVE TypeOK'
    BY <2>0, <2>2 DEF HandleVerifyEnrollment, VerifyEnrollment, MarkVerified, TypeOK
  <2>3. ASSUME NEW b \in BOOLEAN, PolicyPut(r, b) PROVE TypeOK'
    BY <2>0, <2>3 DEF PolicyPut, PolicyUpsert, TypeOK
  <2>4. ASSUME AddPasskey(r) PROVE TypeOK'
    <3>1. req[r].who \in Identity
      BY <1>c, <2>4 DEF AddPasskey
    <3> QED BY <2>0, <2>4, <3>1 DEF AddPasskey, TypeOK
  <2>5. ASSUME Authorize(r) PROVE TypeOK'
    <3>1. req[r].who \in Identity
      BY <1>c, <2>5 DEF Authorize
    <3>2. codes' \in [Identity -> 0..MaxCodes]
      BY <2>5, <3>1 DEF Authorize, TypeOK
    <3> QED BY <2>0, <2>5, <3>2 DEF Authorize, TypeOK
  <2>6. ASSUME NEW i \in Identity, Authenticate(r, i) PROVE TypeOK'
    BY <2>0, <2>6 DEF Authenticate, TypeOK
  <2> QED BY <1>11, <2>1, <2>2, <2>3, <2>4, <2>5, <2>6 DEF SessionRoute
<1>12. ASSUME NEW r \in Request, NEW i \in Identity, RedeemCode(r, i) PROVE TypeOK'
  <2>0. req' \in [Request -> ReqType] /\ UNCHANGED <<sess, stored, subject, expiry>>
    BY <1>12, RouteMoves
  <2>1. codes' \in [Identity -> 0..MaxCodes]
    BY <1>12 DEF RedeemCode, TypeOK
  <2> QED BY <1>12, <2>0, <2>1 DEF RedeemCode, TypeOK
<1> QED
  BY <1>1, <1>2, <1>3, <1>4, <1>5, <1>6, <1>7, <1>8, <1>9, <1>10, <1>11, <1>12
     DEF Next, RequestStep, Login, Complete, Exchange

\* A step that hands no challenge to a new request keeps the invariant.
LEMMA RightsKept ==
    ASSUME ChallengeInv, CarrierInv', UNCHANGED subject,
           \A s \in SessionId : sess'[s].tic = sess[s].tic \/ sess'[s].tic \notin Ticket,
           \A t \in Ticket : stored'[t] > 0 => stored[t] > 0,
           \A t \in Ticket : stored[t] = 0 => stored'[t] = 0,
           \A r \in Request, t \in Ticket : Carries(r, t)' => Carries(r, t)
    PROVE  ChallengeInv'
  BY DEF ChallengeInv, OnePlaceInv, SpentInv

\* Every step keeps the right to open a session in one place.
LEMMA ChallengeStep == TypeOK /\ ChallengeInv /\ [Next]_vars => ChallengeInv'
<1> SUFFICES ASSUME TypeOK, ChallengeInv, [Next]_vars PROVE ChallengeInv'
  OBVIOUS
<1> USE SignInAssumption DEF Idle
<1>n. \A s \in SessionId : \A i, how : CreateSession(s, i, how, None) =>
        \A x \in SessionId : sess'[x].tic = sess[x].tic \/ sess'[x].tic \notin Ticket
  BY DEF CreateSession, TypeOK, RowType
<1>1. ASSUME NEW r \in Request, NEW i \in Identity, LoginPolicy(r, i)
      PROVE  ChallengeInv'
  <2>1. \A pc \in {"factors", "factors_mfa"} : [pc |-> pc, who |-> i, tic |-> None] \in ReqType
    BY DEF ReqType
  <2>2. /\ req'[r].pc \in {"factors", "factors_mfa"} /\ req'[r].who = i
        /\ \A q \in Request \ {r} : req'[q] = req[q]
    <3>1. PICK pc \in {"factors", "factors_mfa"} :
            req' = [req EXCEPT ![r] = [pc |-> pc, who |-> i, tic |-> None]]
      <4>1. CASE requireMFA
        BY <1>1, <4>1 DEF LoginPolicy, PolicyGet
      <4>2. CASE ~requireMFA
        BY <1>1, <4>2 DEF LoginPolicy, PolicyGet
      <4> QED BY <4>1, <4>2
    <3> QED BY <2>1, <3>1, RequestMoves
  <2>3. CarrierInv'
    BY <1>1, <2>2 DEF LoginPolicy, PolicyGet, CarrierInv, ChallengeInv
  <2> QED BY <1>1, <2>2, <2>3, RightsKept DEF LoginPolicy, PolicyGet, Carries
<1>2. ASSUME NEW r \in Request, LoginFactors(r) PROVE ChallengeInv'
  <2>0. /\ req[r].pc \in {"factors", "factors_mfa"} /\ req[r].who \in Identity
        /\ UNCHANGED <<stored, sess>>
    BY <1>2 DEF LoginFactors, ChallengeInv, CarrierInv
  <2>1. CASE UNCHANGED <<subject, expiry>> /\ (Reply(r) \/ Goto(r, "create"))
    <3>1. /\ req'[r].pc \in {"idle", "create"}
          /\ req'[r].pc = "create" => req'[r].who = req[r].who
          /\ \A q \in Request \ {r} : req'[q] = req[q]
      <4>1. CASE Reply(r)
        <5>1. req'[r] = Idle /\ \A q \in Request \ {r} : req'[q] = req[q]
          BY <4>1, RequestMoves
        <5> QED BY <5>1
      <4>2. CASE Goto(r, "create")
        <5>1. /\ req'[r] = [pc |-> "create", who |-> req[r].who, tic |-> req[r].tic]
              /\ \A q \in Request \ {r} : req'[q] = req[q]
          BY <4>2, RequestMoves
        <5> QED BY <5>1
      <4> QED BY <2>1, <4>1, <4>2
    <3>2. CarrierInv'
      BY <2>0, <2>1, <3>1 DEF CarrierInv, ChallengeInv
    <3> QED BY <2>0, <2>1, <3>1, <3>2, RightsKept DEF Carries
  <2>2. ASSUME NEW t \in Ticket, subject[t] = None,
               subject' = [subject EXCEPT ![t] = req[r].who],
               req' = [req EXCEPT ![r] = [pc |-> "store", who |-> req[r].who, tic |-> t]]
        PROVE  ChallengeInv'
    <3>1. /\ req'[r] = [pc |-> "store", who |-> req[r].who, tic |-> t]
          /\ \A q \in Request \ {r} : req'[q] = req[q]
      BY <2>2 DEF TypeOK
    <3>2. /\ subject'[t] = req[r].who
          /\ \A u \in Ticket \ {t} : subject'[u] = subject[u]
      BY <2>2 DEF TypeOK
    <3>3. ~(stored[t] > 0) /\ \A q \in Request : ~Carries(q, t)
      BY <2>2 DEF ChallengeInv, CarrierInv, OnePlaceInv, Carries
    <3>4. stored[t] = 0
      BY <3>3 DEF TypeOK
    <3>5. \A s \in SessionId : sess[s].tic # t
      BY <2>2 DEF ChallengeInv, SpentInv
    <3>6. \A q \in Request, u \in Ticket :
            Carries(q, u)' => (Carries(q, u) /\ u # t) \/ (q = r /\ u = t)
      BY <2>0, <3>1, <3>3 DEF Carries
    <3>7. CarrierInv'
      BY <2>0, <3>1, <3>2, <3>3 DEF ChallengeInv, CarrierInv, Carries
    <3>8. OnePlaceInv'
      BY <2>0, <3>2, <3>4, <3>6 DEF ChallengeInv, OnePlaceInv
    <3>9. SpentInv'
      BY <2>0, <3>2, <3>5, <3>6 DEF ChallengeInv, SpentInv
    <3> QED BY <3>7, <3>8, <3>9 DEF ChallengeInv
  <2> QED BY <1>2, <2>1, <2>2, FactorsCases
<1>3. ASSUME NEW r \in Request, LoginStore(r) PROVE ChallengeInv'
  <2> DEFINE t == req[r].tic
  <2>0. t \in Ticket /\ subject[t] \in Identity /\ Carries(r, t)
    BY <1>3 DEF LoginStore, ChallengeInv, CarrierInv, Carries
  <2>1. req'[r] = Idle /\ \A q \in Request \ {r} : req'[q] = req[q]
    BY <1>3, RequestMoves DEF LoginStore
  <2>2. /\ UNCHANGED <<subject, sess>>
        /\ \A u \in Ticket \ {t} : stored'[u] = stored[u]
    BY <1>3 DEF LoginStore, TypeOK
  <2>3. \A q \in Request, u \in Ticket : Carries(q, u)' => Carries(q, u) /\ u # t
    BY <2>0, <2>1 DEF Carries, ChallengeInv, OnePlaceInv
  <2>4. \A s \in SessionId : sess[s].tic # t
    BY <2>0 DEF ChallengeInv, SpentInv
  <2>5. CarrierInv'
    BY <2>1, <2>2 DEF ChallengeInv, CarrierInv
  <2>6. OnePlaceInv'
    BY <2>0, <2>2, <2>3 DEF ChallengeInv, OnePlaceInv
  <2>7. SpentInv'
    BY <2>2, <2>3, <2>4 DEF ChallengeInv, SpentInv
  <2> QED BY <2>5, <2>6, <2>7 DEF ChallengeInv
<1>4. ASSUME NEW r \in Request, NEW s \in SessionId, LoginCreate(r, s) \/ RedeemCreate(r, s)
      PROVE  ChallengeInv'
  <2>1. req'[r] = Idle /\ \A q \in Request \ {r} : req'[q] = req[q]
    BY <1>4, RequestMoves DEF LoginCreate, RedeemCreate
  <2>2. CarrierInv'
    BY <1>4, <2>1 DEF LoginCreate, RedeemCreate, CarrierInv, ChallengeInv
  <2> QED BY <1>4, <1>n, <2>1, <2>2, RightsKept DEF LoginCreate, RedeemCreate, Carries
<1>5. ASSUME NEW r \in Request, NEW s \in SessionId, CompleteCreate(r, s)
      PROVE  ChallengeInv'
  <2> DEFINE t == req[r].tic
  <2>0. /\ t \in Ticket /\ subject[t] \in Identity /\ Carries(r, t)
        /\ stored[t] = 0
    BY <1>5 DEF CompleteCreate, ChallengeInv, CarrierInv, OnePlaceInv, Carries
  <2>1. req'[r] = Idle /\ \A q \in Request \ {r} : req'[q] = req[q]
    BY <1>5, RequestMoves DEF CompleteCreate
  <2>2. /\ UNCHANGED <<subject, stored>>
        /\ sess'[s].tic = t
        /\ \A x \in SessionId \ {s} : sess'[x] = sess[x]
    BY <1>5 DEF CompleteCreate, CreateSession, TypeOK
  <2>3. \A q \in Request, u \in Ticket : Carries(q, u)' => Carries(q, u) /\ u # t
    BY <2>0, <2>1 DEF Carries, ChallengeInv, OnePlaceInv
  <2>4. CarrierInv'
    BY <2>1, <2>2 DEF ChallengeInv, CarrierInv
  <2>5. OnePlaceInv'
    BY <2>2, <2>3 DEF ChallengeInv, OnePlaceInv
  <2>6. SpentInv'
    BY <2>0, <2>2, <2>3 DEF ChallengeInv, SpentInv
  <2> QED BY <2>4, <2>5, <2>6 DEF ChallengeInv
<1>6. ASSUME NEW r \in Request, NEW t \in Ticket, CompleteConsume(r, t)
      PROVE  ChallengeInv'
  <2>0. /\ req[r].pc = "idle" /\ stored[t] > 0 /\ subject[t] \in Identity
        /\ UNCHANGED <<subject, sess>>
    BY <1>6 DEF CompleteConsume, Consume, ChallengeInv, OnePlaceInv
  <2>1. stored'[t] = 0 /\ \A u \in Ticket \ {t} : stored'[u] = stored[u]
    BY <1>6 DEF CompleteConsume, Consume, TypeOK
  <2>2. \A q \in Request : ~Carries(q, t)
    BY <2>0 DEF ChallengeInv, OnePlaceInv
  <2>3. \/ UNCHANGED req
        \/ /\ req'[r] = [pc |-> "verify", who |-> subject[t], tic |-> t]
           /\ \A q \in Request \ {r} : req'[q] = req[q]
    BY <1>6 DEF CompleteConsume, Consume, TypeOK
  <2>4. \A q \in Request, u \in Ticket :
          Carries(q, u)' => (Carries(q, u) /\ u # t) \/ (q = r /\ u = t)
    BY <2>0, <2>2, <2>3 DEF Carries
  <2>5. \A s \in SessionId : sess[s].tic # t
    BY <2>0 DEF ChallengeInv, SpentInv
  <2>6. CarrierInv'
    BY <2>0, <2>3 DEF ChallengeInv, CarrierInv
  <2>7. OnePlaceInv'
    BY <2>0, <2>1, <2>4 DEF ChallengeInv, OnePlaceInv
  <2>8. SpentInv'
    BY <2>0, <2>1, <2>4, <2>5 DEF ChallengeInv, SpentInv
  <2> QED BY <2>6, <2>7, <2>8 DEF ChallengeInv
<1>7. ASSUME NEW r \in Request, CompleteVerify(r) \/ Abort(r) PROVE ChallengeInv'
  <2>1. /\ \/ req'[r] = Idle
           \/ /\ req[r].pc = "verify"
              /\ req'[r] = [pc |-> "opening", who |-> req[r].who, tic |-> req[r].tic]
        /\ \A q \in Request \ {r} : req'[q] = req[q]
        /\ UNCHANGED <<subject, stored, sess>>
    BY <1>7, RequestMoves DEF CompleteVerify, Abort
  <2>2. CarrierInv'
    BY <2>1 DEF CarrierInv, ChallengeInv
  <2> QED BY <2>1, <2>2, RightsKept DEF Carries
<1>8. ASSUME NEW i \in Identity, NEW s \in SessionId, PasskeyLogin(i, s)
      PROVE  ChallengeInv'
  BY <1>8, <1>n, RightsKept DEF PasskeyLogin, Carries, ChallengeInv, CarrierInv
<1>9. ASSUME NEW s \in SessionId, End(s) PROVE ChallengeInv'
  <2>1. \A x \in SessionId : sess'[x].tic = sess[x].tic
    BY <1>9 DEF End, TypeOK, RowType
  <2> QED BY <1>9, <2>1, RightsKept DEF End, Carries, ChallengeInv, CarrierInv
<1>10. ASSUME UNCHANGED <<sess, stored, subject, req>> PROVE ChallengeInv'
  BY <1>10 DEF ChallengeInv, CarrierInv, OnePlaceInv, SpentInv, Carries
<1>11. ASSUME Tick PROVE ChallengeInv'
  <2>1. \A t \in Ticket : stored[t] = 0 => stored'[t] = 0
    BY <1>11 DEF Tick, Dec
  <2>2. \A t \in Ticket : stored'[t] > 0 => stored[t] > 0
    BY <1>11, DecRange DEF Tick, TypeOK
  <2> QED BY <1>11, <2>1, <2>2, RightsKept DEF Tick, Carries, ChallengeInv, CarrierInv
<1>12. ASSUME NEW r \in Request, SessionRoute(r) \/ \E i \in Identity : RedeemCode(r, i)
       PROVE  ChallengeInv'
  <2>1. /\ UNCHANGED <<sess, stored, subject>>
        /\ \A q \in Request \ {r} : req'[q] = req[q]
        /\ \/ req'[r] = req[r]
           \/ req'[r].pc = "idle"
           \/ req'[r].pc \in {"authed", "exchange"} /\ req'[r].who \in Identity
    BY <1>12, RouteMoves
  <2>2. CarrierInv'
    BY <2>1 DEF CarrierInv, ChallengeInv
  <2>3. \A q \in Request, t \in Ticket : Carries(q, t)' => Carries(q, t)
    BY <2>1 DEF Carries
  <2> QED BY <2>1, <2>2, <2>3, RightsKept
<1> QED
  BY <1>1, <1>2, <1>3, <1>4, <1>5, <1>6, <1>7, <1>8, <1>9, <1>10, <1>11, <1>12
     DEF Next, RequestStep, Login, Complete, Exchange, IdentityStep, CodeRunsOut, vars

\* Types and the inductive invariant hold in every reachable state.
THEOREM Invariance == Spec => [](TypeOK /\ ChallengeInv)
<1>1. TypeOK /\ ChallengeInv /\ [Next]_vars => (TypeOK /\ ChallengeInv)'
  BY TypeStep, ChallengeStep DEF ChallengeInv
<1> QED
  BY InitInv, <1>1, PTL DEF Spec

-----------------------------------------------------------------------------
(* Password-only sessions *)

\* A session opened by another way than the password, or for another identity,
\* leaves the password-only sessions of i alone.
LEMMA OtherSessions ==
    ASSUME TypeOK, NEW s \in SessionId, NEW j, NEW how, NEW t, CreateSession(s, j, how, t),
           NEW i \in Identity, j # i \/ how # "password"
    PROVE  PasswordOnly(i)' = PasswordOnly(i)
<1>1. /\ sess[s] = NoRow
      /\ sess'[s] = [st |-> "live", who |-> j, how |-> how, tic |-> t]
      /\ \A x \in SessionId \ {s} : sess'[x] = sess[x]
  BY DEF CreateSession, TypeOK
<1>2. sess[s].how = "none"
  BY <1>1 DEF NoRow
<1>3. sess'[s].who = j /\ sess'[s].how = how
  BY <1>1
<1>4. s \notin PasswordOnly(i) /\ s \notin PasswordOnly(i)'
  BY <1>2, <1>3 DEF PasswordOnly
<1> QED BY <1>1, <1>4 DEF PasswordOnly

\* Only LoginCreate makes a password-only session, and only for its identity.
LEMMA PasswordOnlyStep ==
    ASSUME TypeOK, NEW i \in Identity, [Next]_vars,
           \A r \in Request : ~(req[r].pc = "create" /\ req[r].who = i)
    PROVE  PasswordOnly(i)' = PasswordOnly(i)
<1>1. ASSUME UNCHANGED sess PROVE PasswordOnly(i)' = PasswordOnly(i)
  BY <1>1 DEF PasswordOnly
<1>2. ASSUME NEW r \in Request, NEW s \in SessionId, LoginCreate(r, s)
      PROVE  PasswordOnly(i)' = PasswordOnly(i)
  BY <1>2, OtherSessions DEF LoginCreate
<1>3. ASSUME NEW r \in Request, NEW s \in SessionId, CompleteCreate(r, s)
      PROVE  PasswordOnly(i)' = PasswordOnly(i)
  BY <1>3, OtherSessions DEF CompleteCreate
<1>4. ASSUME NEW j \in Identity, NEW s \in SessionId, PasskeyLogin(j, s)
      PROVE  PasswordOnly(i)' = PasswordOnly(i)
  BY <1>4, OtherSessions DEF PasskeyLogin
<1>5. ASSUME NEW s \in SessionId, End(s) PROVE PasswordOnly(i)' = PasswordOnly(i)
  <2>1. \A x \in SessionId : sess'[x].who = sess[x].who /\ sess'[x].how = sess[x].how
    BY <1>5 DEF End, TypeOK, RowType
  <2> QED BY <2>1 DEF PasswordOnly
<1>6. ASSUME NEW r \in Request, NEW s \in SessionId, RedeemCreate(r, s)
      PROVE  PasswordOnly(i)' = PasswordOnly(i)
  BY <1>6, OtherSessions DEF RedeemCreate
<1>7. ASSUME NEW r \in Request, SessionRoute(r) \/ \E j \in Identity : RedeemCode(r, j)
      PROVE  UNCHANGED sess
  BY <1>7, RouteMoves
<1> QED
  BY <1>1, <1>2, <1>3, <1>4, <1>5, <1>6, <1>7
     DEF Next, RequestStep, Login, Complete, Exchange, IdentityStep,
         LoginPolicy, PolicyGet, LoginFactors, LoginStore,
         CompleteConsume, Consume, CompleteVerify, Abort, CodeRunsOut, Tick, vars

\* A verified factor is never taken away.
LEMMA EnrolledStays ==
    ASSUME TypeOK, NEW i \in Identity, [Next]_vars, Enrolled(i)
    PROVE  Enrolled(i)'
<1>1. PICK f \in Factor : owner[f] = i /\ factor[f] = "verified"
  BY DEF Enrolled
<1>2. SUFFICES owner'[f] = i /\ factor'[f] = "verified"
  BY DEF Enrolled
<1>3. ASSUME NEW r \in Request, EnrollTOTP(r) \/ HandleVerifyEnrollment(r)
      PROVE  owner'[f] = i /\ factor'[f] = "verified"
  BY <1>1, <1>3 DEF EnrollTOTP, Enroll, CreateFactor, HandleVerifyEnrollment,
     VerifyEnrollment, MarkVerified, TypeOK
<1>4. ASSUME UNCHANGED <<factor, owner>> PROVE owner'[f] = i /\ factor'[f] = "verified"
  BY <1>1, <1>4
<1> QED
  BY <1>3, <1>4
     DEF Next, RequestStep, Login, Complete, SessionRoute, Exchange, IdentityStep,
         LoginPolicy, PolicyGet, LoginFactors, LoginStore, LoginCreate,
         CompleteConsume, Consume, CompleteVerify, CompleteCreate, Abort, Authenticate,
         PolicyPut, AddPasskey, Authorize, RedeemCode, RedeemCreate, CodeRunsOut,
         PasskeyLogin, End, Tick, vars

\* A request enters "create" only in LoginFactors, from "factors", with an
\* identity that has no verified factor.
LEMMA EntersCreate ==
    ASSUME TypeOK, [Next]_vars, NEW q \in Request, req'[q].pc = "create"
    PROVE  \/ req'[q] = req[q]
           \/ req[q].pc = "factors" /\ req'[q].who = req[q].who /\ ~Enrolled(req[q].who)
<1> DEFINE Goal == \/ req'[q] = req[q]
                   \/ req[q].pc = "factors" /\ req'[q].who = req[q].who /\ ~Enrolled(req[q].who)
<1>1. ASSUME UNCHANGED req PROVE Goal
  BY <1>1
<1>2. ASSUME NEW r \in Request, Reply(r) PROVE Goal
  <2>1. req'[r] = Idle /\ \A x \in Request \ {r} : req'[x] = req[x]
    BY <1>2, RequestMoves
  <2> QED BY <2>1 DEF Idle
<1>3. ASSUME NEW r \in Request, NEW pc, pc # "create", NEW i, NEW t,
             req' = [req EXCEPT ![r] = [pc |-> pc, who |-> i, tic |-> t]]
      PROVE  Goal
  <2>1. req'[r].pc = pc /\ \A x \in Request \ {r} : req'[x] = req[x]
    BY <1>3 DEF TypeOK
  <2> QED BY <1>3, <2>1
<1>4. ASSUME NEW r \in Request, NEW i \in Identity, LoginPolicy(r, i) PROVE Goal
  <2>1. CASE requireMFA
    BY <1>4, <2>1, <1>3 DEF LoginPolicy, PolicyGet
  <2>2. CASE ~requireMFA
    BY <1>4, <2>2, <1>3 DEF LoginPolicy, PolicyGet
  <2> QED BY <2>1, <2>2
<1>5. ASSUME NEW r \in Request, LoginFactors(r) PROVE Goal
  <2>1. ASSUME NEW t \in Ticket,
               req' = [req EXCEPT ![r] = [pc |-> "store", who |-> req[r].who, tic |-> t]]
        PROVE  Goal
    BY <2>1, <1>3
  <2>2. CASE req[r].pc = "factors" /\ ~Enrolled(req[r].who) /\ Goto(r, "create")
    <3>1. /\ req'[r] = [pc |-> "create", who |-> req[r].who, tic |-> req[r].tic]
          /\ \A x \in Request \ {r} : req'[x] = req[x]
      BY <2>2, RequestMoves
    <3>2. req'[r].who = req[r].who
      BY <3>1
    <3> QED BY <2>2, <3>1, <3>2
  <2> QED BY <1>5, <1>2, <2>1, <2>2 DEF LoginFactors
<1>6. ASSUME NEW r \in Request, NEW t \in Ticket, CompleteConsume(r, t) PROVE Goal
  BY <1>6, <1>1, <1>3 DEF CompleteConsume, Consume
<1>7. ASSUME NEW r \in Request, Goto(r, "opening") PROVE Goal
  <2>1. /\ req'[r] = [pc |-> "opening", who |-> req[r].who, tic |-> req[r].tic]
        /\ \A x \in Request \ {r} : req'[x] = req[x]
    BY <1>7, RequestMoves
  <2>2. req'[r].pc = "opening"
    BY <2>1
  <2> QED BY <2>1, <2>2
<1>8. ASSUME NEW r \in Request, SessionRoute(r) \/ \E i \in Identity : RedeemCode(r, i)
      PROVE  Goal
  <2>1. /\ \A x \in Request \ {r} : req'[x] = req[x]
        /\ req'[r] = req[r] \/ req'[r].pc \in {"idle", "authed", "exchange"}
    BY <1>8, RouteMoves
  <2> QED BY <2>1
<1> QED
  BY <1>1, <1>2, <1>4, <1>5, <1>6, <1>7, <1>8
     DEF Next, RequestStep, Login, Complete, Exchange, IdentityStep,
         LoginStore, LoginCreate, CompleteVerify, CompleteCreate, RedeemCreate, Abort,
         CodeRunsOut, PasskeyLogin, End, Tick, vars

\* A verified factor ends password-only sign-in of its identity, for any number
\* of identities, factors, requests and sessions (login.go:114-140).
THEOREM FactorEnds == Spec => FactorEndsPasswordOnly
<1>1. TypeOK /\ [Next]_vars =>
        \A i \in Identity :
          Guarded(i) => Guarded(i)' /\ PasswordOnly(i)' = PasswordOnly(i)
  <2> SUFFICES ASSUME TypeOK, [Next]_vars, NEW i \in Identity, Guarded(i)
               PROVE  Guarded(i)' /\ PasswordOnly(i)' = PasswordOnly(i)
    OBVIOUS
  <2>1. Enrolled(i)'
    BY EnrolledStays DEF Guarded
  <2>2. \A q \in Request : ~(req'[q].pc = "create" /\ req'[q].who = i)
    BY EntersCreate DEF Guarded
  <2>3. PasswordOnly(i)' = PasswordOnly(i)
    BY PasswordOnlyStep DEF Guarded
  <2> QED BY <2>1, <2>2, <2>3 DEF Guarded
<1> QED
  BY Invariance, <1>1, PTL DEF Spec, FactorEndsPasswordOnly

\* While MFA is required no login finds the policy lax.
LEMMA EntersFactors ==
    ASSUME TypeOK, [Next]_vars, NEW q \in Request, req'[q].pc = "factors"
    PROVE  req'[q] = req[q] \/ ~requireMFA
<1> DEFINE Goal == req'[q] = req[q] \/ ~requireMFA
<1>1. ASSUME UNCHANGED req PROVE Goal
  BY <1>1
<1>2. ASSUME NEW r \in Request, Reply(r) PROVE Goal
  <2>1. req'[r] = Idle /\ \A x \in Request \ {r} : req'[x] = req[x]
    BY <1>2, RequestMoves
  <2> QED BY <2>1 DEF Idle
<1>3. ASSUME NEW r \in Request, NEW pc, pc # "factors", NEW i, NEW t,
             req' = [req EXCEPT ![r] = [pc |-> pc, who |-> i, tic |-> t]]
      PROVE  Goal
  <2>1. req'[r].pc = pc /\ \A x \in Request \ {r} : req'[x] = req[x]
    BY <1>3 DEF TypeOK
  <2> QED BY <1>3, <2>1
<1>4. ASSUME NEW r \in Request, NEW i \in Identity, LoginPolicy(r, i) PROVE Goal
  <2>1. CASE requireMFA
    BY <1>4, <2>1, <1>3 DEF LoginPolicy, PolicyGet
  <2>2. CASE ~requireMFA
    BY <2>2
  <2> QED BY <2>1, <2>2
<1>5. ASSUME NEW r \in Request, NEW pc \in {"create", "opening"}, Goto(r, pc) PROVE Goal
  <2>1. /\ req'[r] = [pc |-> pc, who |-> req[r].who, tic |-> req[r].tic]
        /\ \A x \in Request \ {r} : req'[x] = req[x]
    BY <1>5, RequestMoves
  <2>2. req'[r].pc = pc
    BY <2>1
  <2> QED BY <2>1, <2>2
<1>6. ASSUME NEW r \in Request, LoginFactors(r) PROVE Goal
  <2>1. ASSUME NEW t \in Ticket,
               req' = [req EXCEPT ![r] = [pc |-> "store", who |-> req[r].who, tic |-> t]]
        PROVE  Goal
    BY <2>1, <1>3
  <2> QED BY <1>6, <1>2, <1>5, <2>1, FactorsCases
<1>7. ASSUME NEW r \in Request, NEW t \in Ticket, CompleteConsume(r, t) PROVE Goal
  BY <1>7, <1>1, <1>3 DEF CompleteConsume, Consume
<1>8. ASSUME NEW r \in Request, SessionRoute(r) \/ \E i \in Identity : RedeemCode(r, i)
      PROVE  Goal
  <2>1. /\ \A x \in Request \ {r} : req'[x] = req[x]
        /\ req'[r] = req[r] \/ req'[r].pc \in {"idle", "authed", "exchange"}
    BY <1>8, RouteMoves
  <2> QED BY <2>1
<1> QED
  BY <1>1, <1>2, <1>4, <1>5, <1>6, <1>7, <1>8
     DEF Next, RequestStep, Login, Complete, Exchange, IdentityStep,
         LoginStore, LoginCreate, CompleteVerify, CompleteCreate, RedeemCreate, Abort,
         CodeRunsOut, PasskeyLogin, End, Tick, vars

\* Enforcement lasts until the policy is taken back.
LEMMA EnforcedStep ==
    ASSUME TypeOK, [Next]_vars, Enforced, requireMFA'
    PROVE  Enforced'
<1>1. ASSUME NEW q \in Request PROVE req'[q].pc \notin {"factors", "create"}
  <2>1. requireMFA /\ req[q].pc \notin {"factors", "create"}
    BY DEF Enforced
  <2>2. req'[q].pc # "factors"
    BY <2>1, EntersFactors
  <2>3. req'[q].pc # "create"
    BY <2>1, EntersCreate
  <2> QED BY <2>2, <2>3
<1> QED BY <1>1 DEF Enforced

\* A policy that requires MFA ends password-only sign-in of the whole tenant
\* until it is taken back (login.go:109-120).
THEOREM PolicyEnds == Spec => PolicyEndsPasswordOnly
<1>1. TypeOK /\ [Next]_vars =>
        (Enforced => /\ Enforced' \/ ~requireMFA'
                     /\ \A i \in Identity : PasswordOnly(i)' = PasswordOnly(i))
  <2> SUFFICES ASSUME TypeOK, [Next]_vars, Enforced
               PROVE  /\ Enforced' \/ ~requireMFA'
                      /\ \A i \in Identity : PasswordOnly(i)' = PasswordOnly(i)
    OBVIOUS
  <2>1. Enforced' \/ ~requireMFA'
    BY EnforcedStep
  <2>2. \A i \in Identity : PasswordOnly(i)' = PasswordOnly(i)
    BY PasswordOnlyStep DEF Enforced
  <2> QED BY <2>1, <2>2
<1> QED
  BY Invariance, <1>1, PTL DEF Spec, PolicyEndsPasswordOnly

-----------------------------------------------------------------------------
(* Lockout *)

\* A session created for somebody else does not sign i in.
LEMMA OthersSignIn ==
    ASSUME TypeOK, NEW s \in SessionId, NEW j, NEW how, NEW t, CreateSession(s, j, how, t),
           NEW i \in Identity, j # i, ~SignedIn(i)
    PROVE  ~SignedIn(i)'
<1>1. /\ sess'[s] = [st |-> "live", who |-> j, how |-> how, tic |-> t]
      /\ \A x \in SessionId \ {s} : sess'[x] = sess[x]
  BY DEF CreateSession, TypeOK
<1>2. sess'[s].who = j
  BY <1>1
<1> QED BY <1>1, <1>2 DEF SignedIn

\* Nothing a locked out identity can do signs it in, gives it a factor, a
\* challenge, a passkey or a code, or lets it past the middleware.
LEMMA LockedOutStep ==
    ASSUME TypeOK, ChallengeInv, [Next]_vars, NEW i \in Identity, LockedOut(i), requireMFA'
    PROVE  LockedOut(i)'
<1>0. /\ i \notin passkey /\ ~SignedIn(i) /\ ~Enrolled(i)
      /\ \A f \in Factor : owner[f] # i
      /\ \A t \in Ticket : subject[t] # i
      /\ \A r \in Request : req[r].pc # "create"
      /\ codes[i] = 0
      /\ \A r \in Request : req[r].pc \in {"authed", "exchange"} => req[r].who # i
  BY DEF LockedOut, Enforced, Enrolled
<1>1. Enforced'
  BY EnforcedStep DEF LockedOut
<1>2. i \notin passkey'
  BY <1>0 DEF Next, RequestStep, Login, Complete, SessionRoute, Exchange, IdentityStep,
              LoginPolicy, LoginFactors, LoginStore,
              LoginCreate, CompleteConsume, CompleteVerify, CompleteCreate, Abort,
              Authenticate, EnrollTOTP, Enroll, HandleVerifyEnrollment, VerifyEnrollment,
              PolicyPut, AddPasskey, Authorize, RedeemCode, RedeemCreate, CodeRunsOut,
              PasskeyLogin, End, Tick, vars
<1>3. ~SignedIn(i)'
  <2>1. ASSUME UNCHANGED sess PROVE ~SignedIn(i)'
    BY <1>0, <2>1 DEF SignedIn
  <2>2. ASSUME NEW r \in Request, NEW s \in SessionId, CompleteCreate(r, s)
        PROVE  ~SignedIn(i)'
    <3>1. req[r].who # i
      BY <1>0, <2>2 DEF CompleteCreate, ChallengeInv, CarrierInv
    <3> QED BY <1>0, <2>2, <3>1, OthersSignIn DEF CompleteCreate
  <2>3. ASSUME NEW j \in Identity, NEW s \in SessionId, PasskeyLogin(j, s)
        PROVE  ~SignedIn(i)'
    BY <1>0, <2>3, OthersSignIn DEF PasskeyLogin
  <2>4. ASSUME NEW s \in SessionId, End(s) PROVE ~SignedIn(i)'
    <3>1. \A x \in SessionId : sess'[x].st = "live" => sess'[x] = sess[x]
      BY <2>4 DEF End, TypeOK, RowType
    <3> QED BY <1>0, <3>1 DEF SignedIn
  <2>5. ASSUME NEW r \in Request, NEW s \in SessionId, LoginCreate(r, s) PROVE FALSE
    BY <1>0, <2>5 DEF LoginCreate
  <2>6. ASSUME NEW r \in Request, NEW s \in SessionId, RedeemCreate(r, s)
        PROVE  ~SignedIn(i)'
    BY <1>0, <2>6, OthersSignIn DEF RedeemCreate
  <2>7. ASSUME NEW r \in Request, SessionRoute(r) \/ \E j \in Identity : RedeemCode(r, j)
        PROVE  UNCHANGED sess
    BY <2>7, RouteMoves
  <2> QED
    BY <2>1, <2>2, <2>3, <2>4, <2>5, <2>6, <2>7
       DEF Next, RequestStep, Login, Complete, Exchange, IdentityStep,
           LoginPolicy, LoginFactors, LoginStore,
           CompleteConsume, CompleteVerify, Abort, CodeRunsOut, Tick, vars
<1>4. \A f \in Factor : owner'[f] # i
  <2>1. ASSUME UNCHANGED owner PROVE \A f \in Factor : owner'[f] # i
    BY <1>0, <2>1
  <2>2. ASSUME NEW r \in Request, EnrollTOTP(r)
        PROVE  \A f \in Factor : owner'[f] # i
    BY <1>0, <2>2 DEF EnrollTOTP, Enroll, CreateFactor, TypeOK
  <2> QED
    BY <2>1, <2>2
       DEF Next, RequestStep, Login, Complete, SessionRoute, Exchange, IdentityStep,
           LoginPolicy, LoginFactors, LoginStore,
           LoginCreate, CompleteConsume, CompleteVerify, CompleteCreate, Abort,
           Authenticate, HandleVerifyEnrollment, VerifyEnrollment, PolicyPut, AddPasskey,
           Authorize, RedeemCode, RedeemCreate, CodeRunsOut, PasskeyLogin, End, Tick, vars
<1>5. \A t \in Ticket : subject'[t] # i
  <2>1. ASSUME UNCHANGED subject PROVE \A t \in Ticket : subject'[t] # i
    BY <1>0, <2>1
  <2>2. ASSUME NEW r \in Request, LoginFactors(r) PROVE \A t \in Ticket : subject'[t] # i
    <3>1. CASE Enrolled(req[r].who)
      <4>1. req[r].who # i
        BY <1>0, <3>1
      <4>2. PICK t \in Ticket : subject' = [subject EXCEPT ![t] = req[r].who]
        BY <2>2, <3>1 DEF LoginFactors
      <4> QED BY <1>0, <4>1, <4>2 DEF TypeOK
    <3>2. CASE ~Enrolled(req[r].who)
      BY <2>1, <2>2, <3>2 DEF LoginFactors
    <3> QED BY <3>1, <3>2
  <2>3. ASSUME NEW r \in Request, SessionRoute(r) \/ \E j \in Identity : RedeemCode(r, j)
        PROVE  UNCHANGED subject
    BY <2>3, RouteMoves
  <2> QED
    BY <2>1, <2>2, <2>3
       DEF Next, RequestStep, Login, Complete, Exchange, IdentityStep,
           LoginPolicy, LoginStore, LoginCreate, CompleteConsume, CompleteVerify,
           CompleteCreate, Abort, RedeemCreate, CodeRunsOut, PasskeyLogin, End, Tick, vars
<1>6. codes'[i] = 0
  <2>1. ASSUME UNCHANGED codes PROVE codes'[i] = 0
    BY <1>0, <2>1
  <2>2. ASSUME NEW r \in Request, Authorize(r) PROVE codes'[i] = 0
    BY <1>0, <2>2 DEF Authorize, TypeOK
  <2>3. ASSUME NEW r \in Request, NEW j \in Identity, RedeemCode(r, j) PROVE codes'[i] = 0
    BY <1>0, <2>3 DEF RedeemCode, TypeOK
  <2>4. ASSUME NEW j \in Identity, CodeRunsOut(j) PROVE codes'[i] = 0
    BY <1>0, <2>4 DEF CodeRunsOut, TypeOK
  <2> QED
    BY <2>1, <2>2, <2>3, <2>4
       DEF Next, RequestStep, Login, Complete, SessionRoute, Exchange, IdentityStep,
           LoginPolicy, LoginFactors, LoginStore,
           LoginCreate, CompleteConsume, CompleteVerify, CompleteCreate, Abort,
           Authenticate, EnrollTOTP, Enroll, HandleVerifyEnrollment, VerifyEnrollment,
           PolicyPut, AddPasskey, RedeemCreate, PasskeyLogin, End, Tick, vars
<1>7. ASSUME NEW q \in Request, req'[q].pc \in {"authed", "exchange"}, req'[q].who = i
      PROVE  FALSE
  <2>1. ASSUME req'[q] = req[q] PROVE FALSE
    BY <1>0, <1>7, <2>1
  <2>2. ASSUME NEW r \in Request, Reply(r) PROVE FALSE
    <3>1. req'[r].pc = "idle" /\ \A x \in Request \ {r} : req'[x] = req[x]
      BY <2>2, ReplyMoves
    <3> QED BY <1>7, <2>1, <3>1
  <2>3. ASSUME NEW r \in Request, NEW pc, pc \notin {"authed", "exchange"}, NEW j, NEW t,
               req' = [req EXCEPT ![r] = [pc |-> pc, who |-> j, tic |-> t]]
        PROVE  FALSE
    <3>1. req'[r].pc = pc /\ \A x \in Request \ {r} : req'[x] = req[x]
      BY <2>3 DEF TypeOK
    <3> QED BY <1>7, <2>1, <2>3, <3>1
  <2>4. ASSUME NEW r \in Request, NEW pc \in {"create", "opening"}, Goto(r, pc) PROVE FALSE
    <3>1. /\ req'[r] = [pc |-> pc, who |-> req[r].who, tic |-> req[r].tic]
          /\ \A x \in Request \ {r} : req'[x] = req[x]
      BY <2>4, RequestMoves
    <3> QED BY <1>7, <2>1, <3>1
  <2>5. ASSUME NEW r \in Request, NEW pc \in {"authed", "exchange"}, NEW j \in Identity, j # i,
               req' = [req EXCEPT ![r] = [pc |-> pc, who |-> j, tic |-> None]]
        PROVE  FALSE
    <3>1. req'[r].who = j /\ \A x \in Request \ {r} : req'[x] = req[x]
      BY <2>5 DEF TypeOK
    <3> QED BY <1>7, <2>1, <2>5, <3>1
  <2>6. ASSUME NEW r \in Request, NEW j \in Identity, Authenticate(r, j) PROVE FALSE
    BY <1>0, <2>5, <2>6 DEF Authenticate
  <2>7. ASSUME NEW r \in Request, NEW j \in Identity, RedeemCode(r, j) PROVE FALSE
    <3>1. j # i
      BY <1>0, <2>7 DEF RedeemCode
    <3> QED BY <2>1, <2>5, <2>7, <3>1 DEF RedeemCode
  <2>8. ASSUME NEW r \in Request, NEW j \in Identity, LoginPolicy(r, j) PROVE FALSE
    <3>1. CASE requireMFA
      BY <2>3, <2>8, <3>1 DEF LoginPolicy, PolicyGet
    <3>2. CASE ~requireMFA
      BY <2>3, <2>8, <3>2 DEF LoginPolicy, PolicyGet
    <3> QED BY <3>1, <3>2
  <2>9. ASSUME NEW r \in Request, LoginFactors(r) PROVE FALSE
    <3>1. ASSUME NEW t \in Ticket,
                 req' = [req EXCEPT ![r] = [pc |-> "store", who |-> req[r].who, tic |-> t]]
          PROVE  FALSE
      BY <2>3, <3>1
    <3> QED BY <2>2, <2>4, <2>9, <3>1, FactorsCases
  <2>10. ASSUME NEW r \in Request, NEW t \in Ticket, CompleteConsume(r, t) PROVE FALSE
    BY <2>1, <2>3, <2>10 DEF CompleteConsume
  <2>11. ASSUME UNCHANGED req PROVE FALSE
    BY <2>1, <2>11
  <2> QED
    BY <2>2, <2>4, <2>6, <2>7, <2>8, <2>9, <2>10, <2>11
       DEF Next, RequestStep, Login, Complete, SessionRoute, Exchange, IdentityStep,
           LoginStore, LoginCreate, CompleteVerify, CompleteCreate, Abort,
           EnrollTOTP, HandleVerifyEnrollment, PolicyPut, AddPasskey, Authorize,
           RedeemCreate, CodeRunsOut, PasskeyLogin, End, Tick, vars
<1> QED BY <1>1, <1>2, <1>3, <1>4, <1>5, <1>6, <1>7 DEF LockedOut

\* A locked out identity stays so until the policy is changed by a request that
\* has passed the middleware as an administrator, whatever sessions have ended
\* meanwhile and however many requests, challenges, factors and authorization
\* codes there are (login.go:118, the routes of mfa, webauthn and oauth).
THEOREM Lockout == Spec => LockoutNeedsAdmin
<1>1. TypeOK /\ ChallengeInv /\ [Next]_vars =>
        \A i \in Identity :
          LockedOut(i) =>
            \/ LockedOut(i)'
            \/ /\ ~requireMFA'
               /\ \E r \in Request : req[r].pc = "authed" /\ req[r].who \in Admin
  <2> SUFFICES ASSUME TypeOK, ChallengeInv, [Next]_vars, NEW i \in Identity, LockedOut(i)
               PROVE  \/ LockedOut(i)'
                      \/ /\ ~requireMFA'
                         /\ \E r \in Request : req[r].pc = "authed" /\ req[r].who \in Admin
    OBVIOUS
  <2>1. CASE requireMFA'
    BY <2>1, LockedOutStep
  <2>2. CASE ~requireMFA'
    <3>1. requireMFA
      BY DEF LockedOut, Enforced
    <3>2. \E r \in Request, b \in BOOLEAN : PolicyPut(r, b)
      BY <2>2, <3>1
         DEF Next, RequestStep, Login, Complete, SessionRoute, Exchange, IdentityStep,
             LoginPolicy, LoginFactors, LoginStore,
             LoginCreate, CompleteConsume, CompleteVerify, CompleteCreate, Abort,
             Authenticate, EnrollTOTP, Enroll, HandleVerifyEnrollment, VerifyEnrollment,
             AddPasskey, Authorize, RedeemCode, RedeemCreate, CodeRunsOut,
             PasskeyLogin, End, Tick, vars
    <3> QED BY <2>2, <3>2 DEF PolicyPut
  <2> QED BY <2>1, <2>2
<1> QED
  BY Invariance, <1>1, PTL DEF Spec, LockoutNeedsAdmin

-----------------------------------------------------------------------------
(* Refinement *)

\* The refinement mapping of Once.
Usable == {t \in Ticket : stored[t] > 0 \/ \E r \in Request : Carries(r, t)}
Opened == {[sid |-> s, ticket |-> sess[s].tic, who |-> sess[s].who] :
             s \in {x \in SessionId : sess[x].tic # None}}

\* A step that neither issues nor redeems a challenge at most voids some.
LEMMA VoidStep ==
    ASSUME UNCHANGED subject, Opened' = Opened,
           \A t \in Ticket : stored'[t] > 0 => t \in Usable,
           \A r \in Request, t \in Ticket : Carries(r, t)' => t \in Usable
    PROVE  [Once!Next]_(Once!vars)
<1>1. Usable' \subseteq Usable
  BY DEF Usable
<1>2. PICK T \in SUBSET Ticket : T = Usable \ Usable'
  BY DEF Usable
<1>3. Usable' = Usable \ T
  BY <1>1, <1>2
<1>4. Once!Void(T)
  BY <1>3 DEF Once!Void, Usable, Opened
<1> QED BY <1>4 DEF Once!Next

\* Rows that keep their identity and challenge leave Opened alone, and so does
\* a new row without a challenge.
LEMMA OpenedKept ==
    ASSUME \A s \in SessionId :
             \/ sess'[s].tic = sess[s].tic /\ sess'[s].who = sess[s].who
             \/ sess'[s].tic = None /\ sess[s].tic = None
    PROVE  Opened' = Opened
<1>1. {x \in SessionId : sess[x].tic # None}' = {x \in SessionId : sess[x].tic # None}
  OBVIOUS
<1>2. \A s \in {x \in SessionId : sess[x].tic # None} :
        sess'[s].tic = sess[s].tic /\ sess'[s].who = sess[s].who
  OBVIOUS
<1> QED BY <1>1, <1>2 DEF Opened

\* Every step of SignIn is a step of OneShot or leaves it unchanged.
LEMMA RefinementStep ==
    TypeOK /\ ChallengeInv /\ [Next]_vars => [Once!Next]_(Once!vars)
<1> SUFFICES ASSUME TypeOK, ChallengeInv, [Next]_vars PROVE [Once!Next]_(Once!vars)
  OBVIOUS
<1> DEFINE Goal == [Once!Next]_(Once!vars)
<1> USE SignInAssumption
<1>s. ASSUME UNCHANGED sess PROVE Opened' = Opened
  BY <1>s DEF Opened
<1>n. ASSUME NEW s \in SessionId, NEW i, NEW how, CreateSession(s, i, how, None)
      PROVE  Opened' = Opened
  <2>1. /\ sess[s] = NoRow
        /\ sess'[s] = [st |-> "live", who |-> i, how |-> how, tic |-> None]
        /\ \A x \in SessionId \ {s} : sess'[x] = sess[x]
    BY <1>n DEF CreateSession, TypeOK
  <2>2. sess[s].tic = None /\ sess'[s].tic = None
    BY <2>1 DEF NoRow
  <2> QED BY <2>1, <2>2, OpenedKept
<1>r. ASSUME UNCHANGED <<subject, stored>>, Opened' = Opened,
             NEW r \in Request, req'[r].pc \notin {"store", "verify", "opening"},
             \A q \in Request \ {r} : req'[q] = req[q]
      PROVE  Goal
  <2>1. \A q \in Request, t \in Ticket : Carries(q, t)' => Carries(q, t)
    BY <1>r DEF Carries
  <2> QED BY <1>r, <2>1, VoidStep DEF Usable
<1>1. ASSUME NEW r \in Request, NEW i \in Identity, LoginPolicy(r, i) PROVE Goal
  <2>1. /\ req'[r].pc \in {"factors", "factors_mfa"}
        /\ \A q \in Request \ {r} : req'[q] = req[q]
    <3>1. CASE requireMFA
      BY <1>1, <3>1 DEF LoginPolicy, PolicyGet, TypeOK
    <3>2. CASE ~requireMFA
      BY <1>1, <3>2 DEF LoginPolicy, PolicyGet, TypeOK
    <3> QED BY <3>1, <3>2
  <2> QED BY <1>1, <1>s, <1>r, <2>1 DEF LoginPolicy, PolicyGet
<1>2. ASSUME NEW r \in Request, LoginFactors(r) PROVE Goal
  <2>0. /\ req[r].pc \in {"factors", "factors_mfa"} /\ req[r].who \in Identity
        /\ UNCHANGED <<stored, sess>>
    BY <1>2 DEF LoginFactors, ChallengeInv, CarrierInv
  <2>1. CASE UNCHANGED <<subject, expiry>> /\ (Reply(r) \/ Goto(r, "create"))
    <3>1. /\ req'[r].pc \in {"idle", "create"}
          /\ \A q \in Request \ {r} : req'[q] = req[q]
      <4>1. CASE Reply(r)
        <5>1. req'[r] = Idle /\ \A q \in Request \ {r} : req'[q] = req[q]
          BY <4>1, RequestMoves
        <5> QED BY <5>1 DEF Idle
      <4>2. CASE Goto(r, "create")
        <5>1. /\ req'[r] = [pc |-> "create", who |-> req[r].who, tic |-> req[r].tic]
              /\ \A q \in Request \ {r} : req'[q] = req[q]
          BY <4>2, RequestMoves
        <5> QED BY <5>1
      <4> QED BY <2>1, <4>1, <4>2
    <3> QED BY <2>0, <2>1, <3>1, <1>s, <1>r
  <2>2. ASSUME NEW t \in Ticket, subject[t] = None,
               subject' = [subject EXCEPT ![t] = req[r].who],
               req' = [req EXCEPT ![r] = [pc |-> "store", who |-> req[r].who, tic |-> t]]
        PROVE  Goal
    <3>1. /\ req'[r].pc = "store" /\ req'[r].tic = t
          /\ \A q \in Request \ {r} : req'[q] = req[q]
      BY <2>2 DEF TypeOK
    <3>2. \A u \in Ticket :
            (\E q \in Request : Carries(q, u)') <=> u = t \/ \E q \in Request : Carries(q, u)
      BY <2>0, <3>1 DEF Carries
    <3>3. Usable' = Usable \cup {t}
      BY <2>0, <3>2 DEF Usable
    <3>4. Opened' = Opened
      BY <2>0, <1>s
    <3>5. PICK h \in Identity : h = req[r].who
      BY <2>0
    <3>6. Once!Issue(t, h)
      BY <2>2, <3>3, <3>4, <3>5 DEF Once!Issue, Usable, Opened
    <3> QED BY <3>6 DEF Once!Next
  <2> QED BY <1>2, <2>1, <2>2, FactorsCases
<1>3. ASSUME NEW r \in Request, LoginStore(r) PROVE Goal
  <2>1. /\ req'[r].pc = "idle" /\ \A q \in Request \ {r} : req'[q] = req[q]
    BY <1>3, ReplyMoves DEF LoginStore
  <2>2. Carries(r, req[r].tic) /\ req[r].tic \in Ticket
    BY <1>3 DEF LoginStore, Carries, ChallengeInv, CarrierInv
  <2>3. \A u \in Ticket : stored'[u] > 0 => u \in Usable
    BY <1>3, <2>2 DEF LoginStore, TypeOK, Usable
  <2>4. \A q \in Request, u \in Ticket : Carries(q, u)' => u \in Usable
    BY <2>1 DEF Carries, Usable
  <2> QED BY <1>3, <1>s, <2>3, <2>4, VoidStep DEF LoginStore
<1>4. ASSUME NEW r \in Request, NEW s \in SessionId, LoginCreate(r, s) \/ RedeemCreate(r, s)
      PROVE  Goal
  <2>1. /\ req'[r].pc = "idle" /\ \A q \in Request \ {r} : req'[q] = req[q]
    BY <1>4, ReplyMoves DEF LoginCreate, RedeemCreate
  <2> QED BY <1>4, <1>n, <1>r, <2>1 DEF LoginCreate, RedeemCreate
<1>5. ASSUME NEW r \in Request, NEW s \in SessionId, CompleteCreate(r, s) PROVE Goal
  <2> DEFINE t == req[r].tic
  <2>0. /\ t \in Ticket /\ t # None /\ subject[t] = req[r].who
        /\ Carries(r, t) /\ stored[t] = 0
        /\ \A q \in Request : Carries(q, t) => q = r
    BY <1>5 DEF CompleteCreate, ChallengeInv, CarrierInv, OnePlaceInv, Carries
  <2>1. /\ req'[r].pc = "idle" /\ \A q \in Request \ {r} : req'[q] = req[q]
    BY <1>5, ReplyMoves DEF CompleteCreate
  <2>2. \A u \in Ticket :
          (\E q \in Request : Carries(q, u)') <=> u # t /\ \E q \in Request : Carries(q, u)
    BY <2>0, <2>1 DEF Carries
  <2>3. UNCHANGED <<subject, stored>>
    BY <1>5 DEF CompleteCreate
  <2>4. t \in Usable /\ Usable' = Usable \ {t}
    BY <2>0, <2>2, <2>3 DEF Usable
  <2>5. /\ sess[s] = NoRow
        /\ sess'[s] = [st |-> "live", who |-> req[r].who, how |-> "mfa", tic |-> t]
        /\ \A x \in SessionId \ {s} : sess'[x] = sess[x]
    BY <1>5 DEF CompleteCreate, CreateSession, TypeOK
  <2>6. sess[s].tic = None /\ sess'[s].tic = t /\ sess'[s].who = subject[t]
    BY <2>0, <2>5 DEF NoRow
  <2>7. Opened' = Opened \cup {[sid |-> s, ticket |-> t, who |-> subject[t]]}
    <3>1. {x \in SessionId : sess'[x].tic # None} =
            {x \in SessionId : sess[x].tic # None} \cup {s}
      BY <2>0, <2>5, <2>6
    <3>2. \A x \in {y \in SessionId : sess[y].tic # None} :
            sess'[x].tic = sess[x].tic /\ sess'[x].who = sess[x].who
      BY <2>5, <2>6
    <3> QED BY <2>6, <3>1, <3>2 DEF Opened
  <2>8. Once!Redeem(t, s)
    BY <2>3, <2>4, <2>7 DEF Once!Redeem, Usable, Opened
  <2> QED BY <2>0, <2>8 DEF Once!Next
<1>6. ASSUME NEW r \in Request, NEW t \in Ticket, CompleteConsume(r, t) PROVE Goal
  <2>1. t \in Usable /\ UNCHANGED <<subject, sess>>
    BY <1>6 DEF CompleteConsume, Consume, Usable
  <2>2. \A u \in Ticket : stored'[u] > 0 => u \in Usable
    BY <1>6 DEF CompleteConsume, Consume, TypeOK, Usable
  <2>3. \/ UNCHANGED req
        \/ req'[r].tic = t /\ \A q \in Request \ {r} : req'[q] = req[q]
    BY <1>6 DEF CompleteConsume, Consume, TypeOK
  <2>4. \A q \in Request, u \in Ticket : Carries(q, u)' => u \in Usable
    BY <2>1, <2>3 DEF Carries, Usable
  <2> QED BY <1>s, <2>1, <2>2, <2>4, VoidStep
<1>7. ASSUME NEW r \in Request, CompleteVerify(r) \/ Abort(r) PROVE Goal
  <2>1. /\ \/ req'[r] = Idle
           \/ /\ req[r].pc = "verify"
              /\ req'[r] = [pc |-> "opening", who |-> req[r].who, tic |-> req[r].tic]
        /\ \A q \in Request \ {r} : req'[q] = req[q]
        /\ UNCHANGED <<subject, stored, sess>>
    BY <1>7, RequestMoves DEF CompleteVerify, Abort
  <2>2. \A q \in Request, t \in Ticket : Carries(q, t)' => Carries(q, t)
    BY <2>1 DEF Carries, Idle
  <2> QED BY <1>s, <2>1, <2>2, VoidStep DEF Usable
<1>8. ASSUME NEW i \in Identity, NEW s \in SessionId, PasskeyLogin(i, s) PROVE Goal
  BY <1>8, <1>n, VoidStep DEF PasskeyLogin, Usable, Carries
<1>9. ASSUME NEW s \in SessionId, End(s) PROVE Goal
  <2>1. \A x \in SessionId : sess'[x].tic = sess[x].tic /\ sess'[x].who = sess[x].who
    BY <1>9 DEF End, TypeOK, RowType
  <2>2. Opened' = Opened
    BY <2>1, OpenedKept
  <2> QED BY <1>9, <2>2, VoidStep DEF End, Usable, Carries
<1>10. ASSUME UNCHANGED <<sess, stored, subject, req>> PROVE Goal
  BY <1>10, <1>s, VoidStep DEF Usable, Carries
<1>11. ASSUME Tick PROVE Goal
  <2>1. \A t \in Ticket : stored'[t] > 0 => stored[t] > 0
    BY <1>11, DecRange DEF Tick, TypeOK
  <2> QED BY <1>11, <1>s, <2>1, VoidStep DEF Tick, Usable, Carries
<1>12. ASSUME NEW r \in Request, SessionRoute(r) \/ \E i \in Identity : RedeemCode(r, i)
       PROVE  Goal
  <2>1. /\ UNCHANGED <<sess, stored, subject>>
        /\ \A q \in Request \ {r} : req'[q] = req[q]
        /\ req'[r] = req[r] \/ req'[r].pc \in {"idle", "authed", "exchange"}
    BY <1>12, RouteMoves
  <2>2. \A q \in Request, t \in Ticket : Carries(q, t)' => Carries(q, t)
    BY <2>1 DEF Carries
  <2> QED BY <1>s, <2>1, <2>2, VoidStep DEF Usable
<1> QED
  BY <1>1, <1>2, <1>3, <1>4, <1>5, <1>6, <1>7, <1>8, <1>9, <1>10, <1>11, <1>12
     DEF Next, RequestStep, Login, Complete, Exchange, IdentityStep, CodeRunsOut, vars

\* The initial states of SignIn are initial states of OneShot.
LEMMA RefinementInit == Init => Once!Init
<1> SUFFICES ASSUME Init PROVE Once!Init
  OBVIOUS
<1>1. Usable = {}
  BY DEF Init, Usable, Carries, Idle
<1>2. Opened = {}
  BY DEF Init, Opened, NoRow
<1> QED BY <1>1, <1>2 DEF Init, Once!Init, Usable, Opened

\* The login's challenges are one-time tickets, for any number of tickets and
\* concurrent requests and with calls failing at any point.
THEOREM Refinement == Spec => RefinesOneShot
<1> QED
  BY Invariance, RefinementInit, RefinementStep, PTL DEF Spec, RefinesOneShot, Once!Spec

\* Types and challenge invariant together, for every number of identities,
\* MFA tokens and requests (login.go, complete.go).
THEOREM Inductive == Spec => []IInv
  BY Invariance, PTL DEF IInv

=============================================================================
