-------------------------- MODULE OAuthCodeProofs --------------------------
(***************************************************************************)
(* Proofs about OAuthCode, for any number of clients, identities, codes    *)
(* and concurrent requests.                                                *)
(***************************************************************************)
EXTENDS OAuthCode, TLAPS

Inv == TypeOK /\ CodeInv /\ TokensMatchGrant

\* Dec counts down and stops at zero.
LEMMA DecFacts ==
    ASSUME NEW n \in Nat, NEW x \in 0..n
    PROVE  /\ Dec(x) \in 0..n
           /\ Dec(x) > 0 => x > 0
           /\ x = 0 => Dec(x) = 0
  BY DEF Dec

\* The records that stand for "nothing" differ from all others.
LEMMA Nothing ==
    /\ \A g \in Grants : g # NoGrant /\ g.client \in Client /\ g.who \in Identity
    /\ \A x \in Exchanges : x # NoExch
    /\ NoGrant.who = None /\ NoRow.code = None /\ NoRow.who = None
    /\ Idle \in ReqType /\ Idle.pc = "idle" /\ Idle.code = None
<1> USE OAuthAssumption
<1>1. ASSUME NEW g \in Grants PROVE g # NoGrant /\ g.client \in Client /\ g.who \in Identity
  BY DEF Grants, NoGrant
<1>2. ASSUME NEW x \in Exchanges PROVE x # NoExch
  BY DEF Exchanges, NoExch
<1>3. NoGrant.who = None /\ NoRow.code = None /\ NoRow.who = None
  BY DEF NoGrant, NoRow
<1>4. Idle \in ReqType /\ Idle.pc = "idle" /\ Idle.code = None
  BY DEF Idle, ReqType
<1> QED BY <1>1, <1>2, <1>3, <1>4

\* A row without a code is no row, and the other way round.
LEMMA RowCode ==
    ASSUME TypeOK, PointerInv, NEW s \in SessionId
    PROVE  sess[s] = NoRow <=> sess[s].code = None
<1>1. sess[s] = NoRow => sess[s].code = None
  BY Nothing
<1>2. sess[s] # NoRow => sess[s].code # None
  BY OAuthAssumption DEF PointerInv
<1> QED BY <1>1, <1>2

\* What a write to one request, and to nothing else of req, leaves behind.
LEMMA RequestMoves ==
    ASSUME TypeOK, NEW r \in Request
    PROVE  /\ Reply(r) => /\ req' \in [Request -> ReqType]
                          /\ req'[r] = Idle
                          /\ \A q \in Request \ {r} : req'[q] = req[q]
           /\ \A x \in ReqType :
                req' = [req EXCEPT ![r] = x] =>
                  /\ req' \in [Request -> ReqType]
                  /\ req'[r] = x
                  /\ \A q \in Request \ {r} : req'[q] = req[q]
  BY Nothing DEF Reply, TypeOK

\* An answer stays right while its session, code and exchange stay.
LEMMA MatchKept ==
    ASSUME TokensMatchGrant, NEW s \in SessionId, tok[s] # NoTok, tok'[s] = tok[s],
           sess'[s] = sess[s], exch'[sess[s].code] = exch[sess[s].code],
           grant'[sess[s].code] = grant[sess[s].code]
    PROVE  TokenMatches(s, sess[s].code)'
  BY DEF TokensMatchGrant, TokenMatches

\* All requests are idle and nothing exists.
LEMMA InitInv == Init => Inv
<1> SUFFICES ASSUME Init PROVE Inv
  OBVIOUS
<1> USE OAuthAssumption
<1>1. TypeOK
  <2>1. /\ grant \in [Code -> Grants \cup {NoGrant}]
        /\ exch \in [Code -> Exchanges \cup {NoExch}]
    BY DEF Init
  <2>2. /\ expiry \in [Code -> 0..CodeTTL]
        /\ stored \in [Code -> 0..CodeTTL]
    BY DEF Init
  <2>3. sess \in [SessionId -> [code : Code \cup {None}, who : Identity \cup {None}]]
    BY DEF Init, NoRow
  <2>4. tok \in [SessionId -> [aud : Client \cup {None}, scope : SUBSET Scope,
                               id : Code \cup {None}]]
    BY DEF Init, NoTok
  <2>5. req \in [Request -> ReqType]
    BY Nothing DEF Init
  <2>6. lost \subseteq Code
    BY DEF Init
  <2> QED BY <2>1, <2>2, <2>3, <2>4, <2>5, <2>6 DEF TypeOK
<1>3. GrantInv
  BY DEF Init, GrantInv
<1>4. PointerInv
  BY Nothing DEF Init, PointerInv
<1>5. PlaceInv
  <2>1. /\ \A s \in SessionId : sess[s].code = None
        /\ \A r \in Request : req[r].pc = "idle"
        /\ \A c \in Code : stored[c] = 0
    BY Nothing DEF Init
  <2> QED BY <2>1 DEF PlaceInv, Carries
<1>6. TokensMatchGrant
  BY DEF Init, TokensMatchGrant
<1> QED BY <1>1, <1>3, <1>4, <1>5, <1>6 DEF Inv, CodeInv

-----------------------------------------------------------------------------
\* Authorize keeps the invariant: the code is new, and the request carries it.
LEMMA AuthorizeStep ==
    ASSUME Inv, NEW r \in Request, NEW g \in Grants, NEW c \in Code,
           Authorize(r, g.who, g, c)
    PROVE  Inv'
<1> USE OAuthAssumption
<1>0. /\ TypeOK /\ req[r].pc = "idle" /\ grant[c] = NoGrant
      /\ g.client \in CodeClients /\ g.scope \subseteq Scopes[g.client]
      /\ TenantOf[g.client] = TenantOf[g.who]
      /\ UNCHANGED <<stored, exch, sess, tok, lost>>
  BY DEF Inv, Authorize, Allows, GetByClientID
<1>1. /\ grant' \in [Code -> Grants \cup {NoGrant}]
      /\ grant'[c] = g /\ \A d \in Code \ {c} : grant'[d] = grant[d]
  BY <1>0 DEF Authorize, Allows, GetByClientID, TypeOK
<1>2. /\ expiry' \in [Code -> 0..CodeTTL]
      /\ expiry'[c] = CodeTTL /\ \A d \in Code \ {c} : expiry'[d] = expiry[d]
  <2>1. CodeTTL \in 0..CodeTTL
    OBVIOUS
  <2> QED BY <1>0, <2>1 DEF Authorize, Allows, GetByClientID, TypeOK
<1>3. /\ req' \in [Request -> ReqType]
      /\ req'[r].pc = "store" /\ req'[r].code = c
      /\ \A q \in Request \ {r} : req'[q] = req[q]
  <2> DEFINE x == [pc |-> "store", code |-> c, sid |-> None, ttl |-> 0]
  <2>1. x \in ReqType
    BY DEF ReqType
  <2>2. /\ req' \in [Request -> ReqType] /\ req'[r] = x
        /\ \A q \in Request \ {r} : req'[q] = req[q]
    BY <1>0, <2>1, RequestMoves DEF Authorize, Allows, GetByClientID
  <2> QED BY <2>2
<1>4. /\ stored[c] = 0 /\ exch[c] = NoExch
      /\ \A q \in Request : req[q].pc # "idle" => req[q].code # c
      /\ \A s \in SessionId : sess[s].code # c
  <2>1. stored[c] = 0
    BY <1>0 DEF Inv, CodeInv, PlaceInv, TypeOK
  <2>2. exch[c] = NoExch
    BY <1>0 DEF Inv, CodeInv, PointerInv
  <2>3. \A q \in Request : req[q].pc # "idle" => req[q].code # c
    BY <1>0 DEF Inv, CodeInv, PointerInv
  <2>4. \A s \in SessionId : sess[s].code # c
    BY <1>0, RowCode DEF Inv, CodeInv, PointerInv
  <2> QED BY <2>1, <2>2, <2>3, <2>4
<1>5. TypeOK'
  BY <1>0, <1>1, <1>2, <1>3 DEF TypeOK
<1>7. GrantInv'
  BY <1>0, <1>1 DEF Inv, CodeInv, GrantInv
<1>8. PointerInv'
  BY <1>0, <1>1, <1>3, <1>4, Nothing DEF Inv, CodeInv, PointerInv, Fits
<1>9. PlaceInv'
  <2>1. \A q \in Request, d \in Code : Carries(q, d)' <=> Carries(q, d) \/ (q = r /\ d = c)
    BY <1>0, <1>3 DEF Carries
  <2>2. \A q \in Request : ~Carries(q, c)
    BY <1>4 DEF Carries
  <2>3. \A d \in Code : grant[d] # NoGrant => grant'[d] # NoGrant
    BY <1>0, <1>1
  <2> QED BY <1>0, <1>4, <2>1, <2>2, <2>3 DEF Inv, CodeInv, PlaceInv
<1>10. TokensMatchGrant'
  <2>1. \A s \in SessionId : tok[s] # NoTok => sess[s].code \in Code \ {c}
    BY <1>4 DEF Inv, TokensMatchGrant, TokenMatches
  <2> QED BY <1>0, <1>1, <2>1, MatchKept DEF Inv, TokensMatchGrant
<1> QED BY <1>5, <1>7, <1>8, <1>9, <1>10 DEF Inv, CodeInv

\* AuthorizeStore keeps the code, or gives it up.
LEMMA StoreStep ==
    ASSUME Inv, NEW r \in Request, AuthorizeStore(r)
    PROVE  Inv'
<1> USE OAuthAssumption
<1>0. /\ TypeOK /\ req[r].pc = "store"
      /\ UNCHANGED <<grant, expiry, stored, exch, sess, tok, lost>>
  BY DEF Inv, AuthorizeStore
<1>1. /\ req' \in [Request -> ReqType]
      /\ \/ req'[r].pc = "idle"
         \/ req'[r].pc = "set" /\ req'[r].code = req[r].code
      /\ \A q \in Request \ {r} : req'[q] = req[q]
  <2>1. CASE Reply(r)
    BY <1>0, <2>1, RequestMoves, Nothing
  <2>2. CASE req' = [req EXCEPT ![r].pc = "set", ![r].ttl = expiry[req[r].code]]
    <3>1. expiry[req[r].code] \in 0..CodeTTL
      BY <1>0 DEF TypeOK, Inv, CodeInv, PointerInv
    <3>2. req[r] \in ReqType
      BY <1>0 DEF TypeOK
    <3>3. /\ [req[r] EXCEPT !.pc = "set", !.ttl = expiry[req[r].code]] \in ReqType
          /\ req'[r].pc = "set" /\ req'[r].code = req[r].code
      BY <1>0, <2>2, <3>1, <3>2 DEF TypeOK, ReqType
    <3> QED BY <1>0, <2>2, <3>3 DEF TypeOK
  <2> QED BY <2>1, <2>2 DEF AuthorizeStore
<1>2. TypeOK' /\ GrantInv' /\ TokensMatchGrant'
  BY <1>0, <1>1 DEF Inv, TypeOK, CodeInv, GrantInv, TokensMatchGrant, TokenMatches
<1>3. PointerInv'
  BY <1>0, <1>1 DEF Inv, CodeInv, PointerInv, Fits
<1>4. PlaceInv'
  <2>1. \A q \in Request, d \in Code : Carries(q, d)' => Carries(q, d)
    BY <1>0, <1>1 DEF Carries
  <2> QED BY <1>0, <2>1 DEF Inv, CodeInv, PlaceInv
<1> QED BY <1>2, <1>3, <1>4 DEF Inv, CodeInv

\* AuthorizeSet hands the code from the request to Redis.
LEMMA SetStep ==
    ASSUME Inv, NEW r \in Request, AuthorizeSet(r)
    PROVE  Inv'
<1> USE OAuthAssumption
<1> DEFINE c == req[r].code
<1>0. /\ TypeOK /\ req[r].pc = "set" /\ c \in Code /\ grant[c] # NoGrant /\ Carries(r, c)
      /\ UNCHANGED <<grant, expiry, exch, sess, tok, lost>>
  BY DEF Inv, AuthorizeSet, CodeInv, PointerInv, Carries
<1>1. /\ stored' \in [Code -> 0..CodeTTL]
      /\ stored'[c] = req[r].ttl /\ \A d \in Code \ {c} : stored'[d] = stored[d]
  <2>1. req[r].ttl \in 0..CodeTTL
    BY <1>0 DEF TypeOK, ReqType
  <2> QED BY <1>0, <2>1 DEF AuthorizeSet, TypeOK
<1>2. /\ req' \in [Request -> ReqType] /\ req'[r].pc = "idle"
      /\ \A q \in Request \ {r} : req'[q] = req[q]
  BY <1>0, RequestMoves, Nothing DEF AuthorizeSet
<1>3. TypeOK'
  BY <1>0, <1>1, <1>2 DEF TypeOK
<1>5. GrantInv'
  BY <1>0 DEF Inv, CodeInv, GrantInv
<1>6. PointerInv'
  BY <1>0, <1>2 DEF Inv, CodeInv, PointerInv, Fits
<1>7. PlaceInv'
  <2>1. \A q \in Request, d \in Code : Carries(q, d)' => Carries(q, d) /\ d # c
    BY <1>0, <1>2 DEF Inv, CodeInv, PlaceInv, Carries
  <2>2. \A s \in SessionId : sess[s].code # c
    BY <1>0 DEF Inv, CodeInv, PlaceInv
  <2> QED BY <1>0, <1>1, <2>1, <2>2 DEF Inv, CodeInv, PlaceInv
<1>8. TokensMatchGrant'
  BY <1>0 DEF Inv, TokensMatchGrant, TokenMatches
<1> QED BY <1>3, <1>5, <1>6, <1>7, <1>8 DEF Inv, CodeInv

\* TokenConsume hands the code from Redis to the request, or drops it.
LEMMA ConsumeStep ==
    ASSUME Inv, NEW r \in Request, NEW x \in Exchanges, NEW k, NEW c \in Code,
           TokenConsume(r, x, k, c)
    PROVE  Inv'
<1> USE OAuthAssumption
<1>0. /\ TypeOK /\ req[r].pc = "idle" /\ stored[c] > 0 /\ grant[c] # NoGrant
      /\ UNCHANGED <<grant, expiry, sess, tok, lost>>
  BY DEF Inv, TokenConsume, Consume, CodeInv, PlaceInv
<1>1. /\ stored' \in [Code -> 0..CodeTTL]
      /\ stored'[c] = 0 /\ \A d \in Code \ {c} : stored'[d] = stored[d]
  BY <1>0 DEF TokenConsume, Consume, TypeOK
<1>2. /\ \A s \in SessionId : sess[s].code # c
      /\ \A q \in Request : ~Carries(q, c)
  BY <1>0 DEF Inv, CodeInv, PlaceInv, TypeOK
<1>4. GrantInv'
  BY <1>0 DEF Inv, CodeInv, GrantInv
<1>5. CASE UNCHANGED <<exch, req>>
  <2>1. TypeOK'
    BY <1>0, <1>1, <1>5 DEF TypeOK
  <2>2. PointerInv'
    BY <1>0, <1>5 DEF Inv, CodeInv, PointerInv, Fits
  <2>3. PlaceInv'
    BY <1>0, <1>1, <1>5 DEF Inv, CodeInv, PlaceInv, Carries
  <2>4. TokensMatchGrant'
    BY <1>0, <1>5 DEF Inv, TokensMatchGrant, TokenMatches
  <2> QED BY <1>4, <2>1, <2>2, <2>3, <2>4 DEF Inv, CodeInv
<1>6. CASE /\ Fits(x, c)
           /\ exch' = [exch EXCEPT ![c] = x]
           /\ req' = [req EXCEPT ![r] = [pc |-> "opening", code |-> c, sid |-> None, ttl |-> 0]]
  <2>1. /\ exch' \in [Code -> Exchanges \cup {NoExch}]
        /\ exch'[c] = x /\ \A d \in Code \ {c} : exch'[d] = exch[d]
    BY <1>0, <1>6 DEF TypeOK
  <2>2. /\ req' \in [Request -> ReqType]
        /\ req'[r].pc = "opening" /\ req'[r].code = c
        /\ \A q \in Request \ {r} : req'[q] = req[q]
    <3> DEFINE y == [pc |-> "opening", code |-> c, sid |-> None, ttl |-> 0]
    <3>1. y \in ReqType
      BY DEF ReqType
    <3>2. /\ req' \in [Request -> ReqType] /\ req'[r] = y
          /\ \A q \in Request \ {r} : req'[q] = req[q]
      BY <1>0, <1>6, <3>1, RequestMoves
    <3> QED BY <3>2
  <2>3. TypeOK'
    BY <1>0, <1>1, <2>1, <2>2 DEF TypeOK
  <2>4. \A d \in Code : exch[d] # NoExch => exch'[d] # NoExch
    BY <2>1, Nothing
  <2>5. \A d \in Code : (exch[d] # NoExch => grant[d] # NoGrant /\ Fits(exch[d], d))'
    BY <1>0, <1>6, <2>1 DEF Inv, CodeInv, PointerInv, Fits
  <2>6. PointerInv'
    <3>1. /\ \A q \in Request : req'[q].pc # "idle" =>
               req'[q].code \in Code /\ grant'[req'[q].code] # NoGrant
          /\ \A q \in Request : req'[q].pc = "opening" => exch'[req'[q].code] # NoExch
          /\ \A q \in Request : req'[q].pc \in {"issue", "idtoken"} =>
               req'[q].sid \in SessionId /\ sess'[req'[q].sid].code = req'[q].code
      BY <1>0, <2>1, <2>2, <2>4, Nothing DEF Inv, CodeInv, PointerInv
    <3>2. \A s \in SessionId : sess'[s] # NoRow =>
            /\ sess'[s].code \in Code
            /\ grant'[sess'[s].code] # NoGrant
            /\ sess'[s].who = grant'[sess'[s].code].who
            /\ exch'[sess'[s].code] # NoExch
      BY <1>0, <2>4 DEF Inv, CodeInv, PointerInv
    <3>3. \A q \in Request : (req[q].pc = "idtoken" => hasScope(grant[req[q].code].scope))'
      BY <1>0, <2>2 DEF Inv, CodeInv, PointerInv, hasScope
    <3> QED BY <2>5, <3>1, <3>2, <3>3 DEF PointerInv
  <2>7. PlaceInv'
    <3>1. \A q \in Request, d \in Code :
            Carries(q, d)' => (Carries(q, d) /\ d # c) \/ (q = r /\ d = c)
      BY <1>0, <1>2, <2>2 DEF Carries
    <3> QED BY <1>0, <1>1, <1>2, <3>1 DEF Inv, CodeInv, PlaceInv
  <2>8. TokensMatchGrant'
    <3>1. \A s \in SessionId : tok[s] # NoTok => sess[s].code \in Code \ {c}
      BY <1>2 DEF Inv, TokensMatchGrant, TokenMatches
    <3> QED BY <1>0, <2>1, <3>1, MatchKept DEF Inv, TokensMatchGrant
  <2> QED BY <1>4, <2>3, <2>6, <2>7, <2>8 DEF Inv, CodeInv
<1> QED BY <1>5, <1>6 DEF TokenConsume, Consume

\* TokenCreate uses the code up.
LEMMA CreateStep ==
    ASSUME Inv, NEW r \in Request, NEW s \in SessionId, TokenCreate(r, s)
    PROVE  Inv'
<1> USE OAuthAssumption
<1> DEFINE c == req[r].code
<1>0. /\ TypeOK /\ req[r].pc = "opening" /\ c \in Code /\ grant[c] # NoGrant
      /\ exch[c] # NoExch /\ Carries(r, c) /\ sess[s] = NoRow
      /\ UNCHANGED <<grant, expiry, stored, exch, tok, lost>>
  BY DEF Inv, TokenCreate, CodeInv, PointerInv, Carries
<1>1. stored[c] = 0 /\ \A q \in Request : Carries(q, c) => q = r
  BY <1>0 DEF Inv, CodeInv, PlaceInv
<1>2. /\ sess'[s] = [code |-> c, who |-> grant[c].who]
      /\ \A t \in SessionId \ {s} : sess'[t] = sess[t]
  BY <1>0 DEF TokenCreate, TypeOK
<1>3. /\ sess'[s].code = c /\ sess'[s].who = grant[c].who
  BY <1>2
<1>4. grant[c].who \in Identity
  BY <1>0, Nothing DEF TypeOK
<1>5. sess' \in [SessionId -> [code : Code \cup {None}, who : Identity \cup {None}]]
  BY <1>0, <1>4 DEF TokenCreate, TypeOK
<1>6. /\ req' \in [Request -> ReqType]
      /\ req'[r].pc = "issue" /\ req'[r].code = c /\ req'[r].sid = s
      /\ \A q \in Request \ {r} : req'[q] = req[q]
  <2> DEFINE y == [pc |-> "issue", code |-> c, sid |-> s, ttl |-> 0]
  <2>1. y \in ReqType
    BY <1>0 DEF ReqType
  <2>2. /\ req' \in [Request -> ReqType] /\ req'[r] = y
        /\ \A q \in Request \ {r} : req'[q] = req[q]
    BY <1>0, <2>1, RequestMoves DEF TokenCreate
  <2> QED BY <2>2
<1>7. sess[s].code = None
  BY <1>0, Nothing
<1>8. TypeOK'
  BY <1>0, <1>5, <1>6 DEF TypeOK
<1>9. GrantInv'
  BY <1>0 DEF Inv, CodeInv, GrantInv
<1>10. PointerInv'
  <2>1. /\ \A q \in Request : req'[q].pc # "idle" =>
             req'[q].code \in Code /\ grant'[req'[q].code] # NoGrant
        /\ \A q \in Request : req'[q].pc = "opening" => exch'[req'[q].code] # NoExch
    BY <1>0, <1>6 DEF Inv, CodeInv, PointerInv
  <2>2. \A q \in Request : req'[q].pc \in {"issue", "idtoken"} =>
          req'[q].sid \in SessionId /\ sess'[req'[q].sid].code = req'[q].code
    BY <1>0, <1>2, <1>3, <1>6, <1>7 DEF Inv, CodeInv, PointerInv
  <2>3. \A t \in SessionId : sess'[t] # NoRow =>
          /\ sess'[t].code \in Code
          /\ grant'[sess'[t].code] # NoGrant
          /\ sess'[t].who = grant'[sess'[t].code].who
          /\ exch'[sess'[t].code] # NoExch
    BY <1>0, <1>2, <1>3 DEF Inv, CodeInv, PointerInv
  <2>4. \A d \in Code : (exch[d] # NoExch => grant[d] # NoGrant /\ Fits(exch[d], d))'
    BY <1>0 DEF Inv, CodeInv, PointerInv, Fits
  <2>5. \A q \in Request : (req[q].pc = "idtoken" => hasScope(grant[req[q].code].scope))'
    BY <1>0, <1>6 DEF Inv, CodeInv, PointerInv, hasScope
  <2> QED BY <2>1, <2>2, <2>3, <2>4, <2>5 DEF PointerInv
<1>11. PlaceInv'
  <2>1. \A q \in Request, d \in Code : Carries(q, d)' => Carries(q, d) /\ d # c
    BY <1>0, <1>1, <1>6 DEF Carries
  <2> QED BY <1>0, <1>1, <1>2, <1>3, <2>1 DEF Inv, CodeInv, PlaceInv
<1>12. TokensMatchGrant'
  <2>1. tok[s] = NoTok
    BY <1>7 DEF Inv, TokensMatchGrant, TokenMatches
  <2> QED BY <1>0, <1>2, <2>1, MatchKept DEF Inv, TokensMatchGrant
<1> QED BY <1>8, <1>9, <1>10, <1>11, <1>12 DEF Inv, CodeInv

\* The answer is what the accepted exchange asked for.
LEMMA AnswerStep ==
    ASSUME Inv, NEW r \in Request, req[r].pc \in {"issue", "idtoken"},
           Answer(r, IF hasScope(grant[req[r].code].scope) THEN req[r].code ELSE None),
           UNCHANGED <<grant, expiry, stored, exch, sess, lost>>
    PROVE  Inv'
<1> USE OAuthAssumption
<1> DEFINE c == req[r].code
           s == req[r].sid
           idt == IF hasScope(grant[c].scope) THEN c ELSE None
<1>0. /\ TypeOK /\ req[r].pc \in {"issue", "idtoken"} /\ c \in Code /\ grant[c] # NoGrant
      /\ s \in SessionId /\ sess[s].code = c
      /\ UNCHANGED <<grant, expiry, stored, exch, sess, lost>>
  BY DEF Inv, CodeInv, PointerInv
<1>1. /\ sess[s].who = grant[c].who /\ exch[c] # NoExch /\ Fits(exch[c], c)
  BY <1>0, RowCode DEF Inv, CodeInv, PointerInv
<1>2. grant[c] \in Grants /\ exch[c] \in Exchanges
  BY <1>0, <1>1 DEF TypeOK
<1>3. /\ tok'[s] = [aud |-> exch[c].client, scope |-> grant[c].scope, id |-> idt]
      /\ \A t \in SessionId \ {s} : tok'[t] = tok[t]
  BY <1>0 DEF Answer, TypeOK
<1>4. /\ req' \in [Request -> ReqType] /\ req'[r].pc = "idle"
      /\ \A q \in Request \ {r} : req'[q] = req[q]
  BY <1>0, RequestMoves, Nothing DEF Answer
<1>5. exch[c].client = grant[c].client /\ exch[c].uri = grant[c].uri /\ exch[c].ver = grant[c].ver
  BY <1>1 DEF Fits
<1>6. exch[c] = [client |-> grant[c].client, uri |-> grant[c].uri, ver |-> grant[c].ver]
  BY <1>2, <1>5 DEF Exchanges
<1>7. grant[c].client \in Client /\ grant[c].scope \in SUBSET Scope
  BY <1>2 DEF Grants
<1>i. idt \in Code \cup {None}
  BY <1>0
<1>8. tok' \in [SessionId -> [aud : Client \cup {None}, scope : SUBSET Scope,
                              id : Code \cup {None}]]
  BY <1>0, <1>5, <1>7, <1>i DEF Answer, TypeOK
<1>9. TypeOK'
  BY <1>0, <1>4, <1>8 DEF TypeOK
<1>10. GrantInv'
  BY <1>0 DEF Inv, CodeInv, GrantInv
<1>11. PointerInv'
  BY <1>0, <1>4 DEF Inv, CodeInv, PointerInv, Fits
<1>12. PlaceInv'
  BY <1>0, <1>4 DEF Inv, CodeInv, PlaceInv, Carries
<1>13. TokensMatchGrant'
  <2>1. /\ tok'[s] = [aud |-> grant[c].client, scope |-> grant[c].scope, id |-> idt]
        /\ tok'[s].aud = grant[c].client /\ tok'[s].scope = grant[c].scope
    BY <1>3, <1>5
  <2>2. /\ grant[c].scope \subseteq Scopes[grant[c].client]
        /\ TenantOf[grant[c].who] = TenantOf[grant[c].client]
    BY <1>0 DEF Inv, CodeInv, GrantInv
  <2>3. PICK t \in SessionId : t = s
    BY <1>0
  <2>4. TokenMatches(t, sess[t].code)'
    BY <1>0, <1>1, <1>6, <2>1, <2>2, <2>3 DEF TokenMatches
  <2> QED BY <1>0, <1>3, <2>3, <2>4, MatchKept DEF Inv, TokensMatchGrant
<1> QED BY <1>9, <1>10, <1>11, <1>12, <1>13 DEF Inv, CodeInv

\* TokenIssue answers, or goes on to the ID token.
LEMMA IssueStep ==
    ASSUME Inv, NEW r \in Request, TokenIssue(r)
    PROVE  Inv'
<1>0. /\ TypeOK /\ req[r].pc = "issue"
      /\ UNCHANGED <<grant, expiry, stored, exch, sess, lost>>
  BY DEF Inv, TokenIssue
<1>1. CASE ~hasScope(grant[req[r].code].scope)
  BY <1>0, <1>1, AnswerStep DEF TokenIssue
<1>2. CASE hasScope(grant[req[r].code].scope)
  <2>1. UNCHANGED tok /\ req' = [req EXCEPT ![r].pc = "idtoken"]
    BY <1>2 DEF TokenIssue
  <2>2. /\ req' \in [Request -> ReqType] /\ req'[r].pc = "idtoken"
        /\ req'[r].code = req[r].code /\ req'[r].sid = req[r].sid
        /\ \A q \in Request \ {r} : req'[q] = req[q]
    BY <1>0, <2>1 DEF TypeOK, ReqType
  <2>3. TypeOK' /\ GrantInv' /\ TokensMatchGrant'
    BY <1>0, <2>1, <2>2 DEF Inv, TypeOK, CodeInv, GrantInv,
                            TokensMatchGrant, TokenMatches
  <2>4. PointerInv'
    BY <1>0, <1>2, <2>2 DEF Inv, CodeInv, PointerInv, Fits, hasScope
  <2>5. PlaceInv'
    BY <1>0, <2>2 DEF Inv, CodeInv, PlaceInv, Carries
  <2> QED BY <2>3, <2>4, <2>5 DEF Inv, CodeInv
<1> QED BY <1>1, <1>2

\* IssueIDToken answers, for the code of the request.
LEMMA IDTokenStep ==
    ASSUME Inv, NEW r \in Request, IssueIDToken(r)
    PROVE  Inv'
<1>1. /\ req[r].pc = "idtoken" /\ Answer(r, req[r].code)
      /\ UNCHANGED <<grant, expiry, stored, exch, sess, lost>>
  BY DEF IssueIDToken
<1>2. hasScope(grant[req[r].code].scope)
  BY <1>1 DEF Inv, CodeInv, PointerInv
<1> QED BY <1>1, <1>2, AnswerStep

\* A request that fails gives up its right.
LEMMA AbortStep ==
    ASSUME Inv, NEW r \in Request, Abort(r)
    PROVE  Inv'
<1>0. TypeOK /\ UNCHANGED <<grant, expiry, stored, exch, sess, tok>>
  BY DEF Inv, Abort
<1>1. /\ req' \in [Request -> ReqType] /\ req'[r].pc = "idle"
      /\ \A q \in Request \ {r} : req'[q] = req[q]
  BY <1>0, RequestMoves, Nothing DEF Abort
<1>2. TypeOK'
  <2>1. lost' \subseteq Code
    BY <1>0 DEF Abort, Inv, CodeInv, PointerInv, TypeOK
  <2> QED BY <1>0, <1>1, <2>1 DEF TypeOK
<1>3. GrantInv' /\ TokensMatchGrant'
  BY <1>0 DEF Inv, CodeInv, GrantInv, TokensMatchGrant, TokenMatches
<1>4. PointerInv'
  BY <1>0, <1>1 DEF Inv, CodeInv, PointerInv, Fits
<1>5. PlaceInv'
  BY <1>0, <1>1 DEF Inv, CodeInv, PlaceInv, Carries
<1> QED BY <1>2, <1>3, <1>4, <1>5 DEF Inv, CodeInv

\* Time only runs down.
LEMMA TickStep ==
    ASSUME Inv, Tick
    PROVE  Inv'
<1>0. TypeOK /\ CodeTTL \in Nat /\ UNCHANGED <<grant, exch, sess, tok, lost, req>>
  BY OAuthAssumption DEF Inv, Tick
<1>1. \A c \in Code : /\ stored[c] \in 0..CodeTTL /\ expiry[c] \in 0..CodeTTL
                      /\ stored'[c] = Dec(stored[c]) /\ expiry'[c] = Dec(expiry[c])
  BY <1>0 DEF TypeOK, Tick
<1>2. \A c \in Code : /\ stored'[c] \in 0..CodeTTL /\ expiry'[c] \in 0..CodeTTL
                      /\ stored'[c] > 0 => stored[c] > 0
                      /\ stored[c] = 0 => stored'[c] = 0
  BY <1>0, <1>1, DecFacts
<1>3. TypeOK'
  BY <1>0, <1>2 DEF Tick, TypeOK
<1>4. GrantInv' /\ PointerInv' /\ TokensMatchGrant'
  BY <1>0 DEF Inv, CodeInv, GrantInv, PointerInv, TokensMatchGrant, TokenMatches, Fits
<1>5. PlaceInv'
  BY <1>0, <1>2 DEF Inv, CodeInv, PlaceInv, Carries
<1> QED BY <1>3, <1>4, <1>5 DEF Inv, CodeInv

\* The invariant holds in every reachable state.
THEOREM Invariance == Spec => []Inv
<1>1. ASSUME Inv, [Next]_vars PROVE Inv'
  <2>1. CASE UNCHANGED vars
    BY <1>1, <2>1 DEF vars, Inv, TypeOK, CodeInv, GrantInv, PointerInv,
                      PlaceInv, TokensMatchGrant, TokenMatches, Fits, Carries
  <2>2. CASE Next
    BY <1>1, <2>2, AuthorizeStep, StoreStep, SetStep, ConsumeStep, CreateStep,
       IssueStep, IDTokenStep, AbortStep, TickStep DEF Next, HandleAuthorize, HandleToken
  <2> QED BY <1>1, <2>1, <2>2
<1> QED BY InitInv, <1>1, PTL DEF Spec

\* Type correctness of the authorization code flow.
THEOREM TypeCorrect == Spec => []TypeOK
  BY Invariance, PTL DEF Inv

\* Tokens are always for the client, redirect URI, verifier, scopes, identity
\* and tenant of the authorization (token.go:111-183).
THEOREM TokensMatch == Spec => []TokensMatchGrant
  BY Invariance, PTL DEF Inv

\* Where a code is and what became of it always fit together.
THEOREM CodesKept == Spec => []CodeInv
  BY Invariance, PTL DEF Inv

-----------------------------------------------------------------------------
(* Refinement *)

\* The refinement mapping of Once.
Holds == [c \in Code |-> grant[c].who]
Usable == {c \in Code :
             \/ expiry[c] > 0 /\ (stored[c] > 0 \/ \E r \in Request : Carries(r, c))
             \/ \E r \in Request : Redeems(r, c)}
Opened == {[sid |-> s, ticket |-> sess[s].code, who |-> sess[s].who] :
             s \in {x \in SessionId : sess[x] # NoRow}}

\* A step that neither issues nor redeems a code at most voids some.
LEMMA VoidStep ==
    ASSUME UNCHANGED <<grant, sess>>, Usable' \subseteq Usable
    PROVE  [Once!Next]_(Once!vars)
<1>1. PICK T \in SUBSET Code : T = Usable \ Usable'
  BY DEF Usable
<1>2. Usable' = Usable \ T
  BY <1>1
<1>3. Holds' = Holds /\ Opened' = Opened
  BY DEF Holds, Opened
<1>4. Once!Void(T)
  BY <1>2, <1>3 DEF Once!Void, Usable, Opened, Holds
<1> QED BY <1>4 DEF Once!Next

\* No code becomes usable in a step in which none comes nearer to a session.
LEMMA NoneUsable ==
    ASSUME \A c \in Code : expiry'[c] > 0 => expiry[c] > 0,
           \A c \in Code : stored'[c] > 0 => stored[c] > 0 \/ \E r \in Request : Carries(r, c),
           \A r \in Request, c \in Code : Carries(r, c)' => Carries(r, c),
           \A r \in Request, c \in Code : Redeems(r, c)' => Redeems(r, c)
    PROVE  Usable' \subseteq Usable
<1> SUFFICES ASSUME NEW c \in Code, c \in Usable' PROVE c \in Usable
  BY DEF Usable
<1>1. CASE \E r \in Request : Redeems(r, c)'
  BY <1>1 DEF Usable
<1>2. CASE expiry'[c] > 0 /\ (stored'[c] > 0 \/ \E r \in Request : Carries(r, c)')
  BY <1>2 DEF Usable
<1> QED BY <1>1, <1>2 DEF Usable

\* Every step of OAuthCode is a step of OneShot or leaves it unchanged.
LEMMA RefinementStep == Inv /\ [Next]_vars => [Once!Next]_(Once!vars)
<1> SUFFICES ASSUME Inv, [Next]_vars PROVE [Once!Next]_(Once!vars)
  OBVIOUS
<1> DEFINE Goal == [Once!Next]_(Once!vars)
<1> USE OAuthAssumption
<1>t. TypeOK
  BY DEF Inv
<1>r. ASSUME NEW r \in Request, Reply(r), UNCHANGED <<grant, expiry, stored, sess>> PROVE Goal
  <2>1. req'[r].pc = "idle" /\ \A q \in Request \ {r} : req'[q] = req[q]
    BY <1>r, <1>t, RequestMoves, Nothing
  <2>2. \A q \in Request, c \in Code :
          (Carries(q, c)' => Carries(q, c)) /\ (Redeems(q, c)' => Redeems(q, c))
    BY <2>1 DEF Carries, Redeems
  <2> QED BY <1>r, <2>2, NoneUsable, VoidStep
<1>1. ASSUME NEW r \in Request, NEW g \in Grants, NEW c \in Code, Authorize(r, g.who, g, c)
      PROVE  Goal
  <2>1. grant[c] = NoGrant /\ req[r].pc = "idle" /\ UNCHANGED <<stored, sess>>
    BY <1>1 DEF Authorize, Allows, GetByClientID
  <2>2. grant'[c] = g /\ \A d \in Code \ {c} : grant'[d] = grant[d]
    BY <1>1, <1>t DEF Authorize, Allows, GetByClientID, TypeOK
  <2>3. /\ req'[r].pc = "store" /\ req'[r].code = c
        /\ \A q \in Request \ {r} : req'[q] = req[q]
    <3>1. [pc |-> "store", code |-> c, sid |-> None, ttl |-> 0] \in ReqType
      BY DEF ReqType
    <3>2. /\ req'[r] = [pc |-> "store", code |-> c, sid |-> None, ttl |-> 0]
          /\ \A q \in Request \ {r} : req'[q] = req[q]
      BY <1>1, <1>t, <3>1, RequestMoves DEF Authorize, Allows, GetByClientID
    <3> QED BY <3>2
  <2>4. /\ \A d \in Code :
             (\E q \in Request : Carries(q, d)') <=> d = c \/ \E q \in Request : Carries(q, d)
        /\ \A q \in Request, d \in Code : Redeems(q, d)' <=> Redeems(q, d)
    BY <2>1, <2>3 DEF Carries, Redeems
  <2>e. /\ expiry'[c] = CodeTTL /\ CodeTTL > 0
        /\ \A d \in Code \ {c} : expiry'[d] = expiry[d]
    BY <1>1, <1>t DEF Authorize, TypeOK
  <2>5. Usable' = Usable \cup {c}
    <3>1. c \in Usable'
      BY <2>4, <2>e DEF Usable
    <3>2. \A d \in Code \ {c} : d \in Usable' <=> d \in Usable
      BY <2>1, <2>4, <2>e DEF Usable
    <3> QED BY <3>1, <3>2 DEF Usable
  <2>6. Opened' = Opened
    BY <2>1 DEF Opened
  <2>7. PICK h \in Identity : h = g.who
    BY Nothing
  <2>8. Holds[c] = None /\ Holds' = [Holds EXCEPT ![c] = h]
    BY <2>1, <2>2, <2>7, Nothing DEF Holds
  <2>9. Once!Issue(c, h)
    BY <2>5, <2>6, <2>8 DEF Once!Issue, Usable, Opened, Holds
  <2> QED BY <2>9 DEF Once!Next
<1>2. ASSUME NEW r \in Request, AuthorizeStore(r) PROVE Goal
  <2>0. UNCHANGED <<grant, expiry, stored, sess>>
    BY <1>2 DEF AuthorizeStore
  <2>1. CASE Reply(r)
    BY <2>0, <2>1, <1>r
  <2>2. CASE req' = [req EXCEPT ![r].pc = "set", ![r].ttl = expiry[req[r].code]]
    <3>1. /\ req[r].pc = "store" /\ req'[r].pc = "set" /\ req'[r].code = req[r].code
          /\ \A q \in Request \ {r} : req'[q] = req[q]
      BY <1>2, <1>t, <2>2 DEF AuthorizeStore, TypeOK, ReqType
    <3>2. \A q \in Request, c \in Code :
            (Carries(q, c)' => Carries(q, c)) /\ (Redeems(q, c)' => Redeems(q, c))
      BY <3>1 DEF Carries, Redeems
    <3> QED BY <2>0, <3>2, NoneUsable, VoidStep
  <2> QED BY <1>2, <2>1, <2>2 DEF AuthorizeStore
<1>8. ASSUME NEW r \in Request, AuthorizeSet(r) PROVE Goal
  <2>1. req'[r].pc = "idle" /\ \A q \in Request \ {r} : req'[q] = req[q]
    BY <1>8, <1>t, RequestMoves, Nothing DEF AuthorizeSet
  <2>2. Carries(r, req[r].code)
    BY <1>8 DEF AuthorizeSet, Carries
  <2>3. \A c \in Code : stored'[c] > 0 => stored[c] > 0 \/ \E q \in Request : Carries(q, c)
    BY <1>8, <1>t, <2>2 DEF AuthorizeSet, TypeOK
  <2>4. \A q \in Request, c \in Code :
          (Carries(q, c)' => Carries(q, c)) /\ (Redeems(q, c)' => Redeems(q, c))
    BY <2>1 DEF Carries, Redeems
  <2>5. UNCHANGED <<grant, expiry, sess>>
    BY <1>8 DEF AuthorizeSet
  <2> QED BY <2>3, <2>4, <2>5, NoneUsable, VoidStep
<1>3. ASSUME NEW r \in Request, NEW x \in Exchanges, NEW k, NEW c \in Code,
             TokenConsume(r, x, k, c)
      PROVE  Goal
  <2>1. stored[c] > 0 /\ UNCHANGED <<grant, expiry, sess>>
    BY <1>3 DEF TokenConsume, Consume
  <2>2. \A d \in Code : stored'[d] > 0 => stored[d] > 0
    BY <1>3, <1>t DEF TokenConsume, Consume, TypeOK
  <2>3. CASE UNCHANGED req
    BY <2>1, <2>2, <2>3, NoneUsable, VoidStep DEF Carries, Redeems
  <2>4. CASE expiry[c] > 0 /\ req'[r].code = c /\ \A q \in Request \ {r} : req'[q] = req[q]
    <3>1. c \in Usable
      BY <2>1, <2>4 DEF Usable
    <3>2. \A q \in Request, d \in Code \ {c} :
            (Carries(q, d)' => Carries(q, d)) /\ (Redeems(q, d)' => Redeems(q, d))
      BY <2>4 DEF Carries, Redeems
    <3>3. \A d \in Code \ {c} : d \in Usable' => d \in Usable
      BY <2>1, <2>2, <3>2 DEF Usable
    <3>4. Usable' \subseteq Usable
      BY <3>1, <3>3 DEF Usable
    <3> QED BY <2>1, <3>4, VoidStep
  <2> QED BY <1>3, <1>t, <2>3, <2>4 DEF TokenConsume, TypeOK
<1>4. ASSUME NEW r \in Request, NEW s \in SessionId, TokenCreate(r, s) PROVE Goal
  <2>1. PICK c \in Code : c = req[r].code
    BY <1>4 DEF TokenCreate, Inv, CodeInv, PointerInv
  <2>2. /\ Carries(r, c) /\ stored[c] = 0 /\ \A q \in Request : Carries(q, c) => q = r
        /\ sess[s] = NoRow /\ UNCHANGED <<grant, expiry, stored>> /\ req[r].pc = "opening"
    BY <1>4, <2>1 DEF TokenCreate, Carries, Inv, CodeInv, PlaceInv
  <2>3. /\ req'[r].pc = "issue" /\ \A q \in Request \ {r} : req'[q] = req[q]
    BY <1>4, <1>t DEF TokenCreate, TypeOK
  <2>4. \A q \in Request, d \in Code :
          /\ Carries(q, d)' <=> d # c /\ Carries(q, d)
          /\ Redeems(q, d)' <=> d # c /\ Redeems(q, d)
    BY <2>1, <2>2, <2>3 DEF Carries, Redeems
  <2>5. c \in Usable /\ Usable' = Usable \ {c}
    <3>1. c \in Usable
      BY <2>1, <2>2 DEF Usable, Redeems
    <3>2. c \notin Usable'
      BY <1>t, <2>2, <2>4 DEF Usable
    <3>3. \A d \in Code \ {c} : d \in Usable' <=> d \in Usable
      BY <2>2, <2>4 DEF Usable
    <3> QED BY <3>1, <3>2, <3>3 DEF Usable
  <2>6. /\ sess'[s] = [code |-> c, who |-> grant[c].who]
        /\ \A t \in SessionId \ {s} : sess'[t] = sess[t]
    BY <1>4, <1>t, <2>1 DEF TokenCreate, TypeOK
  <2>7. /\ sess'[s].code = c /\ sess'[s].who = grant[c].who /\ sess'[s] # NoRow
    BY <2>6, Nothing
  <2>8. Opened' = Opened \cup {[sid |-> s, ticket |-> c, who |-> Holds[c]]}
    <3>1. {x \in SessionId : sess'[x] # NoRow} = {x \in SessionId : sess[x] # NoRow} \cup {s}
      BY <2>2, <2>6, <2>7
    <3>2. \A x \in {y \in SessionId : sess[y] # NoRow} : sess'[x] = sess[x]
      BY <2>2, <2>6
    <3>3. Holds[c] = grant[c].who
      BY DEF Holds
    <3> QED BY <2>7, <3>1, <3>2, <3>3 DEF Opened
  <2>9. Holds' = Holds
    BY <2>2 DEF Holds
  <2>10. Once!Redeem(c, s)
    BY <2>5, <2>8, <2>9 DEF Once!Redeem, Usable, Opened, Holds
  <2> QED BY <2>10 DEF Once!Next
<1>5. ASSUME NEW r \in Request, TokenIssue(r) \/ IssueIDToken(r) \/ Abort(r) PROVE Goal
  <2>1. CASE Reply(r)
    BY <1>5, <2>1, <1>r DEF TokenIssue, IssueIDToken, Abort
  <2>2. CASE req[r].pc = "issue" /\ req' = [req EXCEPT ![r].pc = "idtoken"]
    <3>1. \A q \in Request, c \in Code :
            (Carries(q, c)' => Carries(q, c)) /\ (Redeems(q, c)' => Redeems(q, c))
      BY <1>t, <2>2 DEF Carries, Redeems, TypeOK, ReqType
    <3>2. UNCHANGED <<grant, expiry, stored, sess>>
      BY <1>5 DEF TokenIssue, IssueIDToken, Abort
    <3> QED BY <3>1, <3>2, NoneUsable, VoidStep
  <2> QED BY <1>5, <2>1, <2>2 DEF TokenIssue, IssueIDToken, Abort, Answer
<1>6. ASSUME Tick PROVE Goal
  <2>1. \A c \in Code : (stored'[c] > 0 => stored[c] > 0) /\ (expiry'[c] > 0 => expiry[c] > 0)
    <3>1. \A c \in Code : stored[c] \in 0..CodeTTL /\ expiry[c] \in 0..CodeTTL
      BY <1>t DEF TypeOK
    <3> QED BY <1>6, <3>1, DecFacts DEF Tick
  <2> QED BY <1>6, <2>1, NoneUsable, VoidStep DEF Tick, Carries, Redeems
<1>7. ASSUME UNCHANGED vars PROVE Goal
  BY <1>7, NoneUsable, VoidStep DEF vars, Carries, Redeems
<1> QED BY <1>1, <1>2, <1>3, <1>4, <1>5, <1>6, <1>7, <1>8
        DEF Next, HandleAuthorize, HandleToken

\* The initial states of OAuthCode are initial states of OneShot.
LEMMA RefinementInit == Init => Once!Init
<1> SUFFICES ASSUME Init PROVE Once!Init
  OBVIOUS
<1>1. Usable = {}
  BY Nothing DEF Init, Usable, Carries, Redeems
<1>2. Opened = {}
  BY DEF Init, Opened
<1>3. Holds = [c \in Code |-> None]
  BY Nothing DEF Init, Holds
<1> QED BY <1>1, <1>2, <1>3 DEF Once!Init, Usable, Opened, Holds

\* Authorization codes are one-time tickets, void from ExpiresAt on, for any
\* number of codes and concurrent exchanges and with calls slow or failing at any
\* point (code_store.go:30-39, token.go:107-113).
THEOREM Refinement == Spec => RefinesOneShot
<1> QED
  BY Invariance, RefinementInit, RefinementStep, PTL DEF Spec, RefinesOneShot, Once!Spec

-----------------------------------------------------------------------------
\* What is served or handed out in a step that takes nothing back.
LEMMA AccountKept ==
    ASSUME ExchangesAccountedFor, NEW c \in Code, exch'[c] = exch[c], lost \subseteq lost',
           \A r \in Request : Serves(r, c) =>
              c \in lost' \/ Serves(r, c)' \/ \E s \in SessionId : sess'[s].code = c /\ tok'[s] # NoTok,
           \A s \in SessionId : sess[s].code = c /\ tok[s] # NoTok =>
              sess'[s].code = c /\ tok'[s] # NoTok
    PROVE  exch'[c] # NoExch =>
             \/ c \in lost'
             \/ \E r \in Request : Serves(r, c)'
             \/ \E s \in SessionId : sess'[s].code = c /\ tok'[s] # NoTok
  BY DEF ExchangesAccountedFor

\* The answer of a request hands out the tokens for its code.
LEMMA AnswerDelivers ==
    ASSUME Inv, NEW r \in Request, req[r].pc \in {"issue", "idtoken"}, NEW x, Answer(r, x)
    PROVE  /\ req[r].sid \in SessionId /\ sess[req[r].sid].code = req[r].code
           /\ tok'[req[r].sid] # NoTok
           /\ \A s \in SessionId \ {req[r].sid} : tok'[s] = tok[s]
<1>0. TypeOK /\ PointerInv
  BY DEF Inv, CodeInv
<1> DEFINE c == req[r].code
           s == req[r].sid
<1>1. c \in Code /\ s \in SessionId /\ sess[s].code = c
  BY <1>0 DEF PointerInv
<1>2. sess[s] # NoRow
  BY <1>0, <1>1, RowCode, OAuthAssumption
<1>3. exch[c] \in Exchanges
  BY <1>0, <1>1, <1>2 DEF PointerInv, TypeOK
<1>4. exch[c].client # None
  BY <1>3, OAuthAssumption DEF Exchanges
<1>5. /\ tok'[s].aud = exch[c].client
      /\ \A t \in SessionId \ {s} : tok'[t] = tok[t]
  BY <1>0, <1>1 DEF Answer, TypeOK
<1> QED BY <1>1, <1>4, <1>5 DEF NoTok

\* No step drops an accepted exchange.
LEMMA AccountStep ==
    Inv /\ ExchangesAccountedFor /\ [Next]_vars => ExchangesAccountedFor'
<1> SUFFICES ASSUME Inv, ExchangesAccountedFor, [Next]_vars, NEW c \in Code
             PROVE  (exch[c] # NoExch =>
                       \/ c \in lost
                       \/ \E r \in Request : Serves(r, c)
                       \/ \E s \in SessionId : sess[s].code = c /\ tok[s] # NoTok)'
  BY DEF ExchangesAccountedFor
<1> DEFINE Goal == exch'[c] # NoExch =>
                      \/ c \in lost'
                      \/ \E r \in Request : Serves(r, c)'
                      \/ \E s \in SessionId : sess'[s].code = c /\ tok'[s] # NoTok
<1>0. TypeOK /\ req \in [Request -> ReqType] /\ sess \in [SessionId -> [code : Code \cup {None}, who : Identity \cup {None}]]
  BY DEF Inv, TypeOK
<1>1. ASSUME UNCHANGED <<exch, sess, tok>>, lost' = lost,
             \A r \in Request : Serves(r, c) => Serves(r, c)'
      PROVE  Goal
  BY <1>1, AccountKept
<1>2. CASE UNCHANGED vars
  BY <1>1, <1>2 DEF vars, Serves
<1>3. ASSUME NEW r \in Request, NEW i, NEW g, NEW d \in Code, Authorize(r, i, g, d) PROVE Goal
  BY <1>0, <1>1, <1>3 DEF Authorize, Serves
<1>4. ASSUME NEW r \in Request, AuthorizeStore(r) \/ AuthorizeSet(r) PROVE Goal
  <2>1. CASE Reply(r)
    BY <1>0, <1>1, <1>4, <2>1 DEF AuthorizeStore, AuthorizeSet, Reply, Serves
  <2>2. CASE req' = [req EXCEPT ![r].pc = "set", ![r].ttl = expiry[req[r].code]]
    BY <1>0, <1>1, <1>4, <2>2 DEF AuthorizeStore, AuthorizeSet, Serves
  <2> QED BY <1>4, <2>1, <2>2 DEF AuthorizeStore, AuthorizeSet
<1>5. ASSUME NEW r \in Request, NEW x, NEW k, NEW d \in Code, TokenConsume(r, x, k, d) PROVE Goal
  <2>1. CASE UNCHANGED <<exch, req>>
    BY <1>1, <1>5, <2>1 DEF TokenConsume, Serves
  <2>2. CASE /\ exch' = [exch EXCEPT ![d] = x]
             /\ req' = [req EXCEPT ![r] = [pc |-> "opening", code |-> d, sid |-> None, ttl |-> 0]]
    <3>1. CASE c = d
      BY <1>0, <2>2, <3>1 DEF Serves
    <3>2. CASE c # d
      <4>1. exch'[c] = exch[c] /\ UNCHANGED <<sess, tok, lost>> /\ req[r].pc = "idle"
        BY <1>0, <1>5, <2>2, <3>2 DEF TokenConsume, TypeOK
      <4>2. \A q \in Request : Serves(q, c) => Serves(q, c)'
        BY <1>0, <2>2, <4>1 DEF Serves
      <4> QED BY <4>1, <4>2, AccountKept
    <3> QED BY <3>1, <3>2
  <2> QED BY <1>5, <2>1, <2>2 DEF TokenConsume
<1>6. ASSUME NEW r \in Request, NEW s \in SessionId, TokenCreate(r, s) PROVE Goal
  <2>1. /\ UNCHANGED <<exch, tok, lost>> /\ req[r].pc = "opening" /\ sess[s] = NoRow
        /\ req' = [req EXCEPT ![r] = [pc |-> "issue", code |-> req[r].code, sid |-> s, ttl |-> 0]]
        /\ sess' = [sess EXCEPT ![s] = [code |-> req[r].code, who |-> grant[req[r].code].who]]
    BY <1>6 DEF TokenCreate
  <2>2. \A q \in Request : Serves(q, c) => Serves(q, c)'
    BY <1>0, <2>1 DEF Serves
  <2>3. \A t \in SessionId : sess[t].code = c => sess'[t].code = c
    <3>1. sess[s].code # c
      BY <2>1, Nothing, OAuthAssumption
    <3> QED BY <1>0, <2>1, <3>1
  <2> QED BY <2>1, <2>2, <2>3, AccountKept
<1>7. ASSUME NEW r \in Request, NEW x, req[r].pc \in {"issue", "idtoken"}, Answer(r, x),
             UNCHANGED <<exch, sess, lost>>
      PROVE  Goal
  <2>1. \A q \in Request : Serves(q, c) =>
           Serves(q, c)' \/ \E s \in SessionId : sess'[s].code = c /\ tok'[s] # NoTok
    <3>1. \A q \in Request \ {r} : Serves(q, c) => Serves(q, c)'
      BY <1>0, <1>7 DEF Answer, Reply, Serves
    <3>2. Serves(r, c) => \E s \in SessionId : sess'[s].code = c /\ tok'[s] # NoTok
      BY <1>7, AnswerDelivers DEF Serves
    <3> QED BY <3>1, <3>2
  <2>2. \A s \in SessionId : tok[s] # NoTok => tok'[s] # NoTok
    BY <1>7, AnswerDelivers
  <2> QED BY <1>7, <2>1, <2>2, AccountKept
<1>8. ASSUME NEW r \in Request, TokenIssue(r) PROVE Goal
  <2>1. CASE req' = [req EXCEPT ![r].pc = "idtoken"] /\ UNCHANGED tok
    <3>1. \A q \in Request : Serves(q, c) => Serves(q, c)'
      BY <1>0, <2>1 DEF Serves, ReqType
    <3> QED BY <1>1, <1>8, <2>1, <3>1 DEF TokenIssue
  <2>2. CASE Answer(r, None)
    BY <1>7, <1>8, <2>2 DEF TokenIssue
  <2> QED BY <1>8, <2>1, <2>2 DEF TokenIssue
<1>9. ASSUME NEW r \in Request, IssueIDToken(r) PROVE Goal
  BY <1>7, <1>9 DEF IssueIDToken
<1>10. ASSUME NEW r \in Request, Abort(r) PROVE Goal
  <2>1. UNCHANGED <<exch, sess, tok>> /\ lost' = lost \cup {req[r].code} /\ Reply(r)
    BY <1>10 DEF Abort
  <2>2. \A q \in Request : Serves(q, c) => c \in lost' \/ Serves(q, c)'
    BY <1>0, <2>1 DEF Reply, Serves
  <2> QED BY <2>1, <2>2, AccountKept
<1>11. CASE Tick
  BY <1>1, <1>11 DEF Tick, Serves
<1>12. Goal
  BY <1>2, <1>3, <1>4, <1>5, <1>6, <1>8, <1>9, <1>10, <1>11 DEF Next, HandleAuthorize, HandleToken
<1> QED BY <1>12

\* No accepted exchange is dropped in silence, for any number of codes and
\* requests: the safety half of AcceptedExchangeDelivers (token.go:107-193).
THEOREM Delivery == Spec => []ExchangesAccountedFor
<1>1. Init => ExchangesAccountedFor
  BY DEF Init, ExchangesAccountedFor
<1> QED BY Invariance, <1>1, AccountStep, PTL DEF Spec

\* Types and code invariant together, for every set of clients, codes and
\* requests (token.go, code_store.go).
THEOREM Inductive == Spec => []IInv
  BY Invariance, Delivery, PTL DEF IInv, Inv

=============================================================================
