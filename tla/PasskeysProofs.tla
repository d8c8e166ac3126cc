--------------------------- MODULE PasskeysProofs ---------------------------
(***************************************************************************)
(* Proofs about Passkeys for every number of identities, ceremonies,       *)
(* passkeys, sessions and concurrent requests.                             *)
(*                                                                         *)
(* Inv is inductive.  Each action is shown to keep it, with one step per   *)
(* conjunct that the action can disturb.                                   *)
(***************************************************************************)
EXTENDS Passkeys, TLAPS

Inv == /\ TypeOK /\ PasskeyInv
       /\ OneOutcomePerCeremony /\ SessionsOpenForOwner /\ HandlesAreOwners

\* What the answer to a request leaves behind.
LEMMA ReplyFacts ==
    ASSUME TypeOK, NEW r \in Request, Reply(r)
    PROVE  /\ req' \in [Request -> ReqType]
           /\ req'[r] = Idle /\ req'[r].pc = "idle"
           /\ \A q \in Request \ {r} : req'[q] = req[q]
  BY PasskeyAssumption DEF Reply, TypeOK, ReqType, Idle

\* A request that is replaced by t, the others standing still.
LEMMA MoveFacts ==
    ASSUME TypeOK, NEW r \in Request, NEW t \in ReqType, req' = [req EXCEPT ![r] = t]
    PROVE  /\ req' \in [Request -> ReqType] /\ req'[r] = t
           /\ \A q \in Request \ {r} : req'[q] = req[q]
  BY DEF TypeOK

\* The conjuncts that are only about the rows, the sessions and the ceremonies.
LEMMA DurableKept ==
    ASSUME Inv, UNCHANGED <<ceremony, row, sess, borrowed>>,
           \A k \in Key : signer[k] # None => signer'[k] = signer[k]
    PROVE  RowInv' /\ OneOutcomePerCeremony' /\ SessionsOpenForOwner' /\ HandlesAreOwners'
<1>1. RowInv /\ OneOutcomePerCeremony /\ SessionsOpenForOwner /\ HandlesAreOwners
  BY DEF Inv, PasskeyInv
<1>2. RowInv'
  BY <1>1, PasskeyAssumption DEF RowInv
<1>3. OneOutcomePerCeremony' /\ HandlesAreOwners'
  BY <1>1 DEF OneOutcomePerCeremony, HandlesAreOwners
<1>4. SessionsOpenForOwner'
  BY <1>1, PasskeyAssumption DEF SessionsOpenForOwner, RowInv
<1> QED BY <1>2, <1>3, <1>4

\* A request ends and nothing else happens.
LEMMA ReplyStep ==
    ASSUME Inv, NEW r \in Request, Reply(r),
           UNCHANGED <<ttl, ceremony, device, row, sess, borrowed, overlap>>
    PROVE  Inv'
<1>0. TypeOK /\ PasskeyInv
  BY DEF Inv
<1>1. /\ req' \in [Request -> ReqType] /\ req'[r].pc = "idle"
      /\ \A q \in Request \ {r} : req'[q] = req[q]
  BY <1>0, ReplyFacts
<1>2. TypeOK'
  BY <1>0, <1>1 DEF TypeOK, device
<1>3. \A q \in Request, k \in Key : Carries(q, k)' => Carries(q, k)
  BY <1>1 DEF Carries
<1>4. PlaceInv'
  BY <1>0, <1>1, <1>3 DEF PasskeyInv, PlaceInv
<1>5. SpentInv'
  BY <1>0, <1>3 DEF PasskeyInv, SpentInv
<1>6. PathInv' /\ HandleInv'
  BY <1>0, <1>1 DEF PasskeyInv, PathInv, HandleInv, device
<1>7. CountInv'
  BY <1>0, <1>1 DEF PasskeyInv, CountInv, Verified, device
<1> QED BY <1>2, <1>4, <1>5, <1>6, <1>7, DurableKept DEF Inv, PasskeyInv, device

-----------------------------------------------------------------------------
(* Begin *)

\* BeginRegistration picks an unused key, which nothing refers to.
LEMMA BeginRegistrationStep ==
    ASSUME Inv, NEW r \in Request, NEW i \in Identity, NEW k \in Key,
           BeginRegistration(r, i, k)
    PROVE  Inv'
<1>0. TypeOK /\ PasskeyInv /\ HandlesAreOwners
  BY DEF Inv
<1>h. PICK h \in Identity :
        /\ \/ ListByIdentity(i) = {} /\ h = i
           \/ \E c \in ListByIdentity(i) : h = row[c].handle
        /\ ceremony' = [ceremony EXCEPT ![k] = [kind |-> "register", by |-> i, handle |-> h]]
  BY DEF BeginRegistration
<1> DEFINE t == [pc |-> "store", who |-> i, key |-> k, n |-> 0]
           m == [kind |-> "register", by |-> i, handle |-> h]
<1>t. /\ t \in ReqType /\ t.pc = "store" /\ t.who = i /\ t.key = k
      /\ m \in CeremonyType /\ m.kind = "register" /\ m.by = i /\ m.handle = h
      /\ m # NoCeremony
  BY PasskeyAssumption DEF ReqType, CeremonyType, NoCeremony
<1>a. req' = [req EXCEPT ![r] = t] /\ ceremony' = [ceremony EXCEPT ![k] = m]
  BY <1>h DEF BeginRegistration
<1> HIDE DEF t, m
<1>1. /\ req' \in [Request -> ReqType] /\ req'[r] = t
      /\ \A q \in Request \ {r} : req'[q] = req[q]
  BY <1>0, <1>t, <1>a, MoveFacts
<1>2. /\ ceremony' \in [Key -> CeremonyType] /\ ceremony'[k] = m
      /\ \A l \in Key \ {k} : ceremony'[l] = ceremony[l]
  BY <1>0, <1>t, <1>a DEF TypeOK
<1>3. /\ req[r].pc = "idle" /\ ceremony[k] = NoCeremony
      /\ UNCHANGED <<ttl, device, row, sess, borrowed, overlap>>
      /\ UNCHANGED <<home, counter, signer, asserted>>
  BY DEF BeginRegistration, device
<1>4. TypeOK'
  BY <1>0, <1>1, <1>2, <1>3 DEF TypeOK
<1>5. /\ ttl[k] = 0 /\ \A q \in Request : ~Carries(q, k)
      /\ \A c \in Cred : row[c].key # k
      /\ \A s \in SessionId : sess[s].key # k
  BY <1>0, <1>3 DEF PasskeyInv, PlaceInv, SpentInv, TypeOK
<1>6. \A q \in Request, l \in Key : Carries(q, l)' <=> Carries(q, l) \/ (q = r /\ l = k)
  BY <1>1, <1>3, <1>t DEF Carries
<1>7. PlaceInv'
  BY <1>0, <1>1, <1>2, <1>3, <1>5, <1>6, <1>t DEF PasskeyInv, PlaceInv
<1>8. SpentInv'
  BY <1>0, <1>2, <1>3, <1>5, <1>6 DEF PasskeyInv, SpentInv
<1>k. \A q \in Request \ {r} : req[q].pc # "idle" => req[q].key \in Key /\ req[q].key # k
  BY <1>0, <1>5 DEF PasskeyInv, PlaceInv, Carries
<1>9. PathInv'
  BY <1>0, <1>1, <1>2, <1>3, <1>k, <1>t DEF PasskeyInv, PathInv
<1>10. HandleInv'
  <2>1. h # i => i \in borrowed
    BY <1>0, <1>h DEF ListByIdentity, HandlesAreOwners
  <2>2. \A l \in Key : ceremony'[l].kind = "register" =>
          /\ ceremony'[l].by \in Identity /\ ceremony'[l].handle \in Identity
          /\ ceremony'[l].handle # ceremony'[l].by => ceremony'[l].by \in borrowed'
    BY <1>0, <1>2, <1>3, <1>t, <2>1 DEF PasskeyInv, HandleInv
  <2>3. \A q \in Request : req'[q].pc \in {"list", "insert"} =>
          req'[q].who = ceremony'[req'[q].key].by \/ req'[q].who \in borrowed'
    BY <1>0, <1>1, <1>2, <1>3, <1>k, <1>t DEF PasskeyInv, HandleInv
  <2> QED BY <2>2, <2>3 DEF HandleInv
<1>11. CountInv'
  <2>1. \A c \in Cred : Verified(c)' = Verified(c)
    BY <1>1, <1>3, <1>t DEF Verified
  <2>2. \A c \in Cred : \A q \in Verified(c) : req'[q] = req[q]
    BY <1>1, <1>3 DEF Verified
  <2> QED BY <1>0, <1>3, <2>1, <2>2 DEF PasskeyInv, CountInv
<1>12. RowInv'
  BY <1>0, <1>2, <1>3, <1>5 DEF PasskeyInv, RowInv
<1>13. OneOutcomePerCeremony' /\ SessionsOpenForOwner' /\ HandlesAreOwners'
  BY <1>3 DEF Inv, OneOutcomePerCeremony, SessionsOpenForOwner, HandlesAreOwners
<1> QED
  BY <1>4, <1>7, <1>8, <1>9, <1>10, <1>11, <1>12, <1>13 DEF Inv, PasskeyInv

\* The challenge moves from the request into Redis.
LEMMA StoreStep ==
    ASSUME Inv, NEW r \in Request, Store(r)
    PROVE  Inv'
<1>0. TypeOK /\ PasskeyInv
  BY DEF Inv
<1> DEFINE k == req[r].key
<1>1. /\ req' \in [Request -> ReqType] /\ req'[r].pc = "idle"
      /\ \A q \in Request \ {r} : req'[q] = req[q]
  BY <1>0, ReplyFacts DEF Store
<1>2. req[r].pc = "store" /\ k \in Key
  BY <1>0 DEF Store, PasskeyInv, PlaceInv
<1>3. /\ ttl' \in [Key -> 0..SessionTTL] /\ ttl'[k] > 0
      /\ \A l \in Key \ {k} : ttl'[l] = ttl[l]
      /\ UNCHANGED <<ceremony, row, sess, borrowed, overlap>>
      /\ UNCHANGED <<home, counter, signer, asserted>>
  BY <1>0, <1>2, PasskeyAssumption DEF Store, TypeOK, device
<1>4. TypeOK'
  BY <1>0, <1>1, <1>3 DEF TypeOK
<1>5. Carries(r, k)
  BY <1>2 DEF Carries
<1> HIDE DEF k
<1>6. \A q \in Request, l \in Key : Carries(q, l)' <=> Carries(q, l) /\ q # r
  BY <1>1 DEF Carries
<1>7. PlaceInv'
  BY <1>0, <1>1, <1>2, <1>3, <1>5, <1>6 DEF PasskeyInv, PlaceInv
<1>8. SpentInv'
  BY <1>0, <1>2, <1>3, <1>5, <1>6 DEF PasskeyInv, SpentInv
<1>9. PathInv' /\ HandleInv'
  BY <1>0, <1>1, <1>3 DEF PasskeyInv, PathInv, HandleInv
<1>10. CountInv'
  BY <1>0, <1>1, <1>3 DEF PasskeyInv, CountInv, Verified
<1> QED
  BY <1>3, <1>4, <1>7, <1>8, <1>9, <1>10, DurableKept DEF Inv, PasskeyInv

\* BeginLogin takes an unused key as well, and stores its challenge at once.
LEMMA BeginLoginStep ==
    ASSUME Inv, NEW k \in Key, BeginLogin(k)
    PROVE  Inv'
<1>0. TypeOK /\ PasskeyInv
  BY DEF Inv
<1> DEFINE m == [kind |-> "login", by |-> None, handle |-> None]
<1>1. m \in CeremonyType /\ m.kind = "login" /\ m # NoCeremony
  BY DEF CeremonyType, NoCeremony
<1>2. ceremony' = [ceremony EXCEPT ![k] = m]
  BY DEF BeginLogin
<1> HIDE DEF m
<1>3. /\ ceremony' \in [Key -> CeremonyType] /\ ceremony'[k] = m
      /\ \A l \in Key \ {k} : ceremony'[l] = ceremony[l]
  BY <1>0, <1>1, <1>2 DEF TypeOK
<1>4. /\ ttl' \in [Key -> 0..SessionTTL] /\ ttl'[k] > 0
      /\ \A l \in Key \ {k} : ttl'[l] = ttl[l]
  BY <1>0, PasskeyAssumption DEF BeginLogin, TypeOK
<1>5. /\ ceremony[k] = NoCeremony /\ UNCHANGED <<row, sess, req, borrowed, overlap>>
      /\ UNCHANGED <<home, counter, signer, asserted>>
  BY DEF BeginLogin, device
<1>6. TypeOK'
  BY <1>0, <1>3, <1>4, <1>5 DEF TypeOK
<1>7. /\ \A q \in Request : ~Carries(q, k)
      /\ \A c \in Cred : row[c].key # k
      /\ \A s \in SessionId : sess[s].key # k
  BY <1>0, <1>5 DEF PasskeyInv, PlaceInv, SpentInv
<1>8. \A q \in Request, l \in Key : Carries(q, l)' <=> Carries(q, l)
  BY <1>5 DEF Carries
<1>9. PlaceInv'
  BY <1>0, <1>1, <1>3, <1>4, <1>5, <1>7, <1>8 DEF PasskeyInv, PlaceInv
<1>10. SpentInv'
  BY <1>0, <1>3, <1>4, <1>5, <1>7, <1>8 DEF PasskeyInv, SpentInv
<1>11. \A q \in Request : req[q].pc # "idle" => req[q].key \in Key /\ req[q].key # k
  BY <1>0, <1>7 DEF PasskeyInv, PlaceInv, Carries
<1>12. PathInv' /\ HandleInv'
  BY <1>0, <1>1, <1>3, <1>5, <1>11 DEF PasskeyInv, PathInv, HandleInv
<1>13. CountInv'
  BY <1>0, <1>5 DEF PasskeyInv, CountInv, Verified
<1>14. RowInv'
  BY <1>0, <1>3, <1>5, <1>7 DEF PasskeyInv, RowInv
<1>15. OneOutcomePerCeremony' /\ SessionsOpenForOwner' /\ HandlesAreOwners'
  BY <1>5 DEF Inv, OneOutcomePerCeremony, SessionsOpenForOwner, HandlesAreOwners
<1> QED
  BY <1>6, <1>9, <1>10, <1>12, <1>13, <1>14, <1>15 DEF Inv, PasskeyInv

-----------------------------------------------------------------------------
(* Authenticators *)

\* An authenticator answers a challenge that is still in Redis, so no request
\* has taken it.
LEMMA AnswerStep ==
    ASSUME Inv, TypeOK', NEW k \in Key, NEW c \in Cred, ttl[k] > 0, signer[k] = None,
           signer' = [signer EXCEPT ![k] = c],
           UNCHANGED <<ttl, ceremony, row, sess, req, borrowed, overlap>>
    PROVE  Inv'
<1>0. TypeOK /\ PasskeyInv
  BY DEF Inv
<1>1. signer'[k] = c /\ \A l \in Key \ {k} : signer'[l] = signer[l]
  BY <1>0 DEF TypeOK
<1>2. \A q \in Request : req[q].pc # "idle" => req[q].key \in Key /\ req[q].key # k
  BY <1>0 DEF PasskeyInv, PlaceInv, Carries
<1>3. PlaceInv' /\ SpentInv'
  BY <1>0 DEF PasskeyInv, PlaceInv, SpentInv, Carries
<1>4. PathInv' /\ HandleInv'
  BY <1>0, <1>1, <1>2 DEF PasskeyInv, PathInv, HandleInv
<1>5. CountInv'
  <2>1. \A d \in Cred : Verified(d)' = Verified(d)
    BY <1>1, <1>2 DEF Verified
  <2> QED BY <1>0, <2>1 DEF PasskeyInv, CountInv
<1>6. \A l \in Key : signer[l] # None => signer'[l] = signer[l]
  BY <1>1
<1> QED BY <1>3, <1>4, <1>5, <1>6, DurableKept DEF Inv, PasskeyInv

\* MakeCredential is such an answer.
LEMMA MakeCredentialStep ==
    ASSUME Inv, NEW k \in Key, NEW c \in Cred, MakeCredential(k, c)
    PROVE  Inv'
<1>1. TypeOK'
  <2>1. ceremony[k].handle \in Identity \cup {None}
    BY DEF Inv, TypeOK, CeremonyType
  <2>2. counter' \in [Cred -> 0..MaxCount] /\ asserted' \in [Key -> 0..MaxCount]
    BY PasskeyAssumption DEF MakeCredential, Inv, TypeOK
  <2> QED BY <2>1, <2>2 DEF MakeCredential, Inv, TypeOK
<1> QED BY <1>1, AnswerStep DEF MakeCredential

\* So is GetAssertion.
LEMMA GetAssertionStep ==
    ASSUME Inv, NEW k \in Key, NEW c \in Cred, GetAssertion(k, c)
    PROVE  Inv'
<1>1. TypeOK
  BY DEF Inv
<1>2. counter' \in [Cred -> 0..MaxCount]
  BY <1>1, PasskeyAssumption DEF GetAssertion, TypeOK
<1>3. asserted' \in [Key -> 0..MaxCount] /\ signer' \in [Key -> Cred \cup {None}]
  BY <1>1, <1>2 DEF GetAssertion, TypeOK
<1>4. TypeOK'
  BY <1>1, <1>2, <1>3 DEF GetAssertion, TypeOK
<1> QED BY <1>4, AnswerStep DEF GetAssertion

-----------------------------------------------------------------------------
(* Complete *)

\* A request takes the challenge of k out of Redis and carries it as t.
LEMMA ConsumeStep ==
    ASSUME Inv, NEW r \in Request, NEW k \in Key, NEW t \in ReqType,
           req[r].pc = "idle", Consume(k), req' = [req EXCEPT ![r] = t],
           t.key = k, t.pc \in {"list", "load"},
           t.pc = "list" => t.who \in Identity,
           t.pc = "list" => t.who = ceremony[k].by \/ t.who \in borrowed',
           borrowed \subseteq borrowed', borrowed' \subseteq Identity,
           UNCHANGED <<ceremony, device, row, sess, overlap>>
    PROVE  Inv'
<1>0. TypeOK /\ PasskeyInv
  BY DEF Inv
<1>1. /\ req' \in [Request -> ReqType] /\ req'[r] = t
      /\ \A q \in Request \ {r} : req'[q] = req[q]
  BY <1>0, MoveFacts
<1>2. /\ ttl[k] > 0 /\ ttl' \in [Key -> 0..SessionTTL] /\ ttl'[k] = 0
      /\ \A l \in Key \ {k} : ttl'[l] = ttl[l]
  BY <1>0, PasskeyAssumption DEF Consume, TypeOK
<1>3. UNCHANGED <<home, counter, signer, asserted>>
  BY DEF device
<1>4. TypeOK'
  BY <1>0, <1>1, <1>2, <1>3 DEF TypeOK
<1>5. \A q \in Request, l \in Key : Carries(q, l)' <=> Carries(q, l) \/ (q = r /\ l = k)
  BY <1>1 DEF Carries
<1>6. /\ ceremony[k] # NoCeremony /\ \A q \in Request : ~Carries(q, k)
      /\ \A c \in Cred : row[c].key # k
      /\ \A s \in SessionId : sess[s].key # k
  BY <1>0, <1>2 DEF PasskeyInv, PlaceInv, SpentInv
<1>7. PlaceInv'
  BY <1>0, <1>1, <1>2, <1>5, <1>6 DEF PasskeyInv, PlaceInv
<1>8. SpentInv'
  BY <1>0, <1>2, <1>5, <1>6 DEF PasskeyInv, SpentInv
<1>9. PathInv'
  BY <1>0, <1>1, <1>3 DEF PasskeyInv, PathInv
<1>10. HandleInv'
  BY <1>0, <1>1 DEF PasskeyInv, HandleInv
<1>11. CountInv'
  BY <1>0, <1>1, <1>3 DEF PasskeyInv, CountInv, Verified
<1>12. RowInv' /\ OneOutcomePerCeremony' /\ SessionsOpenForOwner' /\ HandlesAreOwners'
  BY <1>0, <1>3 DEF Inv, PasskeyInv, RowInv, OneOutcomePerCeremony, SessionsOpenForOwner,
                    HandlesAreOwners
<1> QED
  BY <1>4, <1>7, <1>8, <1>9, <1>10, <1>11, <1>12 DEF Inv, PasskeyInv

\* RegisterConsume notes whether the ceremony was the identity's own.
LEMMA RegisterConsumeStep ==
    ASSUME Inv, NEW r \in Request, NEW i \in Identity, NEW k \in Key,
           RegisterConsume(r, i, k)
    PROVE  Inv'
<1> DEFINE t == [pc |-> "list", who |-> i, key |-> k, n |-> 0]
<1>1. t \in ReqType /\ t.pc = "list" /\ t.who = i /\ t.key = k
  BY PasskeyAssumption DEF ReqType
<1>2. req' = [req EXCEPT ![r] = t]
  BY DEF RegisterConsume
<1> HIDE DEF t
<1>3. borrowed \subseteq Identity
  BY DEF Inv, TypeOK
<1>4. /\ borrowed \subseteq borrowed' /\ borrowed' \subseteq Identity
      /\ i = ceremony[k].by \/ i \in borrowed'
  BY <1>3 DEF RegisterConsume
<1> QED BY <1>1, <1>2, <1>4, ConsumeStep DEF RegisterConsume

\* LoginConsume knows no identity yet.
LEMMA LoginConsumeStep ==
    ASSUME Inv, NEW r \in Request, NEW k \in Key, LoginConsume(r, k)
    PROVE  Inv'
<1> DEFINE t == [pc |-> "load", who |-> None, key |-> k, n |-> 0]
<1>1. t \in ReqType /\ t.pc = "load" /\ t.key = k
  BY PasskeyAssumption DEF ReqType
<1>2. req' = [req EXCEPT ![r] = t]
  BY DEF LoginConsume
<1> HIDE DEF t
<1>3. borrowed \subseteq Identity
  BY DEF Inv, TypeOK
<1> QED BY <1>1, <1>2, <1>3, ConsumeStep DEF LoginConsume

\* The library accepts the answer of an authenticator, or the request ends.
LEMMA RegisterVerifyStep ==
    ASSUME Inv, NEW r \in Request, RegisterVerify(r)
    PROVE  Inv'
<1>0. TypeOK /\ PasskeyInv
  BY DEF Inv
<1> DEFINE k == req[r].key
           t == [req[r] EXCEPT !.pc = "insert"]
<1>1. CASE Reply(r)
  BY <1>1, ReplyStep DEF RegisterVerify
<1>2. CASE /\ ceremony[k].kind = "register" /\ signer[k] # None
           /\ req' = [req EXCEPT ![r].pc = "insert"]
  <2>1. req[r] \in ReqType /\ req[r].pc = "list" /\ k \in Key
    BY <1>0 DEF RegisterVerify, TypeOK, PasskeyInv, PlaceInv
  <2>2. req' = [req EXCEPT ![r] = t]
    BY <1>2
  <2>3. /\ t \in ReqType /\ t.pc = "insert" /\ t.who = req[r].who /\ t.key = req[r].key
    BY <2>1 DEF ReqType
  <2> HIDE DEF t
  <2>4. /\ req' \in [Request -> ReqType] /\ req'[r] = t
        /\ \A q \in Request \ {r} : req'[q] = req[q]
    BY <1>0, <2>2, <2>3, MoveFacts
  <2>5. /\ UNCHANGED <<ttl, ceremony, row, sess, borrowed, overlap>>
        /\ UNCHANGED <<home, counter, signer, asserted>>
    BY DEF RegisterVerify, device
  <2>6. TypeOK'
    BY <1>0, <2>4, <2>5 DEF TypeOK
  <2>7. \A q \in Request, l \in Key : Carries(q, l)' <=> Carries(q, l)
    BY <2>1, <2>3, <2>4 DEF Carries
  <2>8. PlaceInv'
    BY <1>0, <2>1, <2>3, <2>4, <2>5, <2>7 DEF PasskeyInv, PlaceInv
  <2>9. SpentInv'
    BY <1>0, <2>5, <2>7 DEF PasskeyInv, SpentInv
  <2>10. signer[k] \in Cred /\ req[r].who \in Identity
    BY <1>0, <1>2, <2>1 DEF TypeOK, PasskeyInv, PathInv
  <2>11. PathInv'
    BY <1>0, <1>2, <2>1, <2>3, <2>4, <2>5, <2>10 DEF PasskeyInv, PathInv
  <2>12. HandleInv'
    BY <1>0, <2>1, <2>3, <2>4, <2>5 DEF PasskeyInv, HandleInv
  <2>13. CountInv'
    BY <1>0, <2>1, <2>3, <2>4, <2>5 DEF PasskeyInv, CountInv, Verified
  <2> QED
    BY <2>5, <2>6, <2>8, <2>9, <2>11, <2>12, <2>13, DurableKept DEF Inv, PasskeyInv
<1> QED BY <1>1, <1>2 DEF RegisterVerify

\* A passkey is stored: its ceremony has led to nothing before.
LEMMA RegisterCreateStep ==
    ASSUME Inv, NEW r \in Request, RegisterCreate(r)
    PROVE  Inv'
<1>0. TypeOK /\ PasskeyInv
  BY DEF Inv
<1> DEFINE k == req[r].key
           c == signer[k]
           w == [who |-> req[r].who, handle |-> ceremony[k].handle, count |-> asserted[k],
                 key |-> k]
<1>1. CASE row[c] # NoRow
  BY <1>1, ReplyStep DEF RegisterCreate, CreateRow
<1>2. CASE row[c] = NoRow
  <2>1. /\ req[r].pc = "insert" /\ k \in Key /\ c \in Cred /\ Carries(r, k)
        /\ req[r].who \in Identity /\ ceremony[k].kind = "register"
        /\ ceremony[k].handle \in Identity
    BY <1>0 DEF RegisterCreate, CreateRow, PasskeyInv, PlaceInv, PathInv, HandleInv, Carries
  <2>2. /\ w \in RowType /\ w.who = req[r].who /\ w.handle = ceremony[k].handle
        /\ w.key = k
    BY <1>0, <2>1 DEF TypeOK, RowType
  <2>3. row' = [row EXCEPT ![c] = w]
    BY <1>2 DEF RegisterCreate, CreateRow
  <2> HIDE DEF w
  <2>4. row' \in [Cred -> RowType] /\ row'[c] = w /\ \A d \in Cred \ {c} : row'[d] = row[d]
    BY <1>0, <2>1, <2>2, <2>3 DEF TypeOK
  <2>5. /\ req' \in [Request -> ReqType] /\ req'[r].pc = "idle"
        /\ \A q \in Request \ {r} : req'[q] = req[q]
    BY <1>0, ReplyFacts DEF RegisterCreate, CreateRow
  <2>6. /\ UNCHANGED <<ttl, ceremony, sess, borrowed, overlap>>
        /\ UNCHANGED <<home, counter, signer, asserted>>
    BY DEF RegisterCreate, CreateRow, device
  <2>7. TypeOK'
    BY <1>0, <2>4, <2>5, <2>6 DEF TypeOK
  <2>8. /\ ttl[k] = 0 /\ ceremony[k] # NoCeremony
        /\ \A q \in Request : Carries(q, k) => q = r
        /\ \A d \in Cred : row[d].key # k
        /\ \A s \in SessionId : sess[s].key # k
    BY <1>0, <2>1 DEF PasskeyInv, PlaceInv, SpentInv
  <2>9. row[c].who = None /\ row[c].count = 0
    BY <1>2 DEF NoRow
  <2> HIDE DEF c, k
  <2>10. \A q \in Request, l \in Key : Carries(q, l)' <=> Carries(q, l) /\ q # r
    BY <2>5 DEF Carries
  <2>11. PlaceInv'
    BY <1>0, <2>5, <2>6, <2>10 DEF PasskeyInv, PlaceInv
  <2>12. SpentInv'
    BY <1>0, <2>2, <2>4, <2>6, <2>8, <2>10 DEF PasskeyInv, SpentInv
  <2>13. PathInv'
    <3>1. \A d \in Cred : row[d].who \in Identity => row'[d].who = row[d].who
      BY <2>4, <2>9, PasskeyAssumption
    <3> QED BY <1>0, <2>5, <2>6, <3>1 DEF PasskeyInv, PathInv
  <2>14. HandleInv'
    BY <1>0, <2>5, <2>6 DEF PasskeyInv, HandleInv
  <2>15. RowInv'
    BY <1>0, <2>1, <2>2, <2>4, <2>6 DEF PasskeyInv, RowInv, c
  <2>16. CountInv'
    <3>1. \A d \in Cred : Verified(d)' \subseteq Verified(d)
      BY <2>5, <2>6 DEF Verified
    <3>2. Verified(c) = {}
      <4>1. \A q \in Request : req[q].pc = "count" => row[signer[req[q].key]].who \in Identity
        BY <1>0 DEF PasskeyInv, PathInv
      <4> QED BY <2>9, <4>1, PasskeyAssumption DEF Verified
    <3>4. \A d \in Cred \ {c}, q \in Request : q \in Verified(d)' =>
            req'[q].n = req[q].n /\ row'[d].count = row[d].count
      BY <2>4, <2>5 DEF Verified
    <3>5. ASSUME NEW d \in Cred, d \notin overlap'
          PROVE  /\ \A q \in Verified(d)' : req'[q].n >= row'[d].count
                 /\ \A q, p \in Verified(d)' : q = p
      <4>1. CASE d = c
        BY <2>1, <3>1, <3>2, <4>1
      <4>2. CASE d # c
        <5>1. /\ \A q \in Verified(d) : req[q].n >= row[d].count
              /\ \A q, p \in Verified(d) : q = p
          BY <1>0, <2>6, <3>5 DEF PasskeyInv, CountInv
        <5>2. \A q \in Verified(d)' : q \in Verified(d) /\ q \in Request
          BY <3>1 DEF Verified
        <5> QED BY <3>4, <4>2, <5>1, <5>2
      <4> QED BY <4>1, <4>2
    <3> QED BY <3>5 DEF CountInv
  <2>17. OneOutcomePerCeremony'
    BY <2>2, <2>4, <2>6, <2>8 DEF Inv, OneOutcomePerCeremony
  <2>18. SessionsOpenForOwner'
    BY <2>4, <2>6, <2>9 DEF Inv, SessionsOpenForOwner
  <2>19. HandlesAreOwners'
    <3>1. req[r].who = ceremony[k].by \/ req[r].who \in borrowed
      BY <1>0, <2>1 DEF PasskeyInv, HandleInv, k
    <3>2. ceremony[k].handle # ceremony[k].by => ceremony[k].by \in borrowed
      BY <1>0, <2>1 DEF PasskeyInv, HandleInv
    <3> QED BY <2>2, <2>4, <2>6, <3>1, <3>2 DEF Inv, HandlesAreOwners
  <2> QED
    BY <2>7, <2>11, <2>12, <2>13, <2>14, <2>15, <2>16, <2>17, <2>18, <2>19
       DEF Inv, PasskeyInv
<1> QED BY <1>1, <1>2

\* The answer of a stored passkey is accepted, and an overlap is noted.
LEMMA LoginVerifyStep ==
    ASSUME Inv, NEW r \in Request, LoginVerify(r)
    PROVE  Inv'
<1>0. TypeOK /\ PasskeyInv
  BY DEF Inv
<1> DEFINE k == req[r].key
           c == signer[k]
           u == UpdateCounter(row[c].count, asserted[k])
           t == [req[r] EXCEPT !.pc = "count", !.n = u]
<1>1. CASE Reply(r) /\ UNCHANGED overlap
  BY <1>1, ReplyStep DEF LoginVerify
<1>2. CASE /\ ceremony[k].kind = "login"
           /\ c # None /\ c \in ListByUserHandle(home[c])
           /\ req' = [req EXCEPT ![r].pc = "count", ![r].n = u]
           /\ overlap' = IF Verified(c) = {} THEN overlap ELSE overlap \cup {c}
  <2>1. req[r] \in ReqType /\ req[r].pc = "load" /\ k \in Key
    BY <1>0 DEF LoginVerify, TypeOK, PasskeyInv, PlaceInv
  <2>2. c \in Cred /\ row[c] \in RowType /\ asserted[k] \in 0..MaxCount
    BY <1>0, <1>2, <2>1 DEF ListByUserHandle, TypeOK
  <2>3. row[c].who \in Identity
    BY <1>0, <1>2, <2>2 DEF ListByUserHandle, PasskeyInv, RowInv
  <2>4. u \in 0..MaxCount /\ u >= row[c].count
    BY <2>2, PasskeyAssumption DEF UpdateCounter, RowType
  <2>5. req' = [req EXCEPT ![r] = t]
    BY <1>2
  <2> HIDE DEF u
  <2>6. t \in ReqType /\ t.pc = "count" /\ t.key = k /\ t.n = u
    BY <2>1, <2>4 DEF ReqType
  <2> HIDE DEF t
  <2>7. /\ req' \in [Request -> ReqType] /\ req'[r] = t
        /\ \A q \in Request \ {r} : req'[q] = req[q]
    BY <1>0, <2>5, <2>6, MoveFacts
  <2>8. /\ UNCHANGED <<ttl, ceremony, row, sess, borrowed>>
        /\ UNCHANGED <<home, counter, signer, asserted>>
    BY DEF LoginVerify, device
  <2>9. TypeOK'
    BY <1>0, <1>2, <2>2, <2>7, <2>8 DEF TypeOK
  <2>10. \A q \in Request, l \in Key : Carries(q, l)' <=> Carries(q, l)
    BY <2>1, <2>6, <2>7 DEF Carries
  <2>11. PlaceInv'
    BY <1>0, <2>1, <2>6, <2>7, <2>8, <2>10 DEF PasskeyInv, PlaceInv
  <2>12. SpentInv'
    BY <1>0, <2>8, <2>10 DEF PasskeyInv, SpentInv
  <2>13. PathInv'
    BY <1>0, <1>2, <2>2, <2>3, <2>6, <2>7, <2>8 DEF PasskeyInv, PathInv
  <2>14. HandleInv'
    BY <1>0, <2>6, <2>7, <2>8 DEF PasskeyInv, HandleInv
  <2>15. CountInv'
    <3>1. ASSUME NEW d \in Cred, d \notin overlap', d # c
          PROVE  /\ \A x \in Verified(d)' : req'[x].n >= row'[d].count
                 /\ \A x, y \in Verified(d)' : x = y
      <4>1. d \notin overlap
        BY <1>2, <3>1
      <4>2. Verified(d)' = Verified(d) /\ \A x \in Verified(d) : req'[x] = req[x]
        BY <2>1, <2>6, <2>7, <2>8, <3>1 DEF Verified
      <4> QED BY <1>0, <2>8, <3>1, <4>1, <4>2 DEF PasskeyInv, CountInv
    <3>2. ASSUME NEW d \in Cred, d \notin overlap', d = c
          PROVE  /\ \A x \in Verified(d)' : req'[x].n >= row'[d].count
                 /\ \A x, y \in Verified(d)' : x = y
      <4>1. Verified(d) = {}
        BY <1>2, <3>2
      <4>2. Verified(d)' \subseteq {r}
        BY <2>7, <2>8, <4>1 DEF Verified
      <4>3. u >= row[d].count /\ req'[r].n = u
        BY <2>4, <2>6, <2>7, <3>2
      <4> QED BY <2>8, <4>2, <4>3
    <3> QED BY <3>1, <3>2 DEF CountInv
  <2> QED
    BY <2>8, <2>9, <2>11, <2>12, <2>13, <2>14, <2>15, DurableKept DEF Inv, PasskeyInv
<1> QED BY <1>1, <1>2 DEF LoginVerify

\* The counter is written, or not, and the owner is known.
LEMMA LoginCountStep ==
    ASSUME Inv, NEW r \in Request, LoginCount(r)
    PROVE  Inv' /\ \A d \in Cred : row'[d].count < row[d].count => d \in overlap
<1>0. TypeOK /\ PasskeyInv
  BY DEF Inv
<1> DEFINE k == req[r].key
           c == signer[k]
           t == [req[r] EXCEPT !.pc = "open", !.who = row[c].who]
           w == [row[c] EXCEPT !.count = req[r].n]
<1>1. /\ req[r] \in ReqType /\ req[r].pc = "count" /\ k \in Key
      /\ c \in Cred /\ row[c] \in RowType /\ row[c].who \in Identity
      /\ ceremony[k].kind = "login"
  BY <1>0 DEF LoginCount, GetByCredentialID, UpdateSignCount, TypeOK, PasskeyInv, PlaceInv, PathInv
<1>2. req' = [req EXCEPT ![r] = t] /\ (row' = [row EXCEPT ![c] = w] \/ row' = row)
  BY <1>1 DEF LoginCount, GetByCredentialID, UpdateSignCount
<1>3. /\ t \in ReqType /\ t.pc = "open" /\ t.key = k /\ t.who = row[c].who
      /\ w \in RowType /\ w.who = row[c].who /\ w.handle = row[c].handle
      /\ w.key = row[c].key /\ w.count = req[r].n
      /\ req[r].n \in 0..MaxCount /\ row[c].count \in 0..MaxCount
  BY <1>1 DEF ReqType, RowType
<1>n. (w = NoRow => row[c].who = None) /\ row[c] # NoRow
  BY <1>1, <1>3, PasskeyAssumption DEF NoRow
<1> HIDE DEF t, w
<1>4. /\ req' \in [Request -> ReqType] /\ req'[r] = t
      /\ \A q \in Request \ {r} : req'[q] = req[q]
  BY <1>0, <1>2, <1>3, MoveFacts
<1>5. /\ row' \in [Cred -> RowType]
      /\ \A d \in Cred \ {c} : row'[d] = row[d]
      /\ row'[c] = w \/ row'[c] = row[c]
  BY <1>0, <1>1, <1>2, <1>3 DEF TypeOK
<1>6. \A d \in Cred : /\ row'[d].who = row[d].who /\ row'[d].handle = row[d].handle
                      /\ row'[d].key = row[d].key
                      /\ row'[d] # NoRow => row[d] # NoRow
  BY <1>1, <1>3, <1>5, <1>n
<1>7. /\ UNCHANGED <<ttl, ceremony, sess, borrowed, overlap>>
      /\ UNCHANGED <<home, counter, signer, asserted>>
  BY DEF LoginCount, GetByCredentialID, UpdateSignCount, device
<1>8. TypeOK'
  BY <1>0, <1>4, <1>5, <1>7 DEF TypeOK
<1>9. r \in Verified(c)
  BY <1>1 DEF Verified
<1> HIDE DEF c, k
<1>10. \A q \in Request, l \in Key : Carries(q, l)' <=> Carries(q, l)
  BY <1>1, <1>3, <1>4 DEF Carries, k
<1>11. PlaceInv'
  BY <1>0, <1>1, <1>3, <1>4, <1>7, <1>10 DEF PasskeyInv, PlaceInv
<1>12. SpentInv'
  BY <1>0, <1>6, <1>7, <1>10 DEF PasskeyInv, SpentInv
<1>13. PathInv'
  <2>1. \A q \in Request \ {r} : req[q].pc \in {"count", "open"} =>
          row'[signer[req[q].key]].who = row[signer[req[q].key]].who
    BY <1>0, <1>6 DEF PasskeyInv, PathInv
  <2>2. row'[signer[k]].who = row[signer[k]].who /\ signer[k] = c
    BY <1>1, <1>6 DEF c
  <2> QED BY <1>0, <1>1, <1>3, <1>4, <1>7, <2>1, <2>2 DEF PasskeyInv, PathInv
<1>14. HandleInv'
  BY <1>0, <1>3, <1>4, <1>7 DEF PasskeyInv, HandleInv
<1>15. RowInv'
  BY <1>0, <1>6, <1>7 DEF PasskeyInv, RowInv
<1>16. CountInv'
  <2>1. \A d \in Cred : Verified(d)' = Verified(d) \ {r}
    BY <1>3, <1>4, <1>7 DEF Verified
  <2>2. \A q \in Request \ {r} : req'[q].n = req[q].n
    BY <1>4
  <2>3. \A d \in Cred : Verified(d) \subseteq Request
    BY DEF Verified
  <2>4. ASSUME NEW d \in Cred, d \notin overlap'
        PROVE  /\ \A x \in Verified(d)' : req'[x].n >= row'[d].count
               /\ \A x, y \in Verified(d)' : x = y
    <3>1. /\ d \notin overlap
          /\ \A x \in Verified(d) : req[x].n >= row[d].count
          /\ \A x, y \in Verified(d) : x = y
      BY <1>0, <1>7, <2>4 DEF PasskeyInv, CountInv
    <3>2. CASE d = c
      BY <1>9, <2>1, <3>1, <3>2
    <3>3. CASE d # c
      BY <1>5, <2>1, <2>2, <2>3, <3>1, <3>3
    <3> QED BY <3>2, <3>3
  <2> QED BY <2>4 DEF CountInv
<1>17. OneOutcomePerCeremony' /\ SessionsOpenForOwner' /\ HandlesAreOwners'
  BY <1>6, <1>7 DEF Inv, OneOutcomePerCeremony, SessionsOpenForOwner, HandlesAreOwners
<1>18. Inv'
  BY <1>8, <1>11, <1>12, <1>13, <1>14, <1>15, <1>16, <1>17 DEF Inv, PasskeyInv
<1>19. ASSUME NEW d \in Cred, row'[d].count < row[d].count PROVE d \in overlap
  <2>1. row[d] \in RowType /\ row[d].count \in Nat
    BY <1>0 DEF TypeOK, RowType
  <2>2. d = c /\ row'[d] = w
    BY <1>5, <1>19, <2>1
  <2>3. c \notin overlap => req[r].n >= row[c].count
    BY <1>0, <1>1, <1>9 DEF PasskeyInv, CountInv
  <2> QED BY <1>3, <1>19, <2>2, <2>3
<1> QED BY <1>18, <1>19

\* A session is opened: its ceremony has led to nothing before.
LEMMA LoginCreateStep ==
    ASSUME Inv, NEW r \in Request, NEW s \in SessionId, LoginCreate(r, s)
    PROVE  Inv'
<1>0. TypeOK /\ PasskeyInv
  BY DEF Inv
<1> DEFINE k == req[r].key
           w == [who |-> req[r].who, key |-> k]
<1>1. /\ req[r].pc = "open" /\ k \in Key /\ Carries(r, k)
      /\ req[r].who \in Identity /\ ceremony[k].kind = "login"
      /\ signer[k] \in Cred /\ row[signer[k]].who = req[r].who
  BY <1>0 DEF LoginCreate, PasskeyInv, PlaceInv, PathInv, Carries
<1>2. w \in SessionType /\ w.who = req[r].who /\ w.key = k
  BY <1>1 DEF SessionType
<1>3. sess' = [sess EXCEPT ![s] = w]
  BY DEF LoginCreate
<1> HIDE DEF w
<1>4. /\ sess' \in [SessionId -> SessionType] /\ sess'[s] = w
      /\ \A x \in SessionId \ {s} : sess'[x] = sess[x]
  BY <1>0, <1>2, <1>3 DEF TypeOK
<1>5. /\ req' \in [Request -> ReqType] /\ req'[r].pc = "idle"
      /\ \A q \in Request \ {r} : req'[q] = req[q]
  BY <1>0, ReplyFacts DEF LoginCreate
<1>6. /\ UNCHANGED <<ttl, ceremony, row, borrowed, overlap>>
      /\ UNCHANGED <<home, counter, signer, asserted>>
  BY DEF LoginCreate, device
<1>7. TypeOK'
  BY <1>0, <1>4, <1>5, <1>6 DEF TypeOK
<1>8. /\ ttl[k] = 0 /\ ceremony[k] # NoCeremony
      /\ \A q \in Request : Carries(q, k) => q = r
      /\ \A d \in Cred : row[d].key # k
      /\ \A x \in SessionId : sess[x].key # k
  BY <1>0, <1>1 DEF PasskeyInv, PlaceInv, SpentInv
<1> HIDE DEF k
<1>9. \A q \in Request, l \in Key : Carries(q, l)' <=> Carries(q, l) /\ q # r
  BY <1>5 DEF Carries
<1>10. PlaceInv'
  BY <1>0, <1>5, <1>6, <1>9 DEF PasskeyInv, PlaceInv
<1>11. SpentInv'
  BY <1>0, <1>2, <1>4, <1>6, <1>8, <1>9 DEF PasskeyInv, SpentInv
<1>12. PathInv' /\ HandleInv'
  BY <1>0, <1>5, <1>6 DEF PasskeyInv, PathInv, HandleInv
<1>13. RowInv'
  BY <1>0, <1>1, <1>2, <1>4, <1>6 DEF PasskeyInv, RowInv
<1>14. CountInv'
  BY <1>0, <1>5, <1>6 DEF PasskeyInv, CountInv, Verified
<1>15. OneOutcomePerCeremony'
  BY <1>2, <1>4, <1>6, <1>8 DEF Inv, OneOutcomePerCeremony
<1>16. SessionsOpenForOwner' /\ HandlesAreOwners'
  BY <1>1, <1>2, <1>4, <1>6, PasskeyAssumption DEF Inv, SessionsOpenForOwner, HandlesAreOwners
<1> QED
  BY <1>7, <1>10, <1>11, <1>12, <1>13, <1>14, <1>15, <1>16 DEF Inv, PasskeyInv

\* Time passes.
LEMMA TickStep ==
    ASSUME Inv, Tick
    PROVE  Inv'
<1>0. TypeOK /\ PasskeyInv
  BY DEF Inv
<1>1. /\ ttl' \in [Key -> 0..SessionTTL]
      /\ \A k \in Key : (ttl'[k] > 0 => ttl[k] > 0) /\ (ttl[k] = 0 => ttl'[k] = 0)
  BY <1>0, PasskeyAssumption DEF Tick, Dec, TypeOK
<1>2. /\ UNCHANGED <<ceremony, row, sess, req, borrowed, overlap>>
      /\ UNCHANGED <<home, counter, signer, asserted>>
  BY DEF Tick, device
<1>3. TypeOK'
  BY <1>0, <1>1, <1>2 DEF TypeOK
<1>4. PlaceInv' /\ SpentInv'
  BY <1>0, <1>1, <1>2 DEF PasskeyInv, PlaceInv, SpentInv, Carries
<1>5. PathInv' /\ HandleInv' /\ CountInv'
  BY <1>0, <1>2 DEF PasskeyInv, PathInv, HandleInv, CountInv, Verified
<1> QED BY <1>2, <1>3, <1>4, <1>5, DurableKept DEF Inv, PasskeyInv

-----------------------------------------------------------------------------
(* The theorems *)

\* Before the first ceremony the invariant holds.
LEMMA InitInv == Init => Inv
<1> SUFFICES ASSUME Init PROVE Inv
  OBVIOUS
<1>1. TypeOK
  BY PasskeyAssumption DEF Init, TypeOK, CeremonyType, RowType, SessionType, ReqType,
                           NoCeremony, NoRow, NoSession, Idle
<1>2. /\ \A r \in Request : req[r].pc = "idle"
      /\ \A k \in Key : ttl[k] = 0 /\ ceremony[k].kind = "none"
      /\ \A c \in Cred : row[c] = NoRow /\ row[c].key = None /\ row[c].handle = row[c].who
      /\ \A s \in SessionId : sess[s] = NoSession /\ sess[s].key = None
  BY DEF Init, NoCeremony, NoRow, NoSession, Idle
<1>3. PasskeyInv
  BY <1>2, PasskeyAssumption
     DEF PasskeyInv, PlaceInv, SpentInv, PathInv, HandleInv, RowInv, CountInv, Carries, Verified
<1>4. OneOutcomePerCeremony /\ SessionsOpenForOwner /\ HandlesAreOwners
  BY <1>2, PasskeyAssumption DEF OneOutcomePerCeremony, SessionsOpenForOwner, HandlesAreOwners
<1> QED BY <1>1, <1>3, <1>4 DEF Inv

\* Every step keeps the invariant, and takes a counter back only after an
\* overlap.
LEMMA NextInv ==
    ASSUME Inv, [Next]_vars
    PROVE  Inv' /\ \A c \in Cred : row'[c].count < row[c].count => c \in overlap
<1> DEFINE Rise == \A c \in Cred : row'[c].count < row[c].count => c \in overlap
<1>s. UNCHANGED row => Rise
  <2>1. \A c \in Cred : row[c].count \in Nat
    BY DEF Inv, TypeOK, RowType
  <2> QED BY <2>1
<1>1. ASSUME NEW r \in Request, NEW i \in Identity, NEW k \in Key, BeginRegistration(r, i, k)
      PROVE  Inv' /\ Rise
  BY <1>1, <1>s, BeginRegistrationStep DEF BeginRegistration
<1>2. ASSUME NEW r \in Request, NEW i \in Identity, NEW k \in Key, RegisterConsume(r, i, k)
      PROVE  Inv' /\ Rise
  BY <1>2, <1>s, RegisterConsumeStep DEF RegisterConsume
<1>3. ASSUME NEW r \in Request, NEW k \in Key, LoginConsume(r, k) PROVE Inv' /\ Rise
  BY <1>3, <1>s, LoginConsumeStep DEF LoginConsume
<1>4. ASSUME NEW r \in Request, Store(r) PROVE Inv' /\ Rise
  BY <1>4, <1>s, StoreStep DEF Store
<1>5. ASSUME NEW r \in Request, RegisterVerify(r) PROVE Inv' /\ Rise
  BY <1>5, <1>s, RegisterVerifyStep DEF RegisterVerify
<1>6. ASSUME NEW r \in Request, RegisterCreate(r) PROVE Inv' /\ Rise
  <2>1. CASE UNCHANGED row
    BY <1>6, <1>s, <2>1, RegisterCreateStep
  <2>2. CASE row[signer[req[r].key]] = NoRow
    <3>1. \A c \in Cred : row[c].count \in Nat /\ (row'[c] = row[c] \/ row[c] = NoRow)
      BY <1>6, <2>2 DEF RegisterCreate, CreateRow, Inv, TypeOK, RowType
    <3>2. \A c \in Cred : row'[c].count \in Nat
      BY <1>6, RegisterCreateStep DEF Inv, TypeOK, RowType
    <3> QED BY <1>6, <3>1, <3>2, RegisterCreateStep DEF NoRow
  <2> QED BY <1>6, <2>1, <2>2 DEF RegisterCreate, CreateRow
<1>7. ASSUME NEW r \in Request, LoginVerify(r) PROVE Inv' /\ Rise
  BY <1>7, <1>s, LoginVerifyStep DEF LoginVerify
<1>8. ASSUME NEW r \in Request, LoginCount(r) PROVE Inv' /\ Rise
  BY <1>8, LoginCountStep
<1>9. ASSUME NEW r \in Request, NEW s \in SessionId, LoginCreate(r, s) PROVE Inv' /\ Rise
  BY <1>9, <1>s, LoginCreateStep DEF LoginCreate
<1>10. ASSUME NEW r \in Request, Abort(r) PROVE Inv' /\ Rise
  BY <1>10, <1>s, ReplyStep DEF Abort
<1>11. ASSUME NEW k \in Key, BeginLogin(k) PROVE Inv' /\ Rise
  BY <1>11, <1>s, BeginLoginStep DEF BeginLogin
<1>12. ASSUME NEW k \in Key, NEW c \in Cred, MakeCredential(k, c) PROVE Inv' /\ Rise
  BY <1>12, <1>s, MakeCredentialStep DEF MakeCredential
<1>13. ASSUME NEW k \in Key, NEW c \in Cred, GetAssertion(k, c) PROVE Inv' /\ Rise
  BY <1>13, <1>s, GetAssertionStep DEF GetAssertion
<1>14. ASSUME Tick PROVE Inv' /\ Rise
  BY <1>14, <1>s, TickStep DEF Tick
<1>15. ASSUME UNCHANGED vars PROVE Inv' /\ Rise
  <2>1. Inv'
    BY <1>15 DEF vars, Inv, TypeOK, PasskeyInv, PlaceInv, SpentInv, PathInv, HandleInv, RowInv,
                 CountInv, Carries, Verified, OneOutcomePerCeremony, SessionsOpenForOwner,
                 HandlesAreOwners
  <2> QED BY <1>15, <1>s, <2>1 DEF vars
<1> HIDE DEF Rise
<1>16. Inv' /\ Rise
  BY <1>1, <1>2, <1>3, <1>4, <1>5, <1>6, <1>7, <1>8, <1>9, <1>10, <1>11, <1>12, <1>13, <1>14,
     <1>15 DEF Next
<1> QED BY <1>16 DEF Rise

\* The invariant is an invariant.
THEOREM Invariance == Spec => []Inv
<1>1. Inv /\ [Next]_vars => Inv'
  BY NextInv
<1> QED BY <1>1, InitInv, PTL DEF Spec

\* A challenge is in one place at a time, for every number of identities,
\* passkeys, ceremonies and requests (service.go:44-184).
THEOREM Inductive == Spec => []IInv
<1>1. Inv => IInv
  BY DEF Inv, IInv
<1> QED BY <1>1, Invariance, PTL

\* A ceremony ends in at most one passkey or session (session_store.go:32-45).
THEOREM SingleOutcome == Spec => []OneOutcomePerCeremony
<1>1. Inv => OneOutcomePerCeremony
  BY DEF Inv
<1> QED BY <1>1, Invariance, PTL

\* A passkey login signs in the identity that registered the passkey
\* (service.go:156-184).
THEOREM Ownership == Spec => []SessionsOpenForOwner
<1>1. Inv => SessionsOpenForOwner
  BY DEF Inv
<1> QED BY <1>1, Invariance, PTL

\* Passkeys carry the handle of their owner (service.go:55-58, 96-100).
THEOREM Handles == Spec => []HandlesAreOwners
<1>1. Inv => HandlesAreOwners
  BY DEF Inv
<1> QED BY <1>1, Invariance, PTL

\* Counters only go up without overlapping logins (service.go:173-182).
THEOREM Counters == Spec => CountsOnlyRise
<1>1. Inv /\ [Next]_vars =>
        [\A c \in Cred : row'[c].count < row[c].count => c \in overlap]_vars
  BY NextInv
<1> QED BY <1>1, Invariance, PTL DEF Spec, CountsOnlyRise

-----------------------------------------------------------------------------
(* Refinement *)

\* Outcomes stay when passkeys and sessions do; the counters are not in them.
LEMMA SameOutcomes ==
    ASSUME UNCHANGED <<ceremony, sess>>,
           \A c \in Cred : (row'[c] = NoRow <=> row[c] = NoRow) /\ row'[c].key = row[c].key
    PROVE  Outcomes' = Outcomes
<1> DEFINE Rows == {d \in Cred : row[d] # NoRow}
           Sessions == {t \in SessionId : sess[t] # NoSession}
<1>1. Rows' = Rows /\ Sessions' = Sessions
  OBVIOUS
<1>2. \A c \in Rows : Outcome(c, row[c].key)' = Outcome(c, row[c].key)
  BY DEF Outcome
<1>3. \A t \in Sessions : Outcome(t, sess[t].key)' = Outcome(t, sess[t].key)
  BY DEF Outcome
<1> QED BY <1>1, <1>2, <1>3 DEF Outcomes, Outcome

\* A step that neither begins nor ends a ceremony at most makes some useless.
LEMMA VoidStep ==
    ASSUME UNCHANGED ceremony, Outcomes' = Outcomes, Usable' \subseteq Usable
    PROVE  [Once!Next]_(Once!vars)
<1>1. PICK T \in SUBSET Key : T = Usable \ Usable'
  BY DEF Usable, Carries
<1>2. Once!Void(T)
  BY <1>1 DEF Once!Void
<1> QED BY <1>2 DEF Once!Next

\* A ceremony is begun under an unused key.
LEMMA IssueStep ==
    ASSUME Inv, NEW k \in Key, NEW h \in CeremonyType, ceremony[k] = NoCeremony,
           ceremony' = [ceremony EXCEPT ![k] = h], Usable' = Usable \cup {k},
           UNCHANGED <<row, sess>>
    PROVE  [Once!Next]_(Once!vars)
<1>0. TypeOK /\ PasskeyInv
  BY DEF Inv
<1> DEFINE Rows == {d \in Cred : row[d] # NoRow}
           Sessions == {t \in SessionId : sess[t] # NoSession}
<1>1. \A c \in Rows : row[c].key \in Key \ {k}
  BY <1>0 DEF PasskeyInv, RowInv, SpentInv
<1>2. \A t \in Sessions : sess[t].key \in Key \ {k}
  BY <1>0 DEF PasskeyInv, RowInv, SpentInv
<1>3. \A l \in Key \ {k} : ceremony'[l] = ceremony[l]
  BY <1>0 DEF TypeOK
<1>4. /\ \A c \in Rows : Outcome(c, row[c].key)' = Outcome(c, row[c].key)
      /\ \A t \in Sessions : Outcome(t, sess[t].key)' = Outcome(t, sess[t].key)
  BY <1>1, <1>2, <1>3 DEF Outcome
<1>5. Outcomes' = Outcomes
  <2>1. Rows' = Rows /\ Sessions' = Sessions
    OBVIOUS
  <2>2. {Outcome(c, row[c].key) : c \in Rows}' = {Outcome(c, row[c].key) : c \in Rows}
    <3> HIDE DEF Rows, Sessions
    <3> QED BY <1>4, <2>1 DEF Outcome
  <2>3. {Outcome(t, sess[t].key) : t \in Sessions}' = {Outcome(t, sess[t].key) : t \in Sessions}
    <3> HIDE DEF Rows, Sessions
    <3> QED BY <1>4, <2>1 DEF Outcome
  <2> QED BY <2>2, <2>3 DEF Outcomes, Outcome
<1>6. Once!Issue(k, h)
  BY <1>5 DEF Once!Issue
<1> QED BY <1>6 DEF Once!Next

\* A ceremony ends in x.
LEMMA RedeemStep ==
    ASSUME NEW k \in Key, NEW x \in Cred \cup SessionId, k \in Usable,
           UNCHANGED ceremony, Usable' = Usable \ {k},
           Outcomes' = Outcomes \cup {Outcome(x, k)}
    PROVE  [Once!Next]_(Once!vars)
<1>1. Once!Redeem(k, x)
  BY DEF Once!Redeem, Outcome
<1> QED BY <1>1 DEF Once!Next

\* Whoever carries a ceremony is its only place.
LEMMA SolePlace ==
    ASSUME Inv, NEW r \in Request, req[r].pc # "idle"
    PROVE  /\ req[r].key \in Key /\ Carries(r, req[r].key) /\ ttl[req[r].key] = 0
           /\ \A q \in Request \ {r} : ~Carries(q, req[r].key)
  BY DEF Inv, PasskeyInv, PlaceInv, Carries

\* A request goes on with its ceremony or ends: nothing becomes usable by it.
LEMMA RequestMoves ==
    ASSUME Inv, NEW r \in Request, UNCHANGED ttl,
           \A q \in Request \ {r} : req'[q] = req[q],
           req'[r].pc = "idle" \/ (req[r].pc # "idle" /\ req'[r].key = req[r].key)
    PROVE  Usable' \subseteq Usable
  BY DEF Usable, Carries

\* Every step of Passkeys is a step of OneShot or leaves it unchanged.
LEMMA RefinementStep == Inv /\ [Next]_vars => [Once!Next]_(Once!vars)
<1> SUFFICES ASSUME Inv, [Next]_vars PROVE [Once!Next]_(Once!vars)
  OBVIOUS
<1> DEFINE Goal == [Once!Next]_(Once!vars)
<1>t. TypeOK
  BY DEF Inv
<1>r. ASSUME NEW r \in Request, Reply(r), UNCHANGED <<ttl, ceremony, row, sess>> PROVE Goal
  <2>1. req'[r].pc = "idle" /\ \A q \in Request \ {r} : req'[q] = req[q]
    BY <1>r, <1>t, ReplyFacts
  <2> QED BY <1>r, <2>1, RequestMoves, SameOutcomes, VoidStep
<1>1. ASSUME NEW r \in Request, NEW i \in Identity, NEW k \in Key, BeginRegistration(r, i, k)
      PROVE  Goal
  <2>1. PICK h \in Identity :
          ceremony' = [ceremony EXCEPT ![k] = [kind |-> "register", by |-> i, handle |-> h]]
    BY <1>1 DEF BeginRegistration
  <2>2. [kind |-> "register", by |-> i, handle |-> h] \in CeremonyType
    BY DEF CeremonyType
  <2> DEFINE t == [pc |-> "store", who |-> i, key |-> k, n |-> 0]
  <2>3. t \in ReqType /\ t.pc = "store" /\ t.key = k
    BY PasskeyAssumption DEF ReqType
  <2>4. req' = [req EXCEPT ![r] = t] /\ req[r].pc = "idle"
    BY <1>1 DEF BeginRegistration
  <2> HIDE DEF t
  <2>5. req'[r] = t /\ \A q \in Request \ {r} : req'[q] = req[q]
    BY <1>t, <2>3, <2>4, MoveFacts
  <2>6. ceremony[k] = NoCeremony /\ UNCHANGED <<ttl, row, sess>>
    BY <1>1 DEF BeginRegistration
  <2>7. \A l \in Key : (\E q \in Request : Carries(q, l)')
                        <=> l = k \/ \E q \in Request : Carries(q, l)
    BY <2>3, <2>4, <2>5 DEF Carries
  <2>8. Usable' = Usable \cup {k}
    BY <2>6, <2>7 DEF Usable
  <2> QED BY <2>1, <2>2, <2>6, <2>8, IssueStep
<1>2. ASSUME NEW r \in Request, Store(r) PROVE Goal
  <2>1. req[r].key \in Key /\ Carries(r, req[r].key)
    BY <1>2, SolePlace DEF Store
  <2>2. req'[r].pc = "idle" /\ \A q \in Request \ {r} : req'[q] = req[q]
    BY <1>2, <1>t, ReplyFacts DEF Store
  <2>3. \A l \in Key : ttl'[l] > 0 => l \in Usable
    BY <1>2, <1>t, <2>1 DEF Store, TypeOK, Usable
  <2>4. \A q \in Request, l \in Key : Carries(q, l)' => l \in Usable
    BY <2>2 DEF Carries, Usable
  <2>5. Usable' \subseteq Usable
    BY <2>3, <2>4 DEF Usable
  <2> QED BY <1>2, <2>5, SameOutcomes, VoidStep DEF Store
<1>3. ASSUME NEW k \in Key, BeginLogin(k) PROVE Goal
  <2>1. [kind |-> "login", by |-> None, handle |-> None] \in CeremonyType
    BY DEF CeremonyType
  <2>2. /\ ceremony[k] = NoCeremony /\ UNCHANGED <<row, sess, req>>
        /\ ttl'[k] > 0 /\ \A l \in Key \ {k} : ttl'[l] = ttl[l]
    BY <1>3, <1>t, PasskeyAssumption DEF BeginLogin, TypeOK
  <2>3. Usable' = Usable \cup {k}
    BY <2>2 DEF Usable, Carries
  <2> QED BY <1>3, <2>1, <2>2, <2>3, IssueStep DEF BeginLogin
<1>4. ASSUME NEW r \in Request, NEW k \in Key, NEW t \in ReqType, Consume(k),
             req' = [req EXCEPT ![r] = t], t.key = k, UNCHANGED <<ceremony, row, sess>>
      PROVE  Goal
  <2>1. req'[r] = t /\ \A q \in Request \ {r} : req'[q] = req[q]
    BY <1>4, <1>t, MoveFacts
  <2>2. \A l \in Key : ttl'[l] > 0 => l \in Usable
    BY <1>4, <1>t DEF Consume, TypeOK, Usable
  <2>3. k \in Usable
    BY <1>4 DEF Consume, Usable
  <2>4. \A q \in Request, l \in Key : Carries(q, l)' => l \in Usable
    BY <1>4, <2>1, <2>3 DEF Carries, Usable
  <2>5. Usable' \subseteq Usable
    BY <2>2, <2>4 DEF Usable
  <2> QED BY <1>4, <2>5, SameOutcomes, VoidStep
<1>5. ASSUME NEW r \in Request, NEW i \in Identity, NEW k \in Key, RegisterConsume(r, i, k)
      PROVE  Goal
  <2>1. [pc |-> "list", who |-> i, key |-> k, n |-> 0] \in ReqType
    BY PasskeyAssumption DEF ReqType
  <2> QED BY <1>4, <1>5, <2>1 DEF RegisterConsume
<1>6. ASSUME NEW r \in Request, NEW k \in Key, LoginConsume(r, k) PROVE Goal
  <2>1. [pc |-> "load", who |-> None, key |-> k, n |-> 0] \in ReqType
    BY PasskeyAssumption DEF ReqType
  <2> QED BY <1>4, <1>6, <2>1 DEF LoginConsume
<1>7. ASSUME NEW r \in Request, RegisterVerify(r) PROVE Goal
  <2>1. UNCHANGED <<ttl, ceremony, row, sess>> /\ req[r].pc # "idle"
    BY <1>7 DEF RegisterVerify
  <2>2. CASE Reply(r)
    BY <1>r, <2>1, <2>2
  <2>3. CASE req' = [req EXCEPT ![r].pc = "insert"]
    <3>1. req'[r].key = req[r].key /\ \A q \in Request \ {r} : req'[q] = req[q]
      BY <1>t, <2>3 DEF TypeOK, ReqType
    <3> QED BY <2>1, <3>1, RequestMoves, SameOutcomes, VoidStep
  <2> QED BY <1>7, <2>2, <2>3 DEF RegisterVerify
<1>8. ASSUME NEW r \in Request, RegisterCreate(r) PROVE Goal
  <2> DEFINE k == req[r].key
             c == signer[k]
  <2>1. /\ k \in Key /\ c \in Cred /\ Carries(r, k) /\ ttl[k] = 0
        /\ \A q \in Request \ {r} : ~Carries(q, k)
    BY <1>8, SolePlace DEF RegisterCreate, Inv, PasskeyInv, PathInv
  <2>2. UNCHANGED <<ttl, ceremony, sess>> /\ Reply(r) /\ CreateRow(c, req[r].who, k)
    BY <1>8 DEF RegisterCreate
  <2> HIDE DEF k, c
  <2>3. CASE row[c] # NoRow
    BY <1>r, <2>2, <2>3 DEF CreateRow
  <2>4. CASE row[c] = NoRow
    <3>1. req'[r].pc = "idle" /\ \A q \in Request \ {r} : req'[q] = req[q]
      BY <1>t, <2>2, ReplyFacts
    <3>2. k \in Usable
      BY <2>1 DEF Usable
    <3>3. \A l \in Key : (\E q \in Request : Carries(q, l)')
                          <=> l # k /\ \E q \in Request : Carries(q, l)
      BY <2>1, <3>1 DEF Carries, k
    <3>4. Usable' = Usable \ {k}
      BY <2>1, <2>2, <3>3 DEF Usable
    <3>5. /\ row'[c].key = k /\ row'[c] # NoRow
          /\ \A d \in Cred \ {c} : row'[d] = row[d]
      <4>1. row' = [row EXCEPT ![c] = [who |-> req[r].who, handle |-> ceremony[k].handle,
                                       count |-> asserted[k], key |-> k]]
        BY <2>2, <2>4 DEF CreateRow
      <4>2. k # None
        BY <2>1, PasskeyAssumption
      <4> QED BY <1>t, <2>1, <4>1, <4>2 DEF TypeOK, NoRow
    <3> DEFINE Rows == {d \in Cred : row[d] # NoRow}
    <3>6. Rows' = Rows \cup {c}
      BY <2>1, <3>5
    <3>7. \A d \in Rows : Outcome(d, row[d].key)' = Outcome(d, row[d].key)
      BY <2>2, <2>4, <3>5 DEF Outcome
    <3>8. [sid |-> c, ticket |-> row'[c].key, who |-> ceremony'[row'[c].key]] = Outcome(c, k)
      BY <2>2, <3>5 DEF Outcome
    <3>9. Outcomes' = Outcomes \cup {Outcome(c, k)}
      <4>1. {Outcome(d, row[d].key) : d \in Rows}'
              = {Outcome(d, row[d].key) : d \in Rows} \cup {Outcome(c, k)}
        <5> HIDE DEF Rows
        <5> QED BY <3>6, <3>7, <3>8 DEF Outcome
      <4>2. {Outcome(t, sess[t].key) : t \in {u \in SessionId : sess[u] # NoSession}}'
              = {Outcome(t, sess[t].key) : t \in {u \in SessionId : sess[u] # NoSession}}
        BY <2>2 DEF Outcome
      <4> QED BY <4>1, <4>2 DEF Outcomes, Outcome
    <3> QED BY <2>1, <2>2, <3>2, <3>4, <3>9, RedeemStep
  <2> QED BY <2>3, <2>4
<1>9. ASSUME NEW r \in Request, LoginVerify(r) PROVE Goal
  <2>1. UNCHANGED <<ttl, ceremony, row, sess>> /\ req[r].pc # "idle"
    BY <1>9 DEF LoginVerify
  <2>2. CASE Reply(r)
    BY <1>r, <2>1, <2>2
  <2>3. CASE \E n : req' = [req EXCEPT ![r].pc = "count", ![r].n = n]
    <3>1. req'[r].key = req[r].key /\ \A q \in Request \ {r} : req'[q] = req[q]
      BY <1>t, <2>3 DEF TypeOK, ReqType
    <3> QED BY <2>1, <3>1, RequestMoves, SameOutcomes, VoidStep
  <2> QED BY <1>9, <2>2, <2>3 DEF LoginVerify
<1>10. ASSUME NEW r \in Request, LoginCount(r) PROVE Goal
  <2>1. /\ UNCHANGED <<ttl, ceremony, sess>> /\ req[r].pc = "count"
        /\ req' = [req EXCEPT ![r].pc = "open", ![r].who = row[signer[req[r].key]].who]
    BY <1>10 DEF LoginCount, GetByCredentialID
  <2>2. req'[r].key = req[r].key /\ \A q \in Request \ {r} : req'[q] = req[q]
    BY <1>t, <2>1 DEF TypeOK, ReqType
  <2>3. signer[req[r].key] \in Cred /\ row[signer[req[r].key]].who \in Identity
    BY <2>1 DEF Inv, PasskeyInv, PathInv
  <2>4. \A c \in Cred : (row'[c] = NoRow <=> row[c] = NoRow) /\ row'[c].key = row[c].key
    <3>1. CASE UNCHANGED row
      BY <3>1
    <3>2. CASE row' = [row EXCEPT ![signer[req[r].key]].count = req[r].n]
      <4> DEFINE d == signer[req[r].key]
      <4>1. /\ row'[d].key = row[d].key /\ row'[d].who = row[d].who
            /\ \A c \in Cred \ {d} : row'[c] = row[c]
        BY <1>t, <2>3, <3>2 DEF TypeOK, RowType
      <4>2. row[d] # NoRow /\ row'[d] # NoRow
        BY <2>3, <4>1, PasskeyAssumption DEF NoRow
      <4> QED BY <4>1, <4>2
    <3> QED BY <1>10, <3>1, <3>2 DEF LoginCount, UpdateSignCount
  <2> QED BY <2>1, <2>2, <2>4, RequestMoves, SameOutcomes, VoidStep
<1>11. ASSUME NEW r \in Request, NEW s \in SessionId, LoginCreate(r, s) PROVE Goal
  <2> DEFINE k == req[r].key
  <2>1. /\ k \in Key /\ Carries(r, k) /\ ttl[k] = 0
        /\ \A q \in Request \ {r} : ~Carries(q, k)
    BY <1>11, SolePlace DEF LoginCreate
  <2>2. /\ UNCHANGED <<ttl, ceremony, row>> /\ Reply(r) /\ sess[s] = NoSession
        /\ sess' = [sess EXCEPT ![s] = [who |-> req[r].who, key |-> k]]
    BY <1>11 DEF LoginCreate
  <2> HIDE DEF k
  <2>3. req'[r].pc = "idle" /\ \A q \in Request \ {r} : req'[q] = req[q]
    BY <1>t, <2>2, ReplyFacts
  <2>4. k \in Usable
    BY <2>1 DEF Usable
  <2>5. \A l \in Key : (\E q \in Request : Carries(q, l)')
                        <=> l # k /\ \E q \in Request : Carries(q, l)
    BY <2>1, <2>3 DEF Carries, k
  <2>6. Usable' = Usable \ {k}
    BY <2>1, <2>2, <2>5 DEF Usable
  <2>7. /\ sess'[s].key = k /\ sess'[s] # NoSession
        /\ \A t \in SessionId \ {s} : sess'[t] = sess[t]
    <3>1. k # None
      BY <2>1, PasskeyAssumption
    <3> QED BY <1>t, <2>2, <3>1 DEF TypeOK, NoSession
  <2> DEFINE Sessions == {t \in SessionId : sess[t] # NoSession}
  <2>8. Sessions' = Sessions \cup {s}
    BY <2>7
  <2>9. \A t \in Sessions : Outcome(t, sess[t].key)' = Outcome(t, sess[t].key)
    BY <2>2, <2>7 DEF Outcome
  <2>10. Outcome(s, sess[s].key)' = Outcome(s, k)
    BY <2>2, <2>7 DEF Outcome
  <2>11. Outcomes' = Outcomes \cup {Outcome(s, k)}
    BY <2>1, <2>2, <2>8, <2>9, <2>10 DEF Outcomes, Outcome
  <2> QED BY <2>1, <2>2, <2>4, <2>6, <2>11, RedeemStep
<1>12. ASSUME Tick PROVE Goal
  <2>1. \A l \in Key : ttl'[l] > 0 => ttl[l] > 0
    BY <1>12, <1>t, PasskeyAssumption DEF Tick, Dec, TypeOK
  <2>2. Usable' \subseteq Usable
    BY <1>12, <2>1 DEF Tick, Usable, Carries
  <2> QED BY <1>12, <2>2, SameOutcomes, VoidStep DEF Tick
<1>13. ASSUME UNCHANGED <<ttl, ceremony, row, sess, req>> PROVE Goal
  <2>1. Usable' \subseteq Usable
    BY <1>13 DEF Usable, Carries
  <2> QED BY <1>13, <2>1, SameOutcomes, VoidStep
<1>14. ASSUME NEW r \in Request, Abort(r) PROVE Goal
  BY <1>r, <1>14 DEF Abort
<1>15. ASSUME NEW k \in Key, NEW c \in Cred, MakeCredential(k, c) \/ GetAssertion(k, c) PROVE Goal
  BY <1>13, <1>15 DEF MakeCredential, GetAssertion
<1>16. CASE UNCHANGED vars
  BY <1>13, <1>16 DEF vars
<1> QED
  BY <1>1, <1>2, <1>3, <1>5, <1>6, <1>7, <1>8, <1>9, <1>10, <1>11, <1>12, <1>14, <1>15, <1>16
     DEF Next

\* Nothing has been begun.
LEMMA RefinementInit == Init => Once!Init
<1> SUFFICES ASSUME Init PROVE Once!Init
  OBVIOUS
<1>1. Usable = {}
  BY DEF Init, Usable, Carries, Idle
<1>2. Outcomes = {}
  BY DEF Init, Outcomes
<1>3. ceremony = [k \in Key |-> NoCeremony]
  BY DEF Init
<1> QED BY <1>1, <1>2, <1>3 DEF Once!Init

\* Passkey ceremonies are one-time tickets, for any number of identities,
\* passkeys, ceremonies and concurrent requests, and with calls failing.
THEOREM Refinement == Spec => RefinesOneShot
  BY Invariance, RefinementInit, RefinementStep, PTL DEF Spec, RefinesOneShot, Once!Spec

=============================================================================
