------------------------- MODULE SigningKeysProofs -------------------------
(* The key properties for any number of keys, rotators and issuers. *)
EXTENDS SigningKeys, TLAPS

\* A countdown that is lowered stays within its bound.
LEMMA DecRange ==
    ASSUME NEW n \in Nat, NEW t \in 0..n
    PROVE  Dec(t) \in 0..n
  BY DEF Dec

\* Every step keeps the types, given that a rotator at work carries a key.
LEMMA TypeStep == TypeOK /\ KeyInv /\ [Next]_vars => TypeOK'
<1> SUFFICES ASSUME TypeOK, KeyInv, [Next]_vars PROVE TypeOK'
  OBVIOUS
<1> USE KeyAssumption DEF TypeOK, IdleRotator, IdleIssuer
<1>1. ASSUME NEW p \in Rotator, NEW k \in KeyId, Generate(p, k) PROVE TypeOK'
  BY <1>1 DEF Generate
<1>2. ASSUME NEW p \in Rotator, DeactivateAll(p) PROVE TypeOK'
  BY <1>2 DEF DeactivateAll
<1>3. ASSUME NEW p \in Rotator, Insert(p) PROVE TypeOK'
  <2>1. rot[p].kid \in KeyId
    BY <1>3 DEF Insert, KeyInv, NewKeysInv
  <2> QED BY <1>3, <2>1 DEF Insert
<1>4. ASSUME NEW p \in Rotator, RotatorDies(p) PROVE TypeOK'
  BY <1>4 DEF RotatorDies
<1>5. ASSUME NEW i \in Issuer, NEW k \in KeyId, GetActive(i, k) PROVE TypeOK'
  BY <1>5 DEF GetActive
<1>6. ASSUME NEW i \in Issuer, Sign(i) PROVE TypeOK'
  BY <1>6 DEF Sign
<1>7. ASSUME Tick PROVE TypeOK'
  <2>1. shownFor' \in [KeyId -> 0..PublishTTL] /\ token' \in [KeyId -> 0..AccessTTL]
    BY <1>7, DecRange DEF Tick
  <2>2. iss' \in [Issuer -> [kid : KeyId \cup {NoKey}, held : 0..SignDelay]]
    BY <1>7 DEF Tick
  <2> QED BY <1>7, <2>1, <2>2 DEF Tick
<1>8. ASSUME NEW v \in RelyingParty, Fetch(v) PROVE TypeOK'
  BY <1>8 DEF Fetch, JWKS
<1>9. ASSUME UNCHANGED vars PROVE TypeOK'
  BY <1>9 DEF vars
<1> QED
  BY <1>1, <1>2, <1>3, <1>4, <1>5, <1>6, <1>7, <1>8, <1>9 DEF Next, RotatorStep

\* Every step keeps what a copy of the key set misses among the newer keys.
LEMMA CopyStep == TypeOK /\ CopyInv /\ [Next]_vars => CopyInv'
<1> SUFFICES ASSUME TypeOK, CopyInv, [Next]_vars PROVE CopyInv'
  OBVIOUS
<1> USE KeyAssumption DEF TypeOK, CopyInv, JWKS, Listed, Active
<1>1. ASSUME NEW p \in Rotator, NEW k \in KeyId, Generate(p, k) PROVE CopyInv'
  BY <1>1 DEF Generate
<1>2. ASSUME NEW p \in Rotator, DeactivateAll(p) PROVE CopyInv'
  BY <1>2 DEF DeactivateAll
<1>3. ASSUME NEW p \in Rotator, Insert(p) PROVE CopyInv'
  BY <1>3 DEF Insert
<1>4. ASSUME NEW p \in Rotator, RotatorDies(p) PROVE CopyInv'
  BY <1>4 DEF RotatorDies
<1>5. ASSUME NEW i \in Issuer, NEW k \in KeyId, GetActive(i, k) PROVE CopyInv'
  BY <1>5 DEF GetActive
<1>6. ASSUME NEW i \in Issuer, Sign(i) PROVE CopyInv'
  BY <1>6 DEF Sign
<1>7. ASSUME Tick PROVE CopyInv'
  BY <1>7 DEF Tick, Dec
<1>8. ASSUME NEW v \in RelyingParty, Fetch(v) PROVE CopyInv'
  BY <1>8 DEF Fetch
<1>9. ASSUME UNCHANGED vars PROVE CopyInv'
  BY <1>9 DEF vars
<1> QED
  BY <1>1, <1>2, <1>3, <1>4, <1>5, <1>6, <1>7, <1>8, <1>9 DEF Next, RotatorStep

\* Every step keeps new keys apart from those of the table and of other rotators.
LEMMA NewKeysStep == TypeOK /\ NewKeysInv /\ [Next]_vars => NewKeysInv'
<1> SUFFICES ASSUME TypeOK, NewKeysInv, [Next]_vars PROVE NewKeysInv'
  OBVIOUS
<1> USE DEF TypeOK, NewKeysInv, Active, IdleRotator
<1>1. ASSUME NEW p \in Rotator, NEW k \in KeyId, Generate(p, k) PROVE NewKeysInv'
  <2>1. /\ rot'[p] = [pc |-> "generated", kid |-> k]
        /\ \A q \in Rotator \ {p} : rot'[q] = rot[q]
    BY <1>1 DEF Generate
  <2>2. /\ stamp[k] = 0 /\ stamp'[k] > 0 /\ UNCHANGED key
        /\ \A j \in KeyId \ {k} : stamp'[j] = stamp[j]
    BY <1>1 DEF Generate
  <2>3. \A q \in Rotator : rot[q].pc # "idle" => rot[q].kid # k
    BY <2>2
  <2>4. ASSUME NEW j \in KeyId, key'[j] # "none" PROVE stamp'[j] > 0
    BY <2>2, <2>4
  <2>5. ASSUME NEW q \in Rotator, rot'[q].pc # "idle"
        PROVE  rot'[q].kid \in KeyId /\ key'[rot'[q].kid] = "none" /\ stamp'[rot'[q].kid] > 0
    <3>1. CASE q = p
      <4>1. key[k] = "none"
        BY <2>2
      <4> QED BY <2>1, <2>2, <3>1, <4>1
    <3>2. CASE q # p
      <4>1. rot'[q] = rot[q] /\ rot[q].kid \in KeyId \ {k}
        BY <2>1, <2>3, <2>5, <3>2
      <4> QED BY <2>2, <2>5, <3>2, <4>1
    <3> QED BY <3>1, <3>2
  <2>6. ASSUME NEW q \in Rotator, NEW u \in Rotator, rot'[q].pc # "idle", rot'[u].pc # "idle",
               rot'[q].kid = rot'[u].kid
        PROVE  q = u
    BY <2>1, <2>3, <2>6
  <2> QED BY <2>4, <2>5, <2>6
<1>2. ASSUME NEW p \in Rotator, DeactivateAll(p) PROVE NewKeysInv'
  BY <1>2 DEF DeactivateAll
<1>3. ASSUME NEW p \in Rotator, Insert(p) PROVE NewKeysInv'
  BY <1>3 DEF Insert
<1>4. ASSUME NEW p \in Rotator, RotatorDies(p) PROVE NewKeysInv'
  BY <1>4 DEF RotatorDies
<1>5. ASSUME UNCHANGED <<key, stamp, rot>> PROVE NewKeysInv'
  BY <1>5
<1> QED
  BY <1>1, <1>2, <1>3, <1>4, <1>5
     DEF Next, RotatorStep, GetActive, Sign, Fetch, Tick, vars

\* Every step keeps the inductive invariant.
LEMMA KeyStep == TypeOK /\ KeyInv /\ [Next]_vars => KeyInv'
<1> SUFFICES ASSUME TypeOK, KeyInv, [Next]_vars PROVE KeyInv'
  OBVIOUS
<1>0. CopyInv' /\ NewKeysInv'
  BY CopyStep, NewKeysStep DEF KeyInv
<1> USE KeyAssumption, <1>0 DEF TypeOK, KeyInv, Active, IdleRotator, IdleIssuer
<1>1. ASSUME NEW p \in Rotator, NEW k \in KeyId, Generate(p, k) PROVE KeyInv'
  <2> USE <1>1 DEF Generate
  <2>1. CoverInv' BY DEF CoverInv
  <2>2. SerialInv' BY DEF SerialInv
  <2>3. GapOnlyInRotation' BY DEF GapOnlyInRotation
  <2> QED BY <2>1, <2>2, <2>3
<1>2. ASSUME NEW p \in Rotator, DeactivateAll(p) PROVE KeyInv'
  <2> USE <1>2 DEF DeactivateAll
  <2>1. CoverInv' BY DEF CoverInv
  <2>2. SerialInv' BY DEF SerialInv
  <2>3. GapOnlyInRotation' BY DEF GapOnlyInRotation
  <2> QED BY <2>1, <2>2, <2>3
<1>3. ASSUME NEW p \in Rotator, Insert(p) PROVE KeyInv'
  <2> USE <1>3 DEF Insert, NewKeysInv
  <2>1. CoverInv' BY DEF CoverInv
  <2>2. SerialInv' BY DEF SerialInv
  <2>3. GapOnlyInRotation' BY DEF GapOnlyInRotation
  <2> QED BY <2>1, <2>2, <2>3
<1>4. ASSUME NEW p \in Rotator, RotatorDies(p) PROVE KeyInv'
  <2> USE <1>4 DEF RotatorDies
  <2>1. CoverInv' BY DEF CoverInv
  <2>2. SerialInv' BY DEF SerialInv
  <2>3. GapOnlyInRotation' BY DEF GapOnlyInRotation
  <2> QED BY <2>1, <2>2, <2>3
<1>5. ASSUME NEW i \in Issuer, NEW k \in KeyId, GetActive(i, k) PROVE KeyInv'
  BY <1>5 DEF GetActive, Newest, CoverInv, SerialInv, GapOnlyInRotation
<1>6. ASSUME NEW i \in Issuer, Sign(i) PROVE KeyInv'
  <2> DEFINE kid == iss[i].kid
  <2>1. kid \in KeyId /\ iss[i].held \in 0..SignDelay
    BY <1>6 DEF Sign
  <2>2. AccessTTL <= AccessTTL + (SignDelay - iss[i].held)
    BY <2>1
  <2>3. Active(kid) \/ (key[kid] = "rotated" /\ AccessTTL <= shownFor[kid])
    BY <1>6, <2>1, <2>2 DEF Sign, CoverInv
  <2>4. \A k \in KeyId : token'[k] > 0 =>
          Active(k)' \/ (key'[k] = "rotated" /\ token'[k] <= shownFor'[k])
    <3> TAKE k \in KeyId
    <3>1. CASE k = kid
      BY <1>6, <2>1, <2>3, <3>1 DEF Sign
    <3>2. CASE k # kid
      BY <1>6, <3>2 DEF Sign, CoverInv
    <3> QED BY <3>1, <3>2
  <2>5. CoverInv'
    <3>1. \A q \in Issuer : iss'[q].kid # NoKey => q # i /\ iss'[q] = iss[q]
      BY <1>6 DEF Sign
    <3> QED BY <1>6, <2>4, <3>1 DEF Sign, CoverInv
  <2>6. SerialInv' /\ GapOnlyInRotation'
    BY <1>6 DEF Sign, SerialInv, GapOnlyInRotation
  <2> QED BY <1>6, <2>5, <2>6 DEF Sign
<1>7. ASSUME Tick PROVE KeyInv'
  <2>1. CoverInv' BY <1>7 DEF Tick, Dec, CoverInv
  <2> QED BY <1>7, <2>1 DEF Tick, SerialInv, GapOnlyInRotation
<1>8. ASSUME NEW v \in RelyingParty, Fetch(v) PROVE KeyInv'
  BY <1>8 DEF Fetch, CoverInv, SerialInv, GapOnlyInRotation
<1>9. ASSUME UNCHANGED vars PROVE KeyInv'
  BY <1>9 DEF vars, CoverInv, SerialInv, GapOnlyInRotation
<1> QED
  BY <1>1, <1>2, <1>3, <1>4, <1>5, <1>6, <1>7, <1>8, <1>9 DEF Next, RotatorStep

\* Types and the inductive invariant hold in every reachable state.
THEOREM KeyInvariance == Spec => [](TypeOK /\ KeyInv)
<1>1. Init => TypeOK /\ KeyInv
  <2> SUFFICES ASSUME Init PROVE TypeOK /\ KeyInv
    OBVIOUS
  <2> USE KeyAssumption DEF Init, Active, IdleRotator, IdleIssuer
  <2>1. TypeOK
    <3>1. shownFor \in [KeyId -> 0..PublishTTL] /\ token \in [KeyId -> 0..AccessTTL]
      OBVIOUS
    <3>2. rot \in [Rotator -> [pc : {"idle", "generated", "cleared"},
                               kid : KeyId \cup {NoKey}]]
      OBVIOUS
    <3>3. iss \in [Issuer -> [kid : KeyId \cup {NoKey}, held : 0..SignDelay]]
      <4>1. 0 \in 0..SignDelay OBVIOUS
      <4> QED BY <4>1
    <3>4. overlap \in BOOLEAN /\ halfDone \in BOOLEAN OBVIOUS
    <3>5. made \in Nat OBVIOUS
    <3>6. copy \in [RelyingParty -> SUBSET KeyId] /\ since \in [RelyingParty -> SUBSET KeyId]
      OBVIOUS
    <3> QED BY <3>1, <3>2, <3>3, <3>4, <3>5, <3>6 DEF TypeOK
  <2>2. CoverInv BY DEF CoverInv
  <2>3. SerialInv BY DEF SerialInv
  <2>4. GapOnlyInRotation BY DEF GapOnlyInRotation
  <2>5. CopyInv BY DEF CopyInv, JWKS, Listed
  <2>6. NewKeysInv BY DEF NewKeysInv
  <2> QED BY <2>1, <2>2, <2>3, <2>4, <2>5, <2>6 DEF KeyInv
<1>2. TypeOK /\ KeyInv /\ [Next]_vars => (TypeOK /\ KeyInv)'
  BY TypeStep, KeyStep
<1> QED
  BY <1>1, <1>2, PTL DEF Spec

\* The key of every unexpired token is in the JWKS document, for every token
\* lifetime and publication window with room for the signing delay.
THEOREM TokensListed == Spec => []LiveTokensListed
<1>1. TypeOK /\ KeyInv => LiveTokensListed
  BY KeyAssumption DEF TypeOK, KeyInv, CoverInv, LiveTokensListed, JWKS, Listed, Active
<1> QED
  BY KeyInvariance, <1>1, PTL

\* A relying party with an old copy of the key set misses only keys that were
\* inserted after it fetched the copy.
THEOREM CopiesMissNewKeys == Spec => []CopiesMissOnlyNewKeys
<1>1. LiveTokensListed /\ CopyInv => CopiesMissOnlyNewKeys
  BY DEF LiveTokensListed, CopyInv, CopiesMissOnlyNewKeys
<1>2. TypeOK /\ KeyInv => CopyInv
  BY DEF KeyInv
<1> QED
  BY KeyInvariance, TokensListed, <1>1, <1>2, PTL

\* Rotators that never overlap leave at most one active key, dying or not.
THEOREM OneActive == Spec => []OneActiveUnlessOverlap
<1>1. KeyInv => OneActiveUnlessOverlap
  BY DEF KeyInv, SerialInv, OneActiveUnlessOverlap
<1> QED
  BY KeyInvariance, <1>1, PTL

\* Only a rotation under way or one that died after DeactivateAll leaves the
\* server without a key to sign with.
THEOREM GapInRotation == Spec => []GapOnlyInRotation
  BY KeyInvariance, PTL DEF KeyInv

\* Types and key invariant together, for every number of keys, rotators and
\* issuers (jwt_service.go, key-rotator/main.go).
THEOREM Inductive == Spec => []IInv
  BY KeyInvariance, PTL DEF IInv

-----------------------------------------------------------------------------
(* Refinement *)

\* A step that leaves the table, the tokens and the set alone does not show.
LEMMA Hidden ==
    ASSUME UNCHANGED <<key, shownFor, token>>
    PROVE  UNCHANGED Published!vars
  BY DEF Published!vars, JWKS, Listed, Active, Dropped, LiveKeys

\* Every step of SigningKeys is a step of KeySet or leaves it unchanged.
LEMMA RefinementStep == TypeOK /\ KeyInv /\ [Next]_vars => [Published!Next]_(Published!vars)
<1> SUFFICES ASSUME TypeOK, KeyInv, [Next]_vars PROVE [Published!Next]_(Published!vars)
  OBVIOUS
<1> USE KeyAssumption DEF TypeOK
<1>1. ASSUME UNCHANGED <<key, shownFor, token>> PROVE [Published!Next]_(Published!vars)
  BY <1>1, Hidden
<1>2. ASSUME NEW p \in Rotator, DeactivateAll(p) PROVE [Published!Next]_(Published!vars)
  <2>1. \A k \in KeyId :
          \/ key[k] = "active" /\ key'[k] = "rotated" /\ shownFor'[k] = PublishTTL
          \/ key[k] # "active" /\ key'[k] = key[k] /\ shownFor'[k] = shownFor[k]
    BY <1>2 DEF DeactivateAll, Active
  <2>1a. PublishTTL > 0
    OBVIOUS
  <2>2. \A k \in KeyId : Listed(k)' <=> Listed(k)
    BY <2>1, <2>1a DEF Listed, Active
  <2>3. Dropped' = Dropped
    BY <2>1, <2>1a DEF Dropped
  <2>4. LiveKeys' = LiveKeys /\ JWKS' = JWKS
    BY <1>2, <2>2 DEF DeactivateAll, LiveKeys, JWKS, Listed, Active
  <2> QED BY <2>3, <2>4 DEF Published!vars
<1>3. ASSUME NEW p \in Rotator, Insert(p) PROVE [Published!Next]_(Published!vars)
  <2>1. PICK k \in KeyId : k = rot[p].kid /\ key[k] = "none"
    BY <1>3 DEF Insert, KeyInv, NewKeysInv
  <2>2. /\ key'[k] = "active" /\ \A j \in KeyId \ {k} : key'[j] = key[j]
        /\ UNCHANGED <<shownFor, token>>
    BY <1>3, <2>1 DEF Insert
  <2>3. k \notin JWKS \cup Dropped /\ JWKS' = JWKS \cup {k}
    BY <2>1, <2>2 DEF JWKS, Listed, Active, Dropped
  <2>4. Dropped' = Dropped /\ LiveKeys' = LiveKeys
    BY <2>1, <2>2 DEF Dropped, LiveKeys
  <2>5. Published!Publish(k)
    BY <2>3, <2>4 DEF Published!Publish
  <2> QED BY <2>5 DEF Published!Next
<1>4. ASSUME NEW i \in Issuer, Sign(i) PROVE [Published!Next]_(Published!vars)
  <2>1. PICK k \in KeyId : k = iss[i].kid /\ iss[i].held \in 0..SignDelay
    BY <1>4 DEF Sign
  <2>2. Active(k) \/ (key[k] = "rotated" /\ AccessTTL + (SignDelay - iss[i].held) <= shownFor[k])
    BY <1>4, <2>1 DEF Sign, KeyInv, CoverInv
  <2>2a. AccessTTL + (SignDelay - iss[i].held) > 0 /\ shownFor[k] \in Int
    <3>1. ASSUME NEW h \in 0..SignDelay PROVE AccessTTL + (SignDelay - h) > 0
      OBVIOUS
    <3> QED BY <2>1, <3>1
  <2>2b. Listed(k)
    BY <2>2, <2>2a DEF Listed
  <2>3. /\ token'[k] = AccessTTL /\ \A j \in KeyId \ {k} : token'[j] = token[j]
        /\ UNCHANGED <<key, shownFor>>
    BY <1>4, <2>1 DEF Sign
  <2>4. LiveKeys' = LiveKeys \cup {k}
    BY <2>3 DEF LiveKeys
  <2>5. k \in JWKS /\ JWKS' = JWKS /\ Dropped' = Dropped
    BY <2>2b, <2>3 DEF JWKS, Listed, Active, Dropped
  <2>6. Published!Sign(k)
    BY <2>4, <2>5 DEF Published!Sign
  <2> QED BY <2>6 DEF Published!Next
<1>5. ASSUME Tick PROVE [Published!Next]_(Published!vars)
  <2> DEFINE L == LiveKeys \ LiveKeys'
             W == JWKS \ JWKS'
  <2>1. /\ UNCHANGED key
        /\ \A k \in KeyId : shownFor'[k] = Dec(shownFor[k]) /\ token'[k] = Dec(token[k])
    BY <1>5 DEF Tick
  <2>2. LiveKeys' = LiveKeys \ L
    BY <2>1 DEF LiveKeys, Dec
  <2>3. JWKS' = JWKS \ W
    BY <2>1 DEF JWKS, Listed, Active, Dec
  <2>4. Dropped' = Dropped \cup W
    BY <2>1 DEF Dropped, JWKS, Listed, Active, Dec
  <2>5. W \cap LiveKeys' = {}
    BY KeyStep, TypeStep DEF KeyInv, CoverInv, LiveKeys, JWKS, Listed, Active
  <2>6. Published!Elapse(L, W)
    BY <2>2, <2>3, <2>4, <2>5 DEF Published!Elapse
  <2>7. L \in SUBSET KeyId /\ W \in SUBSET KeyId
    BY DEF LiveKeys, JWKS, Listed, Active
  <2> QED BY <2>6, <2>7 DEF Published!Next
<1> QED
  BY <1>1, <1>2, <1>3, <1>4, <1>5
     DEF Next, RotatorStep, Generate, RotatorDies, GetActive, Fetch, vars

\* The promise of a published key set holds for any number of keys, rotators
\* and issuers, with rotators overlapping and dying.
THEOREM Refinement == Spec => RefinesKeySet
<1>1. Init => Published!Init
  BY DEF Init, Published!Init, JWKS, Listed, Active, Dropped, LiveKeys
<1> QED
  BY <1>1, KeyInvariance, RefinementStep, PTL DEF Spec, RefinesKeySet, Published!Spec

=============================================================================
