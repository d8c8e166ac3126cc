---------------------------- MODULE SigningKeys ----------------------------
(***************************************************************************)
(* The signing keys: the key-rotator command, JWTService.Issue and the     *)
(* JWKS endpoint over the table signing_keys.  The rotator makes three     *)
(* separate moves (generate, deactivate all, insert) with no transaction   *)
(* around them, and nothing prevents two rotators from running at once or  *)
(* one from dying half-way.  An issuer reads the active key and then signs *)
(* with it, so a rotation may fall in between.                             *)
(*                                                                         *)
(* Time is kept as countdowns (see Sessions).  Between reading a key and   *)
(* having signed with it an issuer makes no call that can block; SignDelay *)
(* bounds the time that takes.                                             *)
(*                                                                         *)
(* Relying parties (external) verify tokens with a copy of the key set.    *)
(* Cache-Control lets them keep it for an hour; here they may keep it for  *)
(* any time, so what is shown does not depend on their honouring it.       *)
(***************************************************************************)
EXTENDS Integers

CONSTANTS KeyId,       \* key ids (kid); their number bounds the rotations
          Rotator,     \* runs of the key-rotator command
          Issuer,      \* requests that issue tokens
          RelyingParty, \* services that verify tokens with a copy of the key set
          NoKey,
          AccessTTL,   \* lifetime of the tokens, 15 minutes in the code
          PublishTTL,  \* how long ListPublic shows a rotated key, 7 days
          SignDelay,   \* bound on the time from GetActive to the signature
          Crashes      \* TRUE: a rotator may fail between two of its moves

ASSUME KeyAssumption ==
    /\ AccessTTL \in Nat \ {0}
    /\ SignDelay \in Nat
    /\ PublishTTL \in Nat
    /\ PublishTTL >= AccessTTL + SignDelay
    /\ NoKey \notin KeyId
    /\ Crashes \in BOOLEAN

VARIABLES
    \* table signing_keys
    key,        \* "none", "active" (is_active) or "rotated" (rotated_at set)
    stamp,      \* created_at, as the position among all generated keys; 0 before
    made,       \* how many keys have been generated
    shownFor,   \* time left until ListPublic drops a rotated key
    \* processes
    rot,        \* rot[p]: where rotator p is and the key it carries
    iss,        \* iss[i]: the key issuer i signs with, and for how long it has it
    \* clients
    token,      \* token[k]: time left of the last token signed with k
    copy,       \* copy[v]: the key set as relying party v last fetched it
    \* history, read by the properties only
    overlap,    \* two rotators have been at work at the same time
    halfDone,   \* a rotator died after DeactivateAll and none has finished since
    since       \* since[v]: keys inserted since v fetched its copy

vars == <<key, stamp, made, shownFor, rot, iss, token, copy, overlap, halfDone, since>>

IdleRotator == [pc |-> "idle", kid |-> NoKey]
IdleIssuer == [kid |-> NoKey, held |-> 0]

Dec(t) == IF t > 0 THEN t - 1 ELSE 0

Active(k) == key[k] = "active"

\* SELECT ... WHERE is_active ORDER BY created_at DESC LIMIT 1.
Newest(k) == /\ Active(k)
             /\ \A j \in KeyId : Active(j) => stamp[j] <= stamp[k]

\* Faulty variant: rotated keys are dropped from the key set at once.
ListedWhileActive(k) == Active(k)

\* ListPublic: rotated_at IS NULL or within the last PublishTTL.
Listed(k) == Active(k) \/ (key[k] = "rotated" /\ shownFor[k] > 0)

\* GET /.well-known/jwks.json.
JWKS == {k \in KeyId : Listed(k)}

-----------------------------------------------------------------------------
Init ==
    /\ key = [k \in KeyId |-> "none"]
    /\ stamp = [k \in KeyId |-> 0]
    /\ made = 0
    /\ shownFor = [k \in KeyId |-> 0]
    /\ rot = [p \in Rotator |-> IdleRotator]
    /\ iss = [i \in Issuer |-> IdleIssuer]
    /\ token = [k \in KeyId |-> 0]
    /\ copy = [v \in RelyingParty |-> {}]
    /\ overlap = FALSE
    /\ halfDone = FALSE
    /\ since = [v \in RelyingParty |-> {}]

(* key-rotator *)

\* Faulty variant: the id is not a new one (made from the date, say).
GenerateOldId(p, k) ==
    /\ rot[p].pc = "idle"
    /\ made < 3
    /\ made' = made + 1
    /\ stamp' = [stamp EXCEPT ![k] = made + 1]
    /\ rot' = [rot EXCEPT ![p] = [pc |-> "generated", kid |-> k]]
    /\ overlap' = (overlap \/ \E q \in Rotator \ {p} : rot[q].pc # "idle")
    /\ UNCHANGED <<key, shownFor, iss, token, halfDone, copy, since>>

\* GenerateKey: a new id, is_active and created_at, in memory only.
Generate(p, k) ==
    /\ rot[p].pc = "idle"
    /\ stamp[k] = 0
    /\ made' = made + 1
    /\ stamp' = [stamp EXCEPT ![k] = made + 1]
    /\ rot' = [rot EXCEPT ![p] = [pc |-> "generated", kid |-> k]]
    /\ overlap' = (overlap \/ \E q \in Rotator \ {p} : rot[q].pc # "idle")
    /\ UNCHANGED <<key, shownFor, iss, token, halfDone, copy, since>>

\* Faulty variant: existing keys are left active.
DeactivateNone(p) ==
    /\ rot[p].pc = "generated"
    /\ rot' = [rot EXCEPT ![p].pc = "cleared"]
    /\ UNCHANGED <<key, stamp, made, shownFor, iss, token, overlap, halfDone, copy, since>>

\* UPDATE ... SET is_active = false, rotated_at = NOW() WHERE is_active.
DeactivateAll(p) ==
    /\ rot[p].pc = "generated"
    /\ key' = [k \in KeyId |-> IF Active(k) THEN "rotated" ELSE key[k]]
    /\ shownFor' = [k \in KeyId |-> IF Active(k) THEN PublishTTL ELSE shownFor[k]]
    /\ rot' = [rot EXCEPT ![p].pc = "cleared"]
    /\ UNCHANGED <<stamp, made, iss, token, overlap, halfDone, copy, since>>

\* Faulty variant: the new key is inserted with is_active = false.
InsertInactive(p) ==
    /\ rot[p].pc = "cleared"
    /\ key' = [key EXCEPT ![rot[p].kid] = "rotated"]
    /\ rot' = [rot EXCEPT ![p] = IdleRotator]
    /\ halfDone' = FALSE
    /\ since' = [v \in RelyingParty |-> since[v] \cup {rot[p].kid}]
    /\ UNCHANGED <<stamp, made, shownFor, iss, token, overlap, copy>>

Insert(p) ==
    /\ rot[p].pc = "cleared"
    /\ key' = [key EXCEPT ![rot[p].kid] = "active"]
    /\ rot' = [rot EXCEPT ![p] = IdleRotator]
    /\ halfDone' = FALSE
    /\ since' = [v \in RelyingParty |-> since[v] \cup {rot[p].kid}]
    /\ UNCHANGED <<stamp, made, shownFor, iss, token, overlap, copy>>

\* os.Exit(1) after an error, or the process is killed; its key is lost.
RotatorDies(p) ==
    /\ Crashes
    /\ rot[p].pc # "idle"
    /\ rot' = [rot EXCEPT ![p] = IdleRotator]
    /\ halfDone' = (halfDone \/ rot[p].pc = "cleared")
    /\ UNCHANGED <<key, stamp, made, shownFor, iss, token, overlap, copy, since>>

(* JWTService.Issue *)

\* GetActive; with no active key Issue returns an error and changes nothing.
GetActive(i, k) ==
    /\ iss[i].kid = NoKey
    /\ Newest(k)
    /\ iss' = [iss EXCEPT ![i] = [kid |-> k, held |-> 0]]
    /\ UNCHANGED <<key, stamp, made, shownFor, rot, token, overlap, halfDone, copy, since>>

\* Faulty variant: the token is given the lifetime of the published key.
SignForPublishTTL(i) ==
    /\ iss[i].kid # NoKey
    /\ token' = [token EXCEPT ![iss[i].kid] = PublishTTL]
    /\ iss' = [iss EXCEPT ![i] = IdleIssuer]
    /\ UNCHANGED <<key, stamp, made, shownFor, rot, overlap, halfDone, copy, since>>

Sign(i) ==
    /\ iss[i].kid # NoKey
    /\ token' = [token EXCEPT ![iss[i].kid] = AccessTTL]
    /\ iss' = [iss EXCEPT ![i] = IdleIssuer]
    /\ UNCHANGED <<key, stamp, made, shownFor, rot, overlap, halfDone, copy, since>>

(* Relying parties (external) *)

\* A relying party fetches the key set anew.
Fetch(v) ==
    /\ copy' = [copy EXCEPT ![v] = JWKS]
    /\ since' = [since EXCEPT ![v] = {}]
    /\ UNCHANGED <<key, stamp, made, shownFor, rot, iss, token, overlap, halfDone>>

\* Time passes, but not past SignDelay while an issuer is signing.
Tick ==
    /\ \A i \in Issuer : iss[i].kid # NoKey => iss[i].held < SignDelay
    /\ shownFor' = [k \in KeyId |-> Dec(shownFor[k])]
    /\ token' = [k \in KeyId |-> Dec(token[k])]
    /\ iss' = [i \in Issuer |-> IF iss[i].kid = NoKey THEN iss[i]
                                ELSE [kid |-> iss[i].kid, held |-> iss[i].held + 1]]
    /\ UNCHANGED <<key, stamp, made, rot, overlap, halfDone, copy, since>>

RotatorStep(p) == DeactivateAll(p) \/ Insert(p)

Next == \/ \E p \in Rotator : \/ \E k \in KeyId : Generate(p, k)
                              \/ RotatorStep(p)
                              \/ RotatorDies(p)
        \/ \E i \in Issuer : \/ \E k \in KeyId : GetActive(i, k)
                             \/ Sign(i)
        \/ \E v \in RelyingParty : Fetch(v)
        \/ Tick

Spec == Init /\ [][Next]_vars

\* A rotator that does not die runs to its end.
FairSpec == Spec /\ \A p \in Rotator : WF_vars(RotatorStep(p))

-----------------------------------------------------------------------------
(* Properties *)

TypeOK ==
    /\ key \in [KeyId -> {"none", "active", "rotated"}]
    /\ stamp \in [KeyId -> Nat]
    /\ made \in Nat
    /\ shownFor \in [KeyId -> 0..PublishTTL]
    /\ rot \in [Rotator -> [pc : {"idle", "generated", "cleared"},
                            kid : KeyId \cup {NoKey}]]
    /\ iss \in [Issuer -> [kid : KeyId \cup {NoKey}, held : 0..SignDelay]]
    /\ token \in [KeyId -> 0..AccessTTL]
    /\ copy \in [RelyingParty -> SUBSET KeyId]
    /\ overlap \in BOOLEAN
    /\ halfDone \in BOOLEAN
    /\ since \in [RelyingParty -> SUBSET KeyId]

\* Whoever verifies tokens with the JWKS endpoint finds the key of every token
\* that has not expired, even one signed with a key that was rotated between
\* the issuer's read of it and the signature (jwt_service.go:37-70,
\* repository.go:83).
LiveTokensListed == \A k \in KeyId : token[k] > 0 => k \in JWKS

\* However old its copy of the key set is, a relying party refuses a token that
\* has not expired only if the key was inserted after the copy was fetched:
\* rotations, also several of them or ones that died half-way, never leave a
\* copy without a key that existed then and still signs or has signed a live
\* token (jwks.go:56, repository.go:83).
CopiesMissOnlyNewKeys ==
    \A v \in RelyingParty, k \in KeyId :
        token[k] > 0 /\ k \notin copy[v] => k \in since[v]

\* Two keys are active at once only if two rotators overlapped: a rotator that
\* dies at any point never causes it (main.go:34-48).
OneActiveUnlessOverlap ==
    \A j, k \in KeyId : j # k /\ Active(j) /\ Active(k) => overlap

\* Once there has been a key, there is none to sign with (so that every login
\* and refresh fails) only while a rotator stands between DeactivateAll and
\* Create, or after one died there.
GapOnlyInRotation ==
    /\ \E k \in KeyId : key[k] = "rotated"
    /\ \A k \in KeyId : ~Active(k)
    => halfDone \/ \E p \in Rotator : rot[p].pc = "cleared"

\* Tokens and signatures under way stay within what the key set will show.
CoverInv ==
    /\ \A k \in KeyId : token[k] > 0 =>
         Active(k) \/ (key[k] = "rotated" /\ token[k] <= shownFor[k])
    /\ \A i \in Issuer : iss[i].kid # NoKey =>
         \/ Active(iss[i].kid)
         \/ /\ key[iss[i].kid] = "rotated"
            /\ AccessTTL + (SignDelay - iss[i].held) <= shownFor[iss[i].kid]

\* Rotators that have run one after the other.
SerialInv ==
    ~overlap =>
      /\ \A p, q \in Rotator : p # q => rot[p].pc = "idle" \/ rot[q].pc = "idle"
      /\ \A p \in Rotator, k \in KeyId : rot[p].pc = "cleared" => ~Active(k)
      /\ \A j, k \in KeyId : Active(j) /\ Active(k) => j = k

\* What is listed now was listed at the fetch, or has been inserted since.
CopyInv == \A v \in RelyingParty : JWKS \subseteq copy[v] \cup since[v]

\* A rotator's key is its own and not in the table until it inserts it.
NewKeysInv ==
    /\ \A k \in KeyId : key[k] # "none" => stamp[k] > 0
    /\ \A p \in Rotator : rot[p].pc # "idle" =>
         /\ rot[p].kid \in KeyId
         /\ key[rot[p].kid] = "none" /\ stamp[rot[p].kid] > 0
    /\ \A p, q \in Rotator :
         rot[p].pc # "idle" /\ rot[q].pc # "idle" /\ rot[p].kid = rot[q].kid => p = q

\* The inductive invariant behind the properties above: every token and
\* every signature under way is covered by the time its key remains listed,
\* and a rotator past GenerateKey carries a key (main.go:34-48,
\* jwt_service.go:37-70).
KeyInv ==
    /\ CoverInv
    /\ SerialInv
    /\ GapOnlyInRotation
    /\ CopyInv
    /\ NewKeysInv

\* The gap a rotation opens is closed again, unless the rotator dies in it
\* (main.go:40-48).
GapCloses ==
    (\E p \in Rotator : rot[p].pc = "cleared") ~> (halfDone \/ \E k \in KeyId : Active(k))

\* Keys that ListPublic has dropped, and keys of tokens that have not expired.
Dropped == {k \in KeyId : key[k] = "rotated" /\ shownFor[k] = 0}
LiveKeys == {k \in KeyId : token[k] > 0}

Published == INSTANCE KeySet WITH shown <- JWKS, withdrawn <- Dropped, live <- LiveKeys

\* The table, the rotators and the issuers together keep the promise of a
\* published key set: a key comes into it once, goes out once, and not before
\* the last token signed with it expires, though an issuer may still be signing
\* with a key that was rotated meanwhile (main.go:34-48, jwt_service.go:37-70,
\* repository.go:83-98).
RefinesKeySet == Published!Spec

\* The inductive invariant with the types it needs: a rotation or a signature
\* under way knows how long its key stays published (jwt_service.go:36-71).
IInv == TypeOK /\ KeyInv

=============================================================================
