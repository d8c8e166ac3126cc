------------------------------- MODULE KeySet -------------------------------
(***************************************************************************)
(* What the published key set promises to those who verify tokens with it: *)
(* a key is published once and, when it has been taken out, never again;   *)
(* tokens are signed with published keys only; and no key is taken out     *)
(* while a token signed with it has not expired.                           *)
(*                                                                         *)
(* SigningKeys, with its rotators, issuers and countdowns, implements it.  *)
(***************************************************************************)
CONSTANT KeyId

VARIABLES shown,     \* keys in the set
          withdrawn, \* keys that were in the set before
          live       \* keys with a token that has not expired

vars == <<shown, withdrawn, live>>

Init == /\ shown = {}
        /\ withdrawn = {}
        /\ live = {}

Publish(k) == /\ k \notin shown \cup withdrawn
              /\ shown' = shown \cup {k}
              /\ UNCHANGED <<withdrawn, live>>

Sign(k) == /\ k \in shown
           /\ live' = live \cup {k}
           /\ UNCHANGED <<shown, withdrawn>>

\* Time passes: the last tokens of the keys in L expire, and the keys in W,
\* none of which is needed any longer, leave the set.
Elapse(L, W) == /\ live' = live \ L
                /\ W \subseteq shown
                /\ W \cap live' = {}
                /\ shown' = shown \ W
                /\ withdrawn' = withdrawn \cup W

Next == \/ \E k \in KeyId : Publish(k) \/ Sign(k)
        \/ \E L, W \in SUBSET KeyId : Elapse(L, W)

Spec == Init /\ [][Next]_vars

=============================================================================
