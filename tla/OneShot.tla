------------------------------ MODULE OneShot ------------------------------
(***************************************************************************)
(* What a one-time ticket promises: it is issued to one holder, it opens   *)
(* at most one session, and that session is the holder's.  A ticket that   *)
(* is not redeemed may become void at any time (it expires, or an attempt  *)
(* to redeem it is refused), and no void or redeemed ticket comes back.    *)
(*                                                                         *)
(* MFA challenges (SignIn), authorization codes (OAuthCode) and WebAuthn   *)
(* ceremonies (Passkeys; a ceremony opens a passkey or a session, and its  *)
(* holder is what it was begun for) implement it.                          *)
(***************************************************************************)
CONSTANTS Ticket, Holder, SessionId,
          None              \* a ticket that has not been issued has no holder

VARIABLES holder,           \* holder[t], for good once t is issued
          usable,           \* tickets that can still open a session
          opened            \* sessions opened with a ticket

vars == <<holder, usable, opened>>

Init == /\ holder = [t \in Ticket |-> None]
        /\ usable = {}
        /\ opened = {}

Issue(t, h) == /\ holder[t] = None
               /\ holder' = [holder EXCEPT ![t] = h]
               /\ usable' = usable \cup {t}
               /\ UNCHANGED opened

Redeem(t, s) == /\ t \in usable
                /\ usable' = usable \ {t}
                /\ opened' = opened \cup {[sid |-> s, ticket |-> t, who |-> holder[t]]}
                /\ UNCHANGED holder

Void(T) == /\ usable' = usable \ T
           /\ UNCHANGED <<holder, opened>>

Next == \/ \E T \in SUBSET Ticket : Void(T)
        \/ \E t \in Ticket, h \in Holder : Issue(t, h)
        \/ \E t \in Ticket, s \in SessionId : Redeem(t, s)

Spec == Init /\ [][Next]_vars

=============================================================================
