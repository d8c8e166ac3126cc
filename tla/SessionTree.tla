----------------------------- MODULE SessionTree -----------------------------
(***************************************************************************)
(* What the session table promises to the rest of the server, whatever the *)
(* endpoints that write it do and however their calls interleave:          *)
(*                                                                         *)
(*   - a row is inserted once, live, and revocation is the only change it  *)
(*     ever sees (sessions.revoked_at never goes back to NULL);            *)
(*   - a row with a parent_session_id is only inserted when that parent is *)
(*     already revoked, so a rotated refresh token is dead before its      *)
(*     successor exists.                                                   *)
(*                                                                         *)
(* Sessions.tla, the step-by-step model of the endpoints, implements it.   *)
(***************************************************************************)
CONSTANTS SessionId,   \* session ids (UUIDs; a row's refresh token is named by its id)
          NoSession    \* NULL parent_session_id

VARIABLES status,      \* status[s]: "absent" (no row), "active" or "revoked"
          parent       \* parent[s]: parent_session_id

vars == <<status, parent>>

Init == /\ status = [s \in SessionId |-> "absent"]
        /\ parent = [s \in SessionId |-> NoSession]

\* A first session of a family: login, MFA completion, passkey login, code grant.
Open(s) == /\ status[s] = "absent"
           /\ status' = [status EXCEPT ![s] = "active"]
           /\ UNCHANGED parent

Revoke(s) == /\ status[s] = "active"
             /\ status' = [status EXCEPT ![s] = "revoked"]
             /\ UNCHANGED parent

\* The row that a refresh puts in the place of its revoked parent p.
Succeed(p, c) == /\ status[p] = "revoked"
                 /\ status[c] = "absent"
                 /\ status' = [status EXCEPT ![c] = "active"]
                 /\ parent' = [parent EXCEPT ![c] = p]

Next == \/ \E s \in SessionId : Open(s) \/ Revoke(s)
        \/ \E p, c \in SessionId : Succeed(p, c)

Spec == Init /\ [][Next]_vars

=============================================================================
