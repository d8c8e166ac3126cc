-------------------------- MODULE SessionRetention --------------------------
(***************************************************************************)
(* The worker's session cleanup against the rows the refresh endpoints     *)
(* leave behind.  Every rotation links the new row to the revoked one      *)
(* (parent_session_id), the schema declares that column REFERENCES         *)
(* sessions(id) without ON DELETE, and the worker removes all rows past    *)
(* the retention time with one DELETE statement: Postgres rejects the      *)
(* whole statement when a row it would keep refers to a row it would       *)
(* delete.                                                                 *)
(*                                                                         *)
(* Rotations are single steps here: Sessions.tla has their interleavings.  *)
(* Time runs in units of the clock; a row keeps the time left until        *)
(* expires_at (negative once past it) and the time since revoked_at, both  *)
(* only as far as the retention test can tell them apart.  The id of a     *)
(* deleted row stands for a new UUID when it is used again.                *)
(***************************************************************************)
EXTENDS Integers

CONSTANTS SessionId,   \* ids; their number bounds the rows present at a time
          NoSession,   \* NULL parent_session_id
          RefreshTTL,  \* refreshTokenTTL, 7 days in the code
          Retention    \* sessionRetention, 30 days in the code

ASSUME RetentionAssumption ==
    /\ RefreshTTL \in Nat \ {0}
    /\ Retention \in Nat
    /\ NoSession \notin SessionId

VARIABLES status,      \* "absent" (no row), "active" or "revoked"
          parent,      \* parent_session_id
          expiry,      \* expires_at - now, not below Forgotten
          revokedFor,  \* now - revoked_at, not above Retention + 1
          pass         \* what the last cleanup logged: "none", "deleted" or "failed"

vars == <<status, parent, expiry, revokedFor, pass>>

Forgotten == -(Retention + 1)

\* Usable by the refresh endpoints: not revoked, now not after expires_at.
Live(s) == status[s] = "active" /\ expiry[s] >= 0

\* Faulty variant: rows that were revoked are forgotten.
EligibleExpiredUnrevoked(s) == status[s] = "active" /\ expiry[s] < -Retention

\* The WHERE clause of DeleteExpiredOrRevoked with cutoff = now - retention.
Eligible(s) ==
    \/ status[s] # "absent" /\ expiry[s] < -Retention
    \/ status[s] = "revoked" /\ revokedFor[s] > Retention

\* Rows that the foreign key protects from the statement.
Referenced(s) == \E c \in SessionId : parent[c] = s /\ ~Eligible(c)

-----------------------------------------------------------------------------
Init ==
    /\ status = [s \in SessionId |-> "absent"]
    /\ parent = [s \in SessionId |-> NoSession]
    /\ expiry = [s \in SessionId |-> Forgotten]
    /\ revokedFor = [s \in SessionId |-> 0]
    /\ pass = "none"

\* Login and the other flows that open a family.
Open(s) ==
    /\ status[s] = "absent"
    /\ status' = [status EXCEPT ![s] = "active"]
    /\ expiry' = [expiry EXCEPT ![s] = RefreshTTL]
    /\ UNCHANGED <<parent, revokedFor, pass>>

\* A refresh of s inserting c.  s is live, or was revoked a moment ago by a
\* refresh that overlaps this one; revoked_at is written either way.
Rotate(s, c) ==
    /\ Live(s) \/ (status[s] = "revoked" /\ revokedFor[s] = 0 /\ expiry[s] >= 0)
    /\ status[c] = "absent"
    /\ status' = [status EXCEPT ![s] = "revoked", ![c] = "active"]
    /\ expiry' = [expiry EXCEPT ![c] = RefreshTTL]
    /\ revokedFor' = [revokedFor EXCEPT ![s] = 0]
    /\ parent' = [parent EXCEPT ![c] = s]
    /\ UNCHANGED pass

\* A logout; it does not look at expires_at.
Logout(s) ==
    /\ status[s] = "active"
    /\ status' = [status EXCEPT ![s] = "revoked"]
    /\ revokedFor' = [revokedFor EXCEPT ![s] = 0]
    /\ UNCHANGED <<parent, expiry, pass>>

\* One pass of the cleanup loop: the statement deletes every eligible row, or
\* fails on the foreign key and is logged.
Delete(S) ==
    /\ status' = [s \in SessionId |-> IF s \in S THEN "absent" ELSE status[s]]
    /\ parent' = [s \in SessionId |-> IF s \in S THEN NoSession ELSE parent[s]]
    /\ expiry' = [s \in SessionId |-> IF s \in S THEN Forgotten ELSE expiry[s]]
    /\ revokedFor' = [s \in SessionId |-> IF s \in S THEN 0 ELSE revokedFor[s]]

Cleanup ==
    LET doomed == {s \in SessionId : Eligible(s)}
    IN  IF \E s \in doomed : Referenced(s)
        THEN /\ pass' = "failed"
             /\ UNCHANGED <<status, parent, expiry, revokedFor>>
        ELSE /\ Delete(doomed)
             /\ pass' = "deleted"

Tick ==
    /\ expiry' = [s \in SessionId |->
                    IF expiry[s] > Forgotten THEN expiry[s] - 1 ELSE Forgotten]
    /\ revokedFor' = [s \in SessionId |->
                    IF status[s] = "revoked" /\ revokedFor[s] <= Retention
                    THEN revokedFor[s] + 1 ELSE revokedFor[s]]
    /\ UNCHANGED <<status, parent, pass>>

Refresh == \E s, c \in SessionId : Rotate(s, c)

Next == \/ \E s \in SessionId : Open(s) \/ Logout(s)
        \/ Refresh
        \/ Cleanup
        \/ Tick

Spec == Init /\ [][Next]_vars

-----------------------------------------------------------------------------
(* Properties *)

TypeOK ==
    /\ status \in [SessionId -> {"absent", "active", "revoked"}]
    /\ parent \in [SessionId -> SessionId \cup {NoSession}]
    /\ expiry \in [SessionId -> Forgotten..RefreshTTL]
    /\ revokedFor \in [SessionId -> 0..(Retention + 1)]
    /\ pass \in {"none", "deleted", "failed"}

\* A row's predecessors stay as long as the row does: the cleanup never leaves
\* a session whose parent_session_id points nowhere, though predecessors reach
\* the retention limit before their successors do (repository.go:172).
AncestryKept ==
    \A s \in SessionId :
        parent[s] # NoSession => status[parent[s]] = "revoked"

\* What the worker says it does: "Periodically delete sessions where
\* expires_at < now()-retention or revoked_at < now()-retention".  After a
\* pass of the cleanup no such row is left.
CleanupDeletesEligible ==
    [][pass' # pass => \A s \in SessionId : ~Eligible(s)']_vars

=============================================================================
