------------------------------- MODULE Worker -------------------------------
(***************************************************************************)
(* The worker command: the audit consumer and the session cleanup in one   *)
(* process, under one context that a signal cancels.  The cleanup runs at  *)
(* the start of the process and then at every tick of its ticker; a pass   *)
(* that fails is logged, and the next one tries again.  Users open, rotate *)
(* and end sessions meanwhile, and several workers may run.                *)
(***************************************************************************)
EXTENDS SessionRetention, Audit

workerVars == <<vars, auditVars>>

\* A pass of the cleanup; its statement may end just before the cancellation
\* reaches it.
Pass(w) ==
    /\ proc[w] # "down"
    /\ Cleanup
    /\ UNCHANGED auditVars

\* The statement fails on the connection, or ctx is cancelled before it ends.
PassFails(w) ==
    /\ proc[w] = "stopping" \/ (proc[w] = "up" /\ Faults)
    /\ pass' = "failed"
    /\ UNCHANGED <<status, parent, expiry, revokedFor, auditVars>>

Users ==
    /\ \/ \E s \in SessionId : Open(s) \/ Logout(s)
       \/ Refresh
       \/ Tick
    /\ UNCHANGED auditVars

WorkerInit == Init /\ AuditInit

WorkerNext ==
    \/ Users
    \/ AuditNext /\ UNCHANGED vars
    \/ \E w \in WorkerId : Pass(w) \/ PassFails(w)

WorkerSpec == WorkerInit /\ [][WorkerNext]_workerVars

AuditStep(w) == WorkerStep(w) /\ UNCHANGED vars
Route == (\E e \in Event : Deliver(e)) /\ UNCHANGED vars
Clock == Tick /\ UNCHANGED auditVars

\* Time passes, NATS routes, a worker's goroutines go on.  A worker that is
\* up again and again completes a pass at last: it makes one as it starts.
\* Nobody has to start a worker.
WorkerFairSpec ==
    /\ WorkerSpec
    /\ WF_workerVars(Clock) /\ WF_workerVars(Route)
    /\ \A w \in WorkerId :
         /\ WF_workerVars(AuditStep(w))
         /\ SF_workerVars(proc[w] = "up" /\ Pass(w))

-----------------------------------------------------------------------------
(* Properties *)

\* An emitted event reaches its end: it is in the table, or every worker has
\* missed it.  No shutdown, restart or failing insert leaves one pending for
\* ever (consumer.go:25-33, worker/main.go:57-72).
EventsSettle ==
    \A e \in Event :
        (e <= emitted) ~> (e \in table \/ \A w \in WorkerId : e \in missed[w])

\* Workers come and go, but one is up again and again.
SomeWorkerReturns == []<>(\E w \in WorkerId : proc[w] = "up")

\* No use of the session is left in the row.
Dead(s) == status[s] = "revoked" \/ (status[s] = "active" /\ expiry[s] < 0)

\* Once users stop refreshing, every row that is revoked or expired is
\* eventually deleted if a worker is up again and again: the statement fails
\* only until the last successor is past retention too, and a shutdown or a
\* crash between passes only delays it (worker/main.go:75-101).
DeadRowsGoWhenRefreshStops ==
    (<>[][~Refresh]_vars) /\ SomeWorkerReturns
        => \A s \in SessionId :
             Dead(s) ~> status[s] = "absent"

\* Rows only age: a dead row never comes back to life, one that is past
\* retention stays so whatever refreshes, logouts and passes come in between,
\* and only such a row is ever deleted.  What a failed pass leaves behind is
\* therefore still there for the next one (repository.go:172-182,
\* worker/main.go:75-101).
DeadRowsOnlyAge ==
    [][\A s \in SessionId :
         /\ Dead(s) => Dead(s)' \/ status'[s] = "absent"
         /\ Eligible(s) => Eligible(s)' \/ status'[s] = "absent"
         /\ status[s] # "absent" /\ status'[s] = "absent" => Eligible(s)]_workerVars

\* How far event e has come on its way to worker w.
Stage(w, e) ==
    IF e > emitted THEN 0
    ELSE IF e \in wire THEN 1
    ELSE IF e \in inbox[w] THEN 2
    ELSE IF e = handling[w] THEN 3 ELSE 4

\* An event only goes forward, to each worker by itself, and never comes twice:
\* nothing is redelivered after a restart or a failed insert, and what is in
\* the table stays there (consumer.go:25-33, worker/main.go:57-72).
EventsOnlyAdvance ==
    [][/\ table \subseteq table'
       /\ \A w \in WorkerId, e \in Event : Stage(w, e) <= Stage(w, e)']_workerVars

\* The audit trail's part of the inductive invariant.
AuditInv == AuditTypeOK /\ OrderInv /\ EventsAccountedFor /\ NoOvertaking

\* The inductive invariant: rotation chains are whole while workers come and
\* go, and each event is where its number says (repository.go:172-182,
\* consumer.go:25-33).
WorkerInv == TypeOK /\ AncestryKept /\ AuditInv

=============================================================================
