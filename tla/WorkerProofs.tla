---------------------------- MODULE WorkerProofs ----------------------------
(***************************************************************************)
(* The worker for any number of rows, workers and events, any lifetime,    *)
(* retention and queue limit, with and without faults.                     *)
(***************************************************************************)
EXTENDS Worker, TLAPS

\* A type-correct step of the cleanup, the endpoints or the clock.
LEMMA TypeStep == TypeOK /\ [Next]_vars => TypeOK'
<1> SUFFICES ASSUME TypeOK, [Next]_vars PROVE TypeOK'
  OBVIOUS
<1> USE RetentionAssumption DEF TypeOK, Forgotten
<1>1. ASSUME NEW s \in SessionId, Open(s) PROVE TypeOK'
  BY <1>1 DEF Open
<1>2. ASSUME NEW s \in SessionId, Logout(s) PROVE TypeOK'
  BY <1>2 DEF Logout
<1>3. ASSUME NEW s \in SessionId, NEW c \in SessionId, Rotate(s, c) PROVE TypeOK'
  BY <1>3 DEF Rotate
<1>4. ASSUME Cleanup PROVE TypeOK'
  BY <1>4 DEF Cleanup, Delete
<1>5. ASSUME Tick PROVE TypeOK'
  BY <1>5 DEF Tick
<1>6. ASSUME UNCHANGED vars PROVE TypeOK'
  BY <1>6 DEF vars
<1> QED
  BY <1>1, <1>2, <1>3, <1>4, <1>5, <1>6 DEF Next, Refresh

\* No step leaves a session whose predecessor is missing or live.
LEMMA AncestryStep == TypeOK /\ AncestryKept /\ [Next]_vars => AncestryKept'
<1> SUFFICES ASSUME TypeOK, AncestryKept, [Next]_vars PROVE AncestryKept'
  OBVIOUS
<1> USE RetentionAssumption DEF TypeOK, AncestryKept
<1>1. ASSUME NEW s \in SessionId, Open(s) PROVE AncestryKept'
  BY <1>1 DEF Open
<1>2. ASSUME NEW s \in SessionId, Logout(s) PROVE AncestryKept'
  BY <1>2 DEF Logout
<1>3. ASSUME NEW s \in SessionId, NEW c \in SessionId, Rotate(s, c)
      PROVE  AncestryKept'
  BY <1>3 DEF Rotate, Live
<1>4. ASSUME Cleanup PROVE AncestryKept'
  <2> DEFINE doomed == {s \in SessionId : Eligible(s)}
  <2>1. CASE \E s \in doomed : Referenced(s)
    BY <1>4, <2>1 DEF Cleanup
  <2>2. CASE ~\E s \in doomed : Referenced(s)
    <3>1. Delete(doomed)
      BY <1>4, <2>2 DEF Cleanup
    \* a row that is kept has a parent that is kept
    <3>2. \A s \in SessionId :
             s \notin doomed /\ parent[s] # NoSession => parent[s] \notin doomed
      BY <2>2 DEF Referenced
    <3> QED
      BY <3>1, <3>2 DEF Delete
  <2> QED BY <2>1, <2>2
<1>5. ASSUME Tick PROVE AncestryKept'
  BY <1>5 DEF Tick
<1>6. ASSUME UNCHANGED vars PROVE AncestryKept'
  BY <1>6 DEF vars
<1> QED
  BY <1>1, <1>2, <1>3, <1>4, <1>5, <1>6 DEF Next, Refresh

-----------------------------------------------------------------------------
(* The audit trail *)

\* Steps of the audit trail are type-correct.
LEMMA AuditTypeStep == AuditTypeOK /\ [AuditNext]_auditVars => AuditTypeOK'
<1> SUFFICES ASSUME AuditTypeOK, [AuditNext]_auditVars PROVE AuditTypeOK'
  OBVIOUS
<1> USE AuditAssumption DEF AuditTypeOK, Event, None
<1>1. ASSUME Emit PROVE AuditTypeOK'
  <2>1. emitted' \in 0..MaxEvents /\ emitted + 1 \in 1..MaxEvents
    BY <1>1 DEF Emit
  <2> DEFINE new == emitted + 1
  <2>2. /\ wire' = wire \cup {new} \/ wire' = wire
        /\ missed' = missed \/ missed' = [w \in WorkerId |-> missed[w] \cup {new}]
        /\ UNCHANGED <<proc, inbox, handling, table>>
    BY <1>1 DEF Emit
  <2> HIDE DEF new
  <2>3. new \in 1..MaxEvents
    BY <2>1 DEF new
  <2>4. wire' \subseteq 1..MaxEvents
    BY <2>2, <2>3
  <2>5. missed' \in [WorkerId -> SUBSET (1..MaxEvents)]
    BY <2>2, <2>3
  <2> QED BY <2>1, <2>2, <2>4, <2>5
<1>2. ASSUME NEW e \in Event, Deliver(e) PROVE AuditTypeOK'
  <2>1. /\ UNCHANGED <<emitted, proc, handling, table>>
        /\ wire' = wire \ {e}
    BY <1>2 DEF Deliver
  <2>2. PICK got \in SUBSET WorkerId :
          /\ inbox' = [w \in WorkerId |-> IF w \in got THEN inbox[w] \cup {e} ELSE inbox[w]]
          /\ missed' = [w \in WorkerId |-> IF w \in got THEN missed[w] ELSE missed[w] \cup {e}]
    BY <1>2 DEF Deliver
  <2> QED BY <2>1, <2>2
<1>3. ASSUME NEW w \in WorkerId, NEW e \in Event, Take(w, e) PROVE AuditTypeOK'
  <2>1. CASE proc[w] = "up"
    BY <1>3, <2>1 DEF Take
  <2>2. CASE proc[w] # "up"
    BY <1>3, <2>2 DEF Take, Missing
  <2> QED BY <2>1, <2>2
<1>4. ASSUME NEW w \in WorkerId, Insert(w) PROVE AuditTypeOK'
  BY <1>4 DEF Insert, Missing
<1>5. ASSUME NEW w \in WorkerId, Start(w) \/ Signal(w) PROVE AuditTypeOK'
  BY <1>5 DEF Start, Signal
<1>6. ASSUME NEW w \in WorkerId, Exit(w) PROVE AuditTypeOK'
  BY <1>6 DEF Exit, Unsubscribe, Missing
<1>7. ASSUME NEW w \in WorkerId, Crash(w) PROVE AuditTypeOK'
  BY <1>7 DEF Crash, Missing
<1>8. ASSUME UNCHANGED auditVars PROVE AuditTypeOK'
  BY <1>8 DEF auditVars
<1> QED
  BY <1>1, <1>2, <1>3, <1>4, <1>5, <1>6, <1>7, <1>8 DEF AuditNext, WorkerStep

\* Each event stays in its place in the order.
LEMMA OrderStep == AuditTypeOK /\ OrderInv /\ [AuditNext]_auditVars => OrderInv'
<1> SUFFICES ASSUME AuditTypeOK, OrderInv, [AuditNext]_auditVars PROVE OrderInv'
  OBVIOUS
<1> USE AuditAssumption DEF AuditTypeOK, OrderInv, Event, None
<1>1. ASSUME Emit PROVE OrderInv'
  <2>1. /\ emitted' = emitted + 1
        /\ wire' \subseteq wire \cup {emitted'}
        /\ UNCHANGED <<proc, inbox, handling, table>>
    BY <1>1 DEF Emit
  <2> QED BY <2>1
<1>2. ASSUME NEW e \in Event, Deliver(e) PROVE OrderInv'
  <2>1. /\ UNCHANGED <<emitted, proc, handling, table>>
        /\ wire' = wire \ {e}
        /\ e \in wire /\ \A d \in wire : e <= d
    BY <1>2 DEF Deliver, IsFirst
  <2>2. PICK got \in SUBSET {w \in WorkerId : proc[w] # "down"} :
          inbox' = [w \in WorkerId |-> IF w \in got THEN inbox[w] \cup {e} ELSE inbox[w]]
    BY <1>2 DEF Deliver
  <2> QED BY <2>1, <2>2
<1>3. ASSUME NEW w \in WorkerId, NEW e \in Event, Take(w, e) PROVE OrderInv'
  <2>1. CASE proc[w] = "up"
    BY <1>3, <2>1 DEF Take, IsFirst
  <2>2. CASE proc[w] # "up"
    BY <1>3, <2>2 DEF Take, IsFirst
  <2> QED BY <2>1, <2>2
<1>4. ASSUME NEW w \in WorkerId, Insert(w) PROVE OrderInv'
  BY <1>4 DEF Insert
<1>5. ASSUME NEW w \in WorkerId, Start(w) \/ Signal(w) PROVE OrderInv'
  <2>1. UNCHANGED <<emitted, wire, inbox, handling, table>>
    BY <1>5 DEF Start, Signal
  <2>2. ASSUME NEW v \in WorkerId, proc'[v] = "down" PROVE proc[v] = "down"
    <3>1. CASE Start(w)
      BY <2>2, <3>1 DEF Start
    <3>2. CASE Signal(w)
      BY <2>2, <3>2 DEF Signal
    <3> QED BY <1>5, <3>1, <3>2
  <2> QED BY <2>1, <2>2
<1>6. ASSUME NEW w \in WorkerId, Exit(w) PROVE OrderInv'
  BY <1>6 DEF Exit, Unsubscribe
<1>7. ASSUME NEW w \in WorkerId, Crash(w) PROVE OrderInv'
  BY <1>7 DEF Crash
<1>8. ASSUME UNCHANGED auditVars PROVE OrderInv'
  BY <1>8 DEF auditVars
<1> QED
  BY <1>1, <1>2, <1>3, <1>4, <1>5, <1>6, <1>7, <1>8 DEF AuditNext, WorkerStep

\* No step forgets an event.
LEMMA AccountStep ==
    AuditTypeOK /\ EventsAccountedFor /\ [AuditNext]_auditVars => EventsAccountedFor'
<1> SUFFICES ASSUME AuditTypeOK, EventsAccountedFor, [AuditNext]_auditVars
             PROVE  EventsAccountedFor'
  OBVIOUS
<1> USE AuditAssumption DEF AuditTypeOK, EventsAccountedFor, Ahead, Event, None
<1>1. ASSUME Emit PROVE EventsAccountedFor'
  BY <1>1 DEF Emit
<1>2. ASSUME NEW e \in Event, Deliver(e) PROVE EventsAccountedFor'
  <2>1. /\ UNCHANGED <<emitted, proc, handling, table>>
        /\ wire' = wire \ {e}
    BY <1>2 DEF Deliver
  <2>2. PICK got \in SUBSET WorkerId :
          /\ inbox' = [w \in WorkerId |-> IF w \in got THEN inbox[w] \cup {e} ELSE inbox[w]]
          /\ missed' = [w \in WorkerId |-> IF w \in got THEN missed[w] ELSE missed[w] \cup {e}]
    BY <1>2 DEF Deliver
  <2> QED BY <2>1, <2>2
<1>3. ASSUME NEW w \in WorkerId, NEW e \in Event, Take(w, e) PROVE EventsAccountedFor'
  <2>1. CASE proc[w] = "up"
    BY <1>3, <2>1 DEF Take
  <2>2. CASE proc[w] # "up"
    BY <1>3, <2>2 DEF Take, Missing
  <2> QED BY <2>1, <2>2
<1>4. ASSUME NEW w \in WorkerId, Insert(w) PROVE EventsAccountedFor'
  BY <1>4 DEF Insert, Missing
<1>5. ASSUME NEW w \in WorkerId, Start(w) \/ Signal(w) PROVE EventsAccountedFor'
  BY <1>5 DEF Start, Signal
<1>6. ASSUME NEW w \in WorkerId, Exit(w) PROVE EventsAccountedFor'
  BY <1>6 DEF Exit, Unsubscribe, Missing
<1>7. ASSUME NEW w \in WorkerId, Crash(w) PROVE EventsAccountedFor'
  BY <1>7 DEF Crash, Missing
<1>8. ASSUME UNCHANGED auditVars PROVE EventsAccountedFor'
  BY <1>8 DEF auditVars
<1> QED
  BY <1>1, <1>2, <1>3, <1>4, <1>5, <1>6, <1>7, <1>8 DEF AuditNext, WorkerStep

\* What is missed stays missed and rows of the trail are never deleted.
LEMMA TrailGrows ==
    AuditTypeOK /\ [AuditNext]_auditVars
        => /\ table \subseteq table'
           /\ \A w \in WorkerId : missed[w] \subseteq missed'[w]
<1> SUFFICES ASSUME AuditTypeOK, [AuditNext]_auditVars
             PROVE  /\ table \subseteq table'
                    /\ \A w \in WorkerId : missed[w] \subseteq missed'[w]
  OBVIOUS
<1> USE DEF AuditTypeOK
<1>1. CASE UNCHANGED auditVars
  BY <1>1 DEF auditVars
<1>2. CASE Emit
  BY <1>2 DEF Emit
<1>3. ASSUME NEW e \in Event, Deliver(e)
      PROVE  /\ table \subseteq table'
             /\ \A w \in WorkerId : missed[w] \subseteq missed'[w]
  BY <1>3 DEF Deliver
<1>4. ASSUME NEW w \in WorkerId, WorkerStep(w) \/ Start(w) \/ Signal(w) \/ Crash(w)
      PROVE  /\ table \subseteq table'
             /\ \A v \in WorkerId : missed[v] \subseteq missed'[v]
  BY <1>4 DEF WorkerStep, Take, Insert, Exit, Unsubscribe, Start, Signal, Crash, Missing
<1> QED
  BY <1>1, <1>2, <1>3, <1>4 DEF AuditNext

\* Only an insert adds a row, and it adds the event under way.
LEMMA OvertakingStep ==
    AuditInv /\ [AuditNext]_auditVars => NoOvertaking'
<1> SUFFICES ASSUME AuditInv, [AuditNext]_auditVars PROVE NoOvertaking'
  OBVIOUS
<1> USE AuditAssumption DEF AuditInv, AuditTypeOK, NoOvertaking, Event, None
<1>1. table \subseteq table' /\ \A w \in WorkerId : missed[w] \subseteq missed'[w]
  BY TrailGrows
<1>2. ASSUME UNCHANGED table PROVE NoOvertaking'
  BY <1>1, <1>2
<1>3. ASSUME NEW w \in WorkerId, Insert(w) PROVE NoOvertaking'
  <2>1. handling[w] # None /\ handling[w] <= emitted
    BY <1>3 DEF Insert, OrderInv
  <2>2. ASSUME NEW d \in 1..(handling[w] - 1) PROVE d \in missed[w] \/ d \in table
    <3>1. d \in 1..emitted /\ ~Ahead(w, d)
      BY <2>1 DEF OrderInv, Ahead
    <3> QED BY <3>1 DEF EventsAccountedFor
  <2>3. table' \subseteq table \cup {handling[w]}
    BY <1>3 DEF Insert
  <2> QED BY <1>1, <2>1, <2>2, <2>3
<1> QED
  BY <1>2, <1>3 DEF AuditNext, auditVars, WorkerStep, Emit, Deliver, Take, Exit,
                    Start, Signal, Crash
-----------------------------------------------------------------------------
(* The worker *)

\* A step of the composition is a step of a part that leaves the other alone,
\* a pass of the cleanup, or a pass that fails.
LEMMA Parts ==
    [WorkerNext]_workerVars
        => /\ [AuditNext]_auditVars
           /\ [Next]_vars \/ (pass' = "failed" /\ UNCHANGED <<status, parent, expiry, revokedFor>>)
<1> SUFFICES ASSUME [WorkerNext]_workerVars
             PROVE  /\ [AuditNext]_auditVars
                    /\ \/ [Next]_vars
                       \/ pass' = "failed" /\ UNCHANGED <<status, parent, expiry, revokedFor>>
  OBVIOUS
<1>1. CASE Users
  BY <1>1 DEF Users, Next
<1>2. CASE AuditNext /\ UNCHANGED vars
  BY <1>2
<1>3. ASSUME NEW w \in WorkerId, Pass(w) PROVE Cleanup /\ UNCHANGED auditVars
  BY <1>3 DEF Pass
<1>4. ASSUME NEW w \in WorkerId, PassFails(w)
      PROVE  /\ pass' = "failed" /\ UNCHANGED <<status, parent, expiry, revokedFor>>
             /\ UNCHANGED auditVars
  BY <1>4 DEF PassFails
<1>5. CASE UNCHANGED workerVars
  BY <1>5 DEF workerVars
<1> QED
  BY <1>1, <1>2, <1>3, <1>4, <1>5 DEF WorkerNext, Next

\* Neither the passes that fail nor the life of the processes disturb the rows.
LEMMA RowsStep ==
    TypeOK /\ AncestryKept /\ [WorkerNext]_workerVars => TypeOK' /\ AncestryKept'
<1> SUFFICES ASSUME TypeOK, AncestryKept, [WorkerNext]_workerVars
             PROVE  TypeOK' /\ AncestryKept'
  OBVIOUS
<1>1. CASE [Next]_vars
  BY <1>1, TypeStep, AncestryStep
<1>2. CASE pass' = "failed" /\ UNCHANGED <<status, parent, expiry, revokedFor>>
  BY <1>2 DEF TypeOK, AncestryKept
<1> QED BY <1>1, <1>2, Parts

\* The inductive invariant of the worker: no shutdown, crash or failing
\* statement breaks a rotation chain or the order of the audit trail.
THEOREM WorkerInvariant == WorkerSpec => []WorkerInv
<1>1. WorkerInit => WorkerInv
  <2> SUFFICES ASSUME WorkerInit PROVE WorkerInv
    OBVIOUS
  <2>1. TypeOK /\ AncestryKept
    BY RetentionAssumption DEF WorkerInit, Init, TypeOK, AncestryKept, Forgotten
  <2>2. AuditInv
    BY AuditAssumption DEF WorkerInit, AuditInit, AuditInv, AuditTypeOK, OrderInv,
       EventsAccountedFor, NoOvertaking, Event, None
  <2> QED BY <2>1, <2>2 DEF WorkerInv
<1>2. WorkerInv /\ [WorkerNext]_workerVars => WorkerInv'
  <2> SUFFICES ASSUME WorkerInv, [WorkerNext]_workerVars PROVE WorkerInv'
    OBVIOUS
  <2>1. TypeOK' /\ AncestryKept'
    BY RowsStep DEF WorkerInv
  <2>2. [AuditNext]_auditVars
    BY Parts
  <2>3. AuditTypeOK' /\ OrderInv' /\ EventsAccountedFor' /\ NoOvertaking'
    BY <2>2, AuditTypeStep, OrderStep, AccountStep, OvertakingStep DEF WorkerInv, AuditInv
  <2> QED BY <2>1, <2>3 DEF WorkerInv, AuditInv
<1> QED
  BY <1>1, <1>2, PTL DEF WorkerSpec

\* The cleanup statement never breaks a rotation chain: a predecessor is
\* present and revoked for as long as its successor's row exists, whichever
\* worker runs the pass and however it ends.
THEOREM AncestryAlwaysKept == WorkerSpec => []AncestryKept
<1>1. WorkerInv => AncestryKept
  BY DEF WorkerInv
<1> QED
  BY <1>1, WorkerInvariant, PTL

\* The audit trail holds no event while an earlier one is still to come, for
\* any number of workers that race for the inserts.
THEOREM TrailNeverOvertakes == WorkerSpec => []NoOvertaking
<1>1. WorkerInv => NoOvertaking
  BY DEF WorkerInv, AuditInv
<1> QED
  BY <1>1, WorkerInvariant, PTL

\* An event that is neither in the trail nor on its way to a worker was missed
\* by that worker for a reason the model names.
THEOREM NothingLostInSilence == WorkerSpec => []EventsAccountedFor
<1>1. WorkerInv => EventsAccountedFor
  BY DEF WorkerInv, AuditInv
<1> QED
  BY <1>1, WorkerInvariant, PTL

\* Rows only age: dead rows stay dead, rows past retention stay so until they
\* are deleted, and nothing else is deleted - whatever fails, for any number of
\* workers, any lifetime and any retention time (repository.go:172-182).
THEOREM RowsAge == WorkerSpec => DeadRowsOnlyAge
<1> DEFINE Ages(s) == /\ Dead(s) => Dead(s)' \/ status'[s] = "absent"
                      /\ Eligible(s) => Eligible(s)' \/ status'[s] = "absent"
                      /\ status[s] # "absent" /\ status'[s] = "absent" => Eligible(s)
<1>1. ASSUME TypeOK, Next, NEW s \in SessionId PROVE Ages(s)
  <2> USE RetentionAssumption DEF TypeOK, Forgotten, Dead, Eligible
  <2>1. ASSUME NEW c \in SessionId, Open(c) PROVE Ages(s)
    BY <1>1, <2>1 DEF Open
  <2>2. ASSUME NEW c \in SessionId, Logout(c) PROVE Ages(s)
    BY <1>1, <2>2 DEF Logout
  <2>3. ASSUME NEW c \in SessionId, NEW d \in SessionId, Rotate(c, d) PROVE Ages(s)
    BY <1>1, <2>3 DEF Rotate, Live
  <2>4. ASSUME Cleanup PROVE Ages(s)
    <3> DEFINE doomed == {c \in SessionId : Eligible(c)}
    <3>1. CASE UNCHANGED <<status, parent, expiry, revokedFor>>
      BY <3>1
    <3>2. CASE Delete(doomed)
      <4>1. CASE s \in doomed
        BY <1>1, <3>2, <4>1 DEF Delete
      <4>2. CASE s \notin doomed
        <5>1. status'[s] = status[s] /\ expiry'[s] = expiry[s] /\ revokedFor'[s] = revokedFor[s]
          BY <3>2, <4>2 DEF Delete
        <5> QED BY <5>1
      <4> QED BY <4>1, <4>2
    <3> QED BY <2>4, <3>1, <3>2 DEF Cleanup
  <2>5. ASSUME Tick PROVE Ages(s)
    BY <1>1, <2>5 DEF Tick
  <2> QED BY <1>1, <2>1, <2>2, <2>3, <2>4, <2>5 DEF Next, Refresh
<1>2. WorkerInv /\ [WorkerNext]_workerVars => [\A s \in SessionId : Ages(s)]_workerVars
  <2> SUFFICES ASSUME WorkerInv, [WorkerNext]_workerVars, NEW s \in SessionId
               PROVE  Ages(s)
    OBVIOUS
  <2>1. ASSUME UNCHANGED <<status, parent, expiry, revokedFor>> PROVE Ages(s)
    BY <2>1 DEF Dead, Eligible
  <2>2. CASE [Next]_vars
    BY <1>1, <2>1, <2>2 DEF WorkerInv, vars
  <2> QED BY <2>1, <2>2, Parts
<1> QED
  BY <1>2, WorkerInvariant, PTL DEF WorkerSpec, DeadRowsOnlyAge

\* No step takes an event back on its way to any worker.
LEMMA AdvanceStep ==
    AuditTypeOK /\ OrderInv /\ [AuditNext]_auditVars
        => \A w \in WorkerId, e \in Event : Stage(w, e) <= Stage(w, e)'
<1> SUFFICES ASSUME AuditTypeOK, OrderInv, [AuditNext]_auditVars,
                    NEW w \in WorkerId, NEW e \in Event
             PROVE  Stage(w, e) <= Stage(w, e)'
  OBVIOUS
<1> USE AuditAssumption DEF AuditTypeOK, OrderInv, Stage, Event, None
<1>1. CASE UNCHANGED auditVars
  BY <1>1 DEF auditVars
<1>2. CASE Emit
  BY <1>2 DEF Emit
<1>3. ASSUME NEW d \in Event, Deliver(d) PROVE Stage(w, e) <= Stage(w, e)'
  <2>1. /\ UNCHANGED <<emitted, proc, handling, table>>
        /\ wire' = wire \ {d} /\ d \in wire
    BY <1>3 DEF Deliver, IsFirst
  <2>2. inbox'[w] = inbox[w] \/ inbox'[w] = inbox[w] \cup {d}
    BY <1>3 DEF Deliver
  <2> QED BY <2>1, <2>2
<1>4. ASSUME NEW v \in WorkerId, NEW d \in Event, Take(v, d) PROVE Stage(w, e) <= Stage(w, e)'
  <2>1. /\ UNCHANGED <<emitted, wire>> /\ d \in inbox[v] /\ handling[v] = None
        /\ inbox' = [inbox EXCEPT ![v] = @ \ {d}]
        /\ handling' = handling \/ handling' = [handling EXCEPT ![v] = d]
    BY <1>4 DEF Take, IsFirst
  <2> QED BY <2>1
<1>5. ASSUME NEW v \in WorkerId, Insert(v) PROVE Stage(w, e) <= Stage(w, e)'
  BY <1>5 DEF Insert
<1>6. ASSUME NEW v \in WorkerId, Start(v) \/ Signal(v) PROVE Stage(w, e) <= Stage(w, e)'
  BY <1>6 DEF Start, Signal
<1>7. ASSUME NEW v \in WorkerId, Exit(v) PROVE Stage(w, e) <= Stage(w, e)'
  BY <1>7 DEF Exit, Unsubscribe
<1>8. ASSUME NEW v \in WorkerId, Crash(v) PROVE Stage(w, e) <= Stage(w, e)'
  BY <1>8 DEF Crash
<1> QED
  BY <1>1, <1>2, <1>3, <1>4, <1>5, <1>6, <1>7, <1>8 DEF AuditNext, WorkerStep

\* An event goes forward only and comes to each worker at most once, for any
\* number of workers that start, stop and are killed (consumer.go:25-33).
THEOREM EventsAdvance == WorkerSpec => EventsOnlyAdvance
<1>1. WorkerInv /\ [WorkerNext]_workerVars
        => [/\ table \subseteq table'
            /\ \A w \in WorkerId, e \in Event : Stage(w, e) <= Stage(w, e)']_workerVars
  BY Parts, TrailGrows, AdvanceStep DEF WorkerInv, AuditInv
<1> QED
  BY <1>1, WorkerInvariant, PTL DEF WorkerSpec, EventsOnlyAdvance

=============================================================================
