-------------------------------- MODULE Audit --------------------------------
(***************************************************************************)
(* The audit trail: Publisher.Emit in the server, the NATS subject         *)
(* audit.events, and the consumer in the worker that inserts each event    *)
(* into audit_events.  Nothing on the way is acknowledged or repeated.     *)
(* Every running worker has a subscription of its own (no queue group), so *)
(* each gets every event, and the primary key keeps the second row out.    *)
(*                                                                         *)
(* Events are numbered in the order of their Emit on the server's one      *)
(* connection; NATS (external) keeps that order, and a subscription's      *)
(* handler runs for one message after the other.  The worker is modelled   *)
(* from its start to its end: cancel, Unsubscribe, and the close of the    *)
(* pool that waits for a statement under way.                              *)
(***************************************************************************)
EXTENDS Integers, FiniteSets

CONSTANTS MaxEvents,   \* bound on the events of a run
          WorkerId,    \* worker processes
          MaxPending,  \* messages a subscription keeps for its handler
          Faults       \* TRUE: connections and statements may fail

ASSUME AuditAssumption ==
    /\ MaxEvents \in Nat
    /\ MaxPending \in Nat \ {0}
    /\ Faults \in BOOLEAN

Event == 1..MaxEvents
None == 0

VARIABLES
    emitted,   \* how many events Emit has been called with
    wire,      \* published and not yet routed by NATS
    proc,      \* proc[w]: "down", "up", or "stopping" (ctx is cancelled)
    inbox,     \* inbox[w]: pending messages of w's subscription
    handling,  \* handling[w]: the event whose insert w waits for
    table,     \* ids in audit_events
    missed     \* history: missed[w]: events that w did not get or could not insert

auditVars == <<emitted, wire, proc, inbox, handling, table, missed>>

\* The first of a queue.
IsFirst(e, q) == e \in q /\ \A d \in q : e <= d

Missing(w, E) == missed' = [missed EXCEPT ![w] = @ \cup E]

AuditInit ==
    /\ emitted = 0
    /\ wire = {}
    /\ proc = [w \in WorkerId |-> "down"]
    /\ inbox = [w \in WorkerId |-> {}]
    /\ handling = [w \in WorkerId |-> None]
    /\ table = {}
    /\ missed = [w \in WorkerId |-> {}]

-----------------------------------------------------------------------------
(* Server *)

\* Publisher.Emit under a new id; an error of Publish is logged and the event
\* dropped.
Emit ==
    /\ emitted < MaxEvents
    /\ emitted' = emitted + 1
    /\ \/ wire' = wire \cup {emitted + 1} /\ UNCHANGED missed
       \/ /\ Faults
          /\ missed' = [w \in WorkerId |-> missed[w] \cup {emitted + 1}]
          /\ UNCHANGED wire
    /\ UNCHANGED <<proc, inbox, handling, table>>

-----------------------------------------------------------------------------
(* NATS (external) *)

\* The next message goes to those subscribed now.  A subscription whose
\* pending messages are at their limit loses it, as does a broken connection.
Deliver(e) ==
    /\ IsFirst(e, wire)
    /\ wire' = wire \ {e}
    /\ LET able == {w \in WorkerId : proc[w] # "down" /\ Cardinality(inbox[w]) < MaxPending}
       IN  \E got \in SUBSET able :
             /\ Faults \/ got = able
             /\ inbox' = [w \in WorkerId |-> IF w \in got THEN inbox[w] \cup {e} ELSE inbox[w]]
             /\ missed' = [w \in WorkerId |-> IF w \in got THEN missed[w] ELSE missed[w] \cup {e}]
    /\ UNCHANGED <<emitted, proc, handling, table>>

-----------------------------------------------------------------------------
(* Consumer *)

\* Faulty variant: each message is handled in a goroutine of its own.
TakeAny(w, e) ==
    /\ handling[w] = None
    /\ e \in inbox[w]
    /\ proc[w] # "down"
    /\ inbox' = [inbox EXCEPT ![w] = @ \ {e}]
    /\ IF proc[w] = "up"
       THEN handling' = [handling EXCEPT ![w] = e] /\ UNCHANGED missed
       ELSE Missing(w, {e}) /\ UNCHANGED handling
    /\ UNCHANGED <<emitted, wire, proc, table>>

\* The handler of the subscription takes the next message.  Once ctx is
\* cancelled its insert fails at once.
Take(w, e) ==
    /\ handling[w] = None
    /\ IsFirst(e, inbox[w])
    /\ proc[w] # "down"
    /\ inbox' = [inbox EXCEPT ![w] = @ \ {e}]
    /\ IF proc[w] = "up"
       THEN handling' = [handling EXCEPT ![w] = e] /\ UNCHANGED missed
       ELSE Missing(w, {e}) /\ UNCHANGED handling
    /\ UNCHANGED <<emitted, wire, proc, table>>

\* Faulty variant: a failed insert is tried again, though ctx is cancelled.
InsertRetries(w) ==
    /\ handling[w] # None
    /\ proc[w] = "up"
    /\ table' = table \cup {handling[w]}
    /\ handling' = [handling EXCEPT ![w] = None]
    /\ UNCHANGED <<emitted, wire, proc, inbox, missed>>

\* Repository.Insert returns: a new row, a violation of the primary key when
\* another worker was first, or an error; every error is logged and the
\* message forgotten.
Insert(w) ==
    /\ handling[w] # None
    /\ \/ table' = table \cup {handling[w]} /\ UNCHANGED missed
       \/ (Faults \/ proc[w] = "stopping") /\ Missing(w, {handling[w]}) /\ UNCHANGED table
    /\ handling' = [handling EXCEPT ![w] = None]
    /\ UNCHANGED <<emitted, wire, proc, inbox>>

-----------------------------------------------------------------------------
(* The worker process *)

\* Connect to Postgres and NATS, and Subscribe.
Start(w) ==
    /\ proc[w] = "down"
    /\ proc' = [proc EXCEPT ![w] = "up"]
    /\ UNCHANGED <<emitted, wire, inbox, handling, table, missed>>

\* SIGINT or SIGTERM: cancel().
Signal(w) ==
    /\ proc[w] = "up"
    /\ proc' = [proc EXCEPT ![w] = "stopping"]
    /\ UNCHANGED <<emitted, wire, inbox, handling, table, missed>>

\* Unsubscribe drops what is pending.
Unsubscribe(w) ==
    /\ inbox' = [inbox EXCEPT ![w] = {}]
    /\ Missing(w, inbox[w])

\* The deferred calls: Unsubscribe, and db.Close, which waits for the
\* connection of an insert under way.
Exit(w) ==
    /\ proc[w] = "stopping"
    /\ handling[w] = None
    /\ proc' = [proc EXCEPT ![w] = "down"]
    /\ Unsubscribe(w)
    /\ UNCHANGED <<emitted, wire, handling, table>>

\* The process is killed; an insert under way is done or not.
Crash(w) ==
    /\ Faults
    /\ proc[w] # "down"
    /\ proc' = [proc EXCEPT ![w] = "down"]
    /\ inbox' = [inbox EXCEPT ![w] = {}]
    /\ handling' = [handling EXCEPT ![w] = None]
    /\ Missing(w, inbox[w] \cup ({handling[w]} \ {None}))
    /\ UNCHANGED <<emitted, wire, table>>

WorkerStep(w) == (\E e \in Event : Take(w, e)) \/ Insert(w) \/ Exit(w)

AuditNext ==
    \/ Emit
    \/ \E e \in Event : Deliver(e)
    \/ \E w \in WorkerId : WorkerStep(w) \/ Start(w) \/ Signal(w) \/ Crash(w)

AuditSpec == AuditInit /\ [][AuditNext]_auditVars

-----------------------------------------------------------------------------
(* Properties *)

AuditTypeOK ==
    /\ emitted \in 0..MaxEvents
    /\ wire \subseteq Event
    /\ proc \in [WorkerId -> {"down", "up", "stopping"}]
    /\ inbox \in [WorkerId -> SUBSET Event]
    /\ handling \in [WorkerId -> Event \cup {None}]
    /\ table \subseteq Event
    /\ missed \in [WorkerId -> SUBSET Event]

\* e has yet to be dealt with by w.
Ahead(w, e) == e \in wire \cup inbox[w] \cup {handling[w]}

\* Each worker is due every event, and the events it is still to deal with are
\* later than all it has dealt with.
OrderInv ==
    /\ \A e \in wire \cup table : e <= emitted
    /\ \A w \in WorkerId :
         /\ \A e \in inbox[w] \cup {handling[w]} : e <= emitted
         /\ \A e \in inbox[w], d \in wire : e < d
         /\ handling[w] # None => \A d \in wire \cup inbox[w] : handling[w] < d
         /\ proc[w] = "down" => inbox[w] = {} /\ handling[w] = None

\* Nothing is lost in silence: a worker to which an emitted event is not still
\* to come has missed it for a reason - Publish failed, no subscription at the
\* time, the pending limit, a broken connection, a shutdown, a failed insert -
\* or the event is in the table.  With two workers it takes a reason at each
\* (publisher.go:42, consumer.go:25-33, worker/main.go:63-72).
EventsAccountedFor ==
    \A w \in WorkerId : \A e \in 1..emitted :
        Ahead(w, e) \/ e \in missed[w] \/ e \in table

\* The trail has no holes that close later: when an event is in the table each
\* earlier one is there too or has been missed by some worker, though restarts and
\* several workers race for the inserts (consumer.go:25, repository.go:46).
NoOvertaking ==
    \A e \in table : \A d \in 1..(e - 1) :
        d \in table \/ \E w \in WorkerId : d \in missed[w]

=============================================================================
