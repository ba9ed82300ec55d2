----------------------------- MODULE EventStream -----------------------------
(***************************************************************************)
(* The path of an expense.created event: the commit in the expense-service,*)
(* the xadd that follows it, the Redis stream `splitease:events` with the  *)
(* consumer group `splitease-notifications`, and the one notification      *)
(* worker that reads it (event_consumer.py).                               *)
(*                                                                         *)
(* A stream entry is named by its position.  XREADGROUP ">" hands out      *)
(* consecutive entries, so a batch still to be handled is the interval     *)
(* next .. delivered; it is empty when next = delivered + 1.               *)
(***************************************************************************)
EXTENDS Integers, Sequences, FiniteSets

CONSTANTS
    Expenses,     \* the expenses that are created
    BatchMax,     \* count= of the XREADGROUP call
    MaxFaults     \* bound on crashes, lost replies and failed calls

ASSUME EventAssumption ==
    /\ BatchMax \in Nat \ {0}
    /\ MaxFaults \in Nat

VARIABLES
    expense,      \* expense[e]: progress of create_expense
    stream,       \* the entries of the stream: expenses
    group,        \* does the consumer group exist
    delivered,    \* last-delivered-id of the consumer group
    pending,      \* delivered entries that were not acknowledged
    worker,       \* where the consumer loop is
    next,         \* next entry of the batch to handle
    handled,      \* history: the entries whose handler ran, in order
    faults        \* faults so far

vars == <<expense, stream, group, delivered, pending, worker, next, handled, faults>>
service == <<expense, stream>>

Progress == {"new", "committed", "published", "unpublished"}
WorkerStates == {"down", "reading", "handling", "acking", "backoff"}

Init ==
    /\ expense = [e \in Expenses |-> "new"]
    /\ stream = <<>>
    /\ group = FALSE
    /\ delivered = 0
    /\ pending = {}
    /\ worker = "down"
    /\ next = 1
    /\ handled = <<>>
    /\ faults = 0

Fault == faults < MaxFaults /\ faults' = faults + 1

-----------------------------------------------------------------------------
(* expense-service *)

\* create_expense commits before it publishes.
Commit(e) ==
    /\ expense[e] = "new"
    /\ expense' = [expense EXCEPT ![e] = "committed"]
    /\ UNCHANGED <<stream, group, delivered, pending, worker, next, handled, faults>>

Publish(e) ==
    /\ expense[e] = "committed"
    /\ expense' = [expense EXCEPT ![e] = "published"]
    /\ stream' = Append(stream, e)
    /\ UNCHANGED <<group, delivered, pending, worker, next, handled, faults>>

\* xadd raises (logged and swallowed), there was no Redis when the service
\* started, or the process dies between the commit and the xadd.
PublishLost(e) ==
    /\ expense[e] = "committed"
    /\ expense' = [expense EXCEPT ![e] = "unpublished"]
    /\ Fault
    /\ UNCHANGED <<stream, group, delivered, pending, worker, next, handled>>

-----------------------------------------------------------------------------
(* notification worker *)

\* A (re)started worker finds the group (BUSYGROUP) or creates it at id 0, and
\* only ever asks for new entries.
Start ==
    /\ worker = "down"
    /\ worker' = "reading"
    /\ group' = TRUE
    /\ next' = delivered + 1
    /\ UNCHANGED <<service, delivered, pending, handled, faults>>

\* xgroup_create fails otherwise: one warning, and the loop starts all the same.
StartWithoutRedis ==
    /\ worker = "down"
    /\ worker' = "reading"
    /\ next' = delivered + 1
    /\ Fault
    /\ UNCHANGED <<service, group, delivered, pending, handled>>

BatchEnd == IF Len(stream) - delivered < BatchMax THEN Len(stream)
                                                  ELSE delivered + BatchMax

\* The entries of the batch that are tracked until they are acknowledged.
Tracked_NoAck == {}
Tracked == delivered + 1 .. BatchEnd

\* XREADGROUP: the group moves on and the entries become pending.
Deliver ==
    /\ worker = "reading"
    /\ group
    /\ delivered < Len(stream)
    /\ delivered' = BatchEnd
    /\ pending' = pending \cup Tracked
    /\ UNCHANGED <<service, group, handled>>

Read ==
    /\ Deliver
    /\ worker' = "handling"
    /\ next' = delivered + 1
    /\ UNCHANGED faults

\* The reply is lost on its way: the client only sees an error.
ReadLost ==
    /\ Deliver
    /\ worker' = "backoff"
    /\ next' = delivered' + 1
    /\ Fault

\* The call itself fails.
ReadFails ==
    /\ worker = "reading"
    /\ worker' = "backoff"
    /\ Fault
    /\ UNCHANGED <<service, group, delivered, pending, next, handled>>

\* Nobody creates the group again while the process runs: NOGROUP.
NoGroup ==
    /\ worker = "reading"
    /\ ~group
    /\ worker' = "backoff"
    /\ UNCHANGED <<service, group, delivered, pending, next, handled, faults>>

\* _handle_message up to its finally clause; a handler that fails (database
\* down, push service down) is logged and acknowledged like one that worked.
Handle ==
    /\ worker = "handling"
    /\ handled' = Append(handled, next)
    /\ worker' = "acking"
    /\ UNCHANGED <<service, group, delivered, pending, next, faults>>

AfterEntry_Returns == IF next < delivered THEN "handling" ELSE "done"
AfterEntry == IF next < delivered THEN "handling" ELSE "reading"
Following_Same == next
Following == next + 1

Ack ==
    /\ worker = "acking"
    /\ pending' = pending \ {next}
    /\ next' = Following
    /\ worker' = AfterEntry
    /\ UNCHANGED <<service, group, delivered, handled, faults>>

\* xack raises out of the loop: the rest of the batch is forgotten.  The
\* acknowledgement may have reached Redis.
AckFails ==
    /\ worker = "acking"
    /\ pending' \in {pending, pending \ {next}}
    /\ next' = delivered + 1
    /\ worker' = "backoff"
    /\ Fault
    /\ UNCHANGED <<service, group, delivered, handled>>

\* The 5 s sleep is over.
Resume ==
    /\ worker = "backoff"
    /\ worker' = "reading"
    /\ UNCHANGED <<service, group, delivered, pending, next, handled, faults>>

\* SIGTERM while a handler runs: CancelledError passes through the finally
\* clause, which still acknowledges the entry.
Cancel ==
    /\ worker = "handling"
    /\ pending' = pending \ {next}
    /\ worker' = "down"
    /\ next' = delivered + 1
    /\ Fault
    /\ UNCHANGED <<service, group, delivered, handled>>

Crash ==
    /\ worker # "down"
    /\ worker' = "down"
    /\ next' = delivered + 1
    /\ Fault
    /\ UNCHANGED <<service, group, delivered, pending, handled>>

-----------------------------------------------------------------------------
Consume == Start \/ Read \/ NoGroup \/ Handle \/ Ack \/ Resume
Failure ==
    \/ StartWithoutRedis \/ ReadLost \/ ReadFails \/ AckFails \/ Cancel \/ Crash
    \/ \E e \in Expenses : PublishLost(e)

Next ==
    \/ \E e \in Expenses : Commit(e) \/ Publish(e)
    \/ Consume
    \/ Failure

\* The worker task is restarted by the orchestrator and its loop never stops;
\* a request that has committed runs on to its xadd.  Clients owe nothing.
Fairness ==
    /\ WF_vars(Consume)
    /\ \A e \in Expenses : WF_vars(Publish(e))

Spec == Init /\ [][Next]_vars /\ Fairness

-----------------------------------------------------------------------------
(* Properties *)

TypeOK ==
    /\ expense \in [Expenses -> Progress]
    /\ stream \in Seq(Expenses)
    /\ group \in BOOLEAN
    /\ delivered \in Nat
    /\ pending \subseteq Nat
    /\ worker \in WorkerStates
    /\ next \in Nat
    /\ handled \in Seq(Nat)
    /\ faults \in 0 .. MaxFaults

\* Entries are handled in the order they were published and none is handled
\* twice, whatever crashes, lost replies and restarts come in between.
HandledInOrder ==
    \A i, j \in 1 .. Len(handled) : i < j => handled[i] < handled[j]

\* An entry that is neither pending, nor acknowledged after its handler ran,
\* was cut off by a shutdown: every other acknowledgement comes after the
\* handler.  (The last handled entry may still be pending.)
Handled == {handled[i] : i \in 1 .. Len(handled)}
Acknowledged == (1 .. delivered) \ pending
AckedAfterHandling == Cardinality(Acknowledged \ Handled) <= faults

\* Once failures have stopped, the worker reads and handles everything that is
\* still unread, even after restarts.  The one thing it does not get over is a
\* start at which the group could not be created.
CatchesUp ==
    <>[](group => delivered = Len(stream) /\ worker = "reading")

\* "At-least-once delivery (un-ACK'd messages are redeliverable)" (REPORT.md):
\* an entry that was handed out and not acknowledged is handled in the end, or
\* acknowledged at last.
Redelivered ==
    \A i \in 1 .. Cardinality(Expenses) :
        i \in pending ~> i \in Handled \/ i \notin pending
=============================================================================
