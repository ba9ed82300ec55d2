-------------------------- MODULE EventStreamProofs --------------------------
(* Safety of the event path for every number of expenses, batch size and     *)
(* number of faults.                                                         *)
EXTENDS EventStream, FiniteSetTheorems, TLAPS

\* Where the loop stands in its batch.  While it handles or acknowledges, the
\* entry `next` has been delivered.
BatchOK ==
    /\ delivered <= Len(stream)
    /\ next <= delivered + 1
    /\ worker \in {"handling", "acking"} => next <= delivered

\* Everything handled lies before `next`, which itself has been handled exactly
\* when its acknowledgement is due.
HandledBelowNext ==
    \A i \in 1 .. Len(handled) :
        handled[i] <= next /\ (worker # "acking" => handled[i] < next)

IInv == TypeOK /\ BatchOK /\ HandledBelowNext /\ HandledInOrder

\* Nothing has been published, read or handled.
LEMMA InitIInv == Init => IInv
<1>1. Init => group \in BOOLEAN
  BY DEF Init
<1> QED
  BY <1>1, EventAssumption
  DEF Init, IInv, TypeOK, BatchOK, HandledBelowNext, HandledInOrder, Progress,
      WorkerStates

\* A step of the expense-service only extends the stream.
LEMMA ServiceStep ==
  ASSUME IInv, NEW e \in Expenses, Commit(e) \/ Publish(e) \/ PublishLost(e)
  PROVE  IInv'
<1>1. stream' \in Seq(Expenses) /\ Len(stream') >= Len(stream)
  <2>1. stream \in Seq(Expenses) /\ Len(stream) \in Nat
    BY DEF IInv, TypeOK
  <2>2. CASE Publish(e)
    BY <2>1, <2>2 DEF Publish
  <2>3. CASE stream' = stream
    BY <2>1, <2>3
  <2> QED
    BY <2>2, <2>3 DEF Commit, PublishLost
<1>2. faults' \in 0 .. MaxFaults
  BY EventAssumption DEF IInv, TypeOK, Commit, Publish, PublishLost, Fault
<1>3. TypeOK'
  BY <1>1, <1>2 DEF IInv, TypeOK, Progress, Commit, Publish, PublishLost
<1>4. BatchOK'
  BY <1>1 DEF IInv, TypeOK, BatchOK, Commit, Publish, PublishLost
<1>5. HandledBelowNext' /\ HandledInOrder'
  BY DEF IInv, HandledBelowNext, HandledInOrder, Commit, Publish, PublishLost
<1> QED
  BY <1>3, <1>4, <1>5 DEF IInv

\* Delivery moves the group to a later entry of the stream.
LEMMA DeliverBounds ==
  ASSUME IInv, Deliver
  PROVE  /\ delivered' \in Nat
         /\ delivered < delivered' /\ delivered' <= Len(stream)
         /\ pending' \subseteq Nat
<1>1. /\ Len(stream) \in Nat /\ delivered \in Nat /\ pending \subseteq Nat
      /\ delivered < Len(stream)
      /\ BatchMax \in Nat /\ BatchMax > 0
  BY EventAssumption DEF IInv, TypeOK, Deliver
<1>2. BatchEnd \in Nat /\ delivered < BatchEnd /\ BatchEnd <= Len(stream)
  BY <1>1 DEF BatchEnd
<1>3. delivered' = BatchEnd
  BY DEF Deliver
<1>4. (delivered + 1 .. BatchEnd) \subseteq Nat
  BY <1>1, <1>2
<1>5. pending' \subseteq Nat
  BY <1>1, <1>4 DEF Deliver, Tracked
<1> QED
  BY <1>2, <1>3, <1>5

\* The steps that handle nothing and leave the loop at or past `next`, outside
\* of an acknowledgement.
LEMMA QuietStep ==
  ASSUME IInv, UNCHANGED <<service, handled>>,
         group' \in BOOLEAN,
         delivered' \in Nat, pending' \subseteq Nat, worker' \in WorkerStates,
         next' \in Nat, faults' \in 0 .. MaxFaults,
         delivered' <= Len(stream), next' <= delivered' + 1,
         worker' = "handling" => next' <= delivered',
         worker' # "acking",
         next' >= next, worker = "acking" => next' > next
  PROVE  IInv'
<1>1. TypeOK'
  BY DEF IInv, TypeOK, service
<1>2. BatchOK'
  BY DEF IInv, TypeOK, BatchOK, service
<1>3. HandledBelowNext'
  <2> SUFFICES ASSUME NEW i \in 1 .. Len(handled) PROVE handled[i] < next'
    BY DEF IInv, TypeOK, HandledBelowNext
  <2>1. handled[i] \in Nat
    BY DEF IInv, TypeOK
  <2>2. handled[i] <= next /\ (worker # "acking" => handled[i] < next)
    BY DEF IInv, HandledBelowNext
  <2> QED
    BY <2>1, <2>2 DEF IInv, TypeOK
<1>4. HandledInOrder'
  BY DEF IInv, HandledInOrder
<1> QED
  BY <1>1, <1>2, <1>3, <1>4 DEF IInv

\* The entry being handled comes after all handled ones.
LEMMA HandleStep ==
  ASSUME IInv, Handle
  PROVE  IInv'
<1>1. /\ handled' = Append(handled, next)
      /\ Len(handled') = Len(handled) + 1
      /\ handled' \in Seq(Nat)
  BY DEF IInv, TypeOK, Handle
<1>2. \A i \in 1 .. Len(handled) :
        handled'[i] = handled[i] /\ handled'[i] \in Nat /\ handled'[i] < next
  BY <1>1 DEF IInv, TypeOK, HandledBelowNext, Handle
<1>3. handled'[Len(handled) + 1] = next
  BY <1>1 DEF IInv, TypeOK
<1>4. TypeOK'
  BY <1>1 DEF IInv, TypeOK, Handle, WorkerStates, service
<1>5. BatchOK'
  BY DEF IInv, BatchOK, Handle, service
<1>6. HandledBelowNext'
  BY <1>1, <1>2, <1>3 DEF IInv, TypeOK, HandledBelowNext, Handle
<1>7. HandledInOrder'
  <2> SUFFICES ASSUME NEW i \in 1 .. Len(handled'), NEW j \in 1 .. Len(handled'),
                      i < j
               PROVE  handled'[i] < handled'[j]
    BY DEF HandledInOrder
  <2>1. Len(handled) \in Nat
    BY DEF IInv, TypeOK
  <2>2. CASE j = Len(handled) + 1
    BY <1>1, <1>2, <1>3, <2>1, <2>2
  <2>3. CASE j # Len(handled) + 1
    <3>0. i \in Int /\ j \in Int /\ i >= 1 /\ j >= 1 /\ j <= Len(handled) + 1
      BY <1>1, <2>1
    <3>1. i \in 1 .. Len(handled) /\ j \in 1 .. Len(handled)
      BY <2>1, <2>3, <3>0
    <3>2. handled[i] < handled[j]
      BY <3>1 DEF IInv, HandledInOrder
    <3> QED
      BY <1>2, <3>1, <3>2
  <2> QED
    BY <2>2, <2>3
<1> QED
  BY <1>4, <1>5, <1>6, <1>7 DEF IInv

\* The invariant survives every step of the service, the worker and the faults.
LEMMA NextIInv == IInv /\ [Next]_vars => IInv'
<1> SUFFICES ASSUME IInv, [Next]_vars PROVE IInv'
  OBVIOUS
<1>0. CASE UNCHANGED vars
  BY <1>0 DEF vars, IInv, TypeOK, BatchOK, HandledBelowNext, HandledInOrder
<1>1. ASSUME NEW e \in Expenses, Commit(e) \/ Publish(e) \/ PublishLost(e)
      PROVE  IInv'
  BY <1>1, ServiceStep
<1>2. CASE Start
  <2>1. group' \in BOOLEAN
    BY <1>2 DEF Start
  <2> QED
    BY <1>2, <2>1, QuietStep DEF IInv, TypeOK, BatchOK, Start, WorkerStates, service
<1>12. CASE StartWithoutRedis
  BY <1>12, QuietStep, EventAssumption
  DEF IInv, TypeOK, BatchOK, StartWithoutRedis, WorkerStates, service, Fault
<1>13. CASE NoGroup
  BY <1>13, QuietStep DEF IInv, TypeOK, BatchOK, NoGroup, WorkerStates, service
<1>3. CASE Read
  BY <1>3, DeliverBounds, QuietStep
  DEF IInv, TypeOK, BatchOK, Read, Deliver, WorkerStates, service
<1>4. CASE ReadLost
  BY <1>4, DeliverBounds, QuietStep, EventAssumption
  DEF IInv, TypeOK, BatchOK, ReadLost, Deliver, WorkerStates, service, Fault
<1>5. CASE ReadFails
  BY <1>5, QuietStep, EventAssumption
  DEF IInv, TypeOK, BatchOK, ReadFails, WorkerStates, service, Fault
<1>6. CASE Handle
  BY <1>6, HandleStep
<1>7. CASE Ack
  BY <1>7, QuietStep
  DEF IInv, TypeOK, BatchOK, Ack, AfterEntry, Following, WorkerStates, service
<1>8. CASE AckFails
  BY <1>8, QuietStep, EventAssumption
  DEF IInv, TypeOK, BatchOK, AckFails, WorkerStates, service, Fault
<1>9. CASE Resume
  BY <1>9, QuietStep DEF IInv, TypeOK, BatchOK, Resume, WorkerStates, service
<1>10. CASE Cancel
  BY <1>10, QuietStep, EventAssumption
  DEF IInv, TypeOK, BatchOK, Cancel, WorkerStates, service, Fault
<1>11. CASE Crash
  BY <1>11, QuietStep, EventAssumption
  DEF IInv, TypeOK, BatchOK, Crash, WorkerStates, service, Fault
<1> QED
  BY <1>0, <1>1, <1>2, <1>3, <1>4, <1>5, <1>6, <1>7, <1>8, <1>9, <1>10, <1>11,
     <1>12, <1>13
  DEF Next, Consume, Failure

\* Type correctness of the event path.
THEOREM EventTypeCorrect == Spec => []TypeOK
<1>1. IInv => TypeOK
  BY DEF IInv
<1> QED
  BY InitIInv, NextIInv, <1>1, PTL DEF Spec

\* Entries are handled in publication order and at most once each, through
\* any number of crashes, shutdowns, lost replies and failed acknowledgements.
THEOREM EntriesHandledInOrder == Spec => []HandledInOrder
<1>1. IInv => HandledInOrder
  BY DEF IInv
<1> QED
  BY InitIInv, NextIInv, <1>1, PTL DEF Spec
-----------------------------------------------------------------------------
(* Acknowledged without having been handled *)

Unhandled == Acknowledged \ Handled

\* An entry whose acknowledgement is due has been handled, and each entry that
\* was acknowledged unhandled is the work of a fault.
AckInv ==
    /\ worker = "acking" => next \in Handled
    /\ AckedAfterHandling

\* What is acknowledged is a part of the finite interval that was delivered.
LEMMA UnhandledFinite ==
  ASSUME IInv
  PROVE  IsFiniteSet(Unhandled) /\ Cardinality(Unhandled) \in Nat
<1>1. IsFiniteSet(1 .. delivered)
  BY FS_Interval DEF IInv, TypeOK
<1>2. Unhandled \in SUBSET (1 .. delivered)
  BY DEF Unhandled, Acknowledged
<1> QED
  BY <1>1, <1>2, FS_Subset, FS_CardinalityType

\* A step keeps the bound if it acknowledges nothing unhandled, or is a fault
\* that acknowledges one entry.
LEMMA AckBound ==
  ASSUME IInv, AckInv, faults' \in Int, NEW x,
         \/ Unhandled' \subseteq Unhandled /\ faults' >= faults
         \/ Unhandled' \subseteq Unhandled \cup {x} /\ faults' = faults + 1
  PROVE  AckedAfterHandling'
<1>1. /\ IsFiniteSet(Unhandled) /\ Cardinality(Unhandled) \in Nat
      /\ Cardinality(Unhandled) <= faults /\ faults \in Int
  BY UnhandledFinite DEF IInv, TypeOK, AckInv, AckedAfterHandling, Unhandled
<1>2. /\ IsFiniteSet(Unhandled \cup {x})
      /\ Cardinality(Unhandled \cup {x}) \in Nat
      /\ Cardinality(Unhandled \cup {x}) <= Cardinality(Unhandled) + 1
  <2>1. /\ IsFiniteSet(Unhandled \cup {x})
        /\ \/ Cardinality(Unhandled \cup {x}) = Cardinality(Unhandled)
           \/ Cardinality(Unhandled \cup {x}) = Cardinality(Unhandled) + 1
    BY <1>1, FS_AddElement, Zenon
  <2> QED
    BY <1>1, <2>1
<1>3. Cardinality(Unhandled') <= faults'
  <2>1. CASE Unhandled' \subseteq Unhandled /\ faults' >= faults
    <3>1. Cardinality(Unhandled') \in Nat /\ Cardinality(Unhandled') <= Cardinality(Unhandled)
      BY <1>1, <2>1, FS_Subset, FS_CardinalityType
    <3> QED
      BY <1>1, <2>1, <3>1
  <2>2. CASE Unhandled' \subseteq Unhandled \cup {x} /\ faults' = faults + 1
    <3>1. /\ Cardinality(Unhandled') \in Nat
          /\ Cardinality(Unhandled') <= Cardinality(Unhandled \cup {x})
      BY <1>2, <2>2, FS_Subset, FS_CardinalityType
    <3> QED
      BY <1>1, <1>2, <2>2, <3>1
  <2> QED
    BY <2>1, <2>2
<1> QED
  BY <1>3 DEF AckedAfterHandling, Unhandled

\* Delivered entries are pending first, so a delivery acknowledges nothing.
LEMMA DeliveredArePending ==
  ASSUME IInv, Deliver
  PROVE  Acknowledged' \subseteq Acknowledged
<1>1. delivered' = BatchEnd /\ pending' = pending \cup (delivered + 1 .. BatchEnd)
  BY DEF Deliver, Tracked
<1>2. delivered \in Int /\ delivered' \in Int
  BY DeliverBounds DEF IInv, TypeOK
<1> QED
  BY <1>1, <1>2 DEF Acknowledged

LEMMA NextAckInv == IInv /\ AckInv /\ [Next]_vars => AckInv'
<1> SUFFICES ASSUME IInv, AckInv, [Next]_vars PROVE AckInv'
  OBVIOUS
<1>t. faults \in Int /\ faults' \in Int
  <2>1. faults \in Int /\ IInv'
    BY NextIInv DEF IInv, TypeOK
  <2> QED
    BY <2>1 DEF IInv, TypeOK
<1>0. CASE UNCHANGED vars
  BY <1>0 DEF vars, AckInv, AckedAfterHandling, Acknowledged, Handled
<1>1. ASSUME NEW e \in Expenses, Commit(e) \/ Publish(e) \/ PublishLost(e)
      PROVE  AckInv'
  <2>1. UNCHANGED <<Unhandled, Handled, worker, next>> /\ faults' >= faults
    BY <1>1, <1>t
    DEF Unhandled, Acknowledged, Handled, Commit, Publish, PublishLost, Fault
  <2> QED
    BY <1>t, <2>1, AckBound DEF AckInv
<1>2. CASE Start \/ StartWithoutRedis \/ ReadFails \/ NoGroup \/ Resume \/ Crash
  <2>1. Unhandled' = Unhandled /\ worker' # "acking" /\ faults' >= faults
    BY <1>2, <1>t
    DEF Unhandled, Acknowledged, Handled, Start, StartWithoutRedis, ReadFails, NoGroup,
        Resume, Crash, Fault
  <2> QED
    BY <1>t, <2>1, AckBound DEF AckInv
<1>3. CASE Read \/ ReadLost
  <2>1. Deliver /\ worker' # "acking" /\ faults' >= faults /\ handled' = handled
    BY <1>3, <1>t DEF Read, ReadLost, Deliver, Fault
  <2>2. Unhandled' \subseteq Unhandled
    BY <2>1, DeliveredArePending DEF Unhandled, Handled
  <2> QED
    BY <1>t, <2>1, <2>2, AckBound DEF AckInv
<1>4. CASE Handle
  <2>1. /\ handled' = Append(handled, next) /\ handled \in Seq(Nat) /\ next \in Nat
        /\ UNCHANGED <<delivered, pending, faults, next>>
    BY <1>4 DEF IInv, TypeOK, Handle
  <2>2. /\ Len(handled) \in Nat /\ Len(handled') = Len(handled) + 1
        /\ \A i \in 1 .. Len(handled) : handled'[i] = handled[i]
        /\ handled'[Len(handled) + 1] = next
    BY <2>1
  <2>3. \A n \in Handled : n \in Handled'
    <3>1. \A i \in 1 .. Len(handled) : i \in 1 .. Len(handled')
      BY <2>2
    <3> QED
      BY <2>2, <3>1 DEF Handled
  <2>4. next' \in Handled'
    <3>1. Len(handled) + 1 \in 1 .. Len(handled')
      BY <2>2
    <3> QED
      BY <2>1, <2>2, <3>1 DEF Handled
  <2>5. Unhandled' \subseteq Unhandled
    BY <2>1, <2>3 DEF Unhandled, Acknowledged
  <2> QED
    BY <1>t, <2>1, <2>4, <2>5, AckBound DEF AckInv
<1>5. CASE Ack \/ AckFails
  <2>1. /\ next \in Handled /\ worker' # "acking" /\ faults' >= faults
        /\ pending \ {next} \subseteq pending' /\ UNCHANGED <<delivered, handled>>
    BY <1>5, <1>t DEF AckInv, Ack, AckFails, AfterEntry, Fault
  <2>2. Unhandled' \subseteq Unhandled
    BY <2>1 DEF Unhandled, Acknowledged, Handled
  <2> QED
    BY <1>t, <2>1, <2>2, AckBound DEF AckInv
<1>6. CASE Cancel
  <2>1. /\ worker' # "acking" /\ faults' = faults + 1
        /\ pending' = pending \ {next} /\ UNCHANGED <<delivered, handled>>
    BY <1>6 DEF Cancel, Fault
  <2>2. Unhandled' \subseteq Unhandled \cup {next}
    BY <2>1 DEF Unhandled, Acknowledged, Handled
  <2> QED
    BY <1>t, <2>1, <2>2, AckBound DEF AckInv
<1> QED
  BY <1>0, <1>1, <1>2, <1>3, <1>4, <1>5, <1>6 DEF Next, Consume, Failure

\* Only a shutdown that cuts a handler off acknowledges an entry whose handler
\* did not run: there are never more of these than there were faults.
THEOREM EntriesAckedAfterHandling == Spec => []AckedAfterHandling
<1>1. Init => AckInv
  <2> SUFFICES ASSUME Init PROVE AckInv
    OBVIOUS
  <2>1. Unhandled = {} /\ faults = 0 /\ worker # "acking"
    BY DEF Init, Unhandled, Acknowledged
  <2> QED
    BY <2>1, FS_EmptySet DEF AckInv, AckedAfterHandling, Unhandled
<1>2. AckInv => AckedAfterHandling
  BY DEF AckInv
<1> QED
  BY InitIInv, NextIInv, NextAckInv, <1>1, <1>2, PTL DEF Spec
=============================================================================
