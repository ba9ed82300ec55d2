-------------------------- MODULE RateLimiterProofs --------------------------
(* The rate limit holds for any number of processes, any limit and window, *)
(* and any delay of Redis below the window.                                *)
EXTENDS RateLimiter, FiniteSetTheorems, TLAPS

\* What a store let through between t - (Window - MaxDelay) and t.
In(s, t) == {e \in allowed[s] : t - (Window - MaxDelay) < e.at /\ e.at <= t}

TypeOK ==
    /\ store \in [Stores -> SUBSET Entry]
    /\ allowed \in [Stores -> SUBSET Entry]
    /\ inFlight \subseteq Request
    /\ clock \in Nat
    /\ touched \in Nat
    /\ IsFiniteSet(made)

\* Stamps are not of the future, and not older than a request may wait.
StampsOK ==
    /\ touched <= clock
    /\ \A r \in inFlight : r.at <= clock /\ clock <= r.at + MaxDelay
    /\ \A e \in allowed["redis"] : e.at <= touched

\* What was let through and is younger than a window is still recorded.
Kept == \A s \in Stores : \A e \in allowed[s] :
            e.at > clock - Window => e \in store[s]

IInv ==
    /\ TypeOK /\ StampsOK /\ Kept
    /\ \A s \in Stores : IsFiniteSet(store[s])
    /\ \A s \in Stores, t \in Nat : Cardinality(In(s, t)) <= Limit

LEMMA InitInv == Init => IInv
<1> SUFFICES ASSUME Init PROVE IInv
  OBVIOUS
<1>1. TypeOK /\ StampsOK /\ Kept
  BY LimiterAssumption, FS_EmptySet DEF Init, TypeOK, StampsOK, Kept, Stores
<1>2. \A s \in Stores : IsFiniteSet(store[s])
  BY FS_EmptySet DEF Init
<1>3. ASSUME NEW s \in Stores, NEW t \in Nat
      PROVE  Cardinality(In(s, t)) <= Limit
  <2>1. In(s, t) = {}
    BY DEF Init, In
  <2> QED
    BY <2>1, FS_EmptySet, LimiterAssumption
<1> QED
  BY <1>1, <1>2, <1>3 DEF IInv

\* What a store records of a request: a finite set, with everything that is
\* younger than a window and was let through before.
LEMMA RecordedOK ==
  ASSUME IInv, NEW s \in Stores, NEW r \in inFlight
  PROVE  /\ EntryIn(s, r) \in Entry /\ EntryIn(s, r).at = r.at
         /\ Recorded(s, r) \in SUBSET Entry
         /\ IsFiniteSet(Recorded(s, r))
         /\ \A e \in allowed[s] : e.at > clock - Window => e \in Recorded(s, r)
<1>1. r \in Request /\ r.at \in Nat /\ clock \in Nat /\ r.at <= clock
  BY DEF IInv, TypeOK, StampsOK, Request
<1>2. EntryIn(s, r) \in Entry /\ EntryIn(s, r).at = r.at
  BY <1>1 DEF EntryIn, Entry, Request
<1>3. Recent(store[s], r.at) \subseteq store[s] /\ store[s] \subseteq Entry
  BY DEF Recent, IInv, TypeOK
<1>4. IsFiniteSet(Recent(store[s], r.at))
  BY <1>3, FS_Subset DEF IInv
<1>5. IsFiniteSet(Recorded(s, r))
  BY <1>4, FS_AddElement DEF Recorded
<1>6. ASSUME NEW e \in allowed[s], e.at > clock - Window
      PROVE  e \in Recorded(s, r)
  <2>1. e \in store[s] /\ e.at \in Nat
    BY <1>6 DEF IInv, Kept, TypeOK, Entry
  <2>2. e.at > r.at - Window
    BY <1>1, <1>6, <2>1, LimiterAssumption
  <2> QED
    BY <2>1, <2>2 DEF Recorded, Recent
<1> QED
  BY <1>2, <1>3, <1>5, <1>6 DEF Recorded

\* A decision: the windows that hold the new entry hold nothing that the store
\* does not record, and the store was counted.
LEMMA DecideOK ==
  ASSUME IInv, NEW s \in Stores, NEW r \in inFlight, Decide(s, r),
         store'[s] = Recorded(s, r), clock' = clock
  PROVE  /\ allowed' \in [Stores -> SUBSET Entry]
         /\ \A q \in Stores \ {s} : allowed'[q] = allowed[q]
         /\ \A e \in allowed'[s] : e \in allowed[s] \/ e.at = r.at
         /\ \A e \in allowed'[s] : e.at > clock - Window => e \in store'[s]
         /\ \A t \in Nat : Cardinality(In(s, t)') <= Limit
<1> DEFINE new == EntryIn(s, r)
<1>1. /\ new \in Entry /\ new.at = r.at /\ IsFiniteSet(store'[s])
      /\ \A e \in allowed[s] : e.at > clock - Window => e \in store'[s]
      /\ new \in store'[s]
  BY RecordedOK DEF Recorded
<1>2. /\ r.at \in Nat /\ clock \in Nat /\ clock <= r.at + MaxDelay
      /\ Window \in Nat /\ MaxDelay \in Nat /\ Limit \in Nat
  BY LimiterAssumption DEF IInv, TypeOK, StampsOK, Request
<1>3. CASE ~Within(Recorded(s, r))
  <2>1. allowed' = allowed
    BY <1>3 DEF Decide
  <2> QED
    BY <1>1, <2>1 DEF IInv, TypeOK, In
<1>4. CASE Within(Recorded(s, r))
  <2>1. allowed' = [allowed EXCEPT ![s] = @ \cup {new}]
    BY <1>4 DEF Decide
  <2>2. allowed'[s] = allowed[s] \cup {new} /\ allowed[s] \subseteq Entry
    BY <2>1 DEF IInv, TypeOK
  <2>3. /\ allowed' \in [Stores -> SUBSET Entry]
        /\ \A q \in Stores \ {s} : allowed'[q] = allowed[q]
    BY <1>1, <2>1 DEF IInv, TypeOK
  <2>4. /\ \A e \in allowed'[s] : e \in allowed[s] \/ e.at = r.at
        /\ \A e \in allowed'[s] : e.at > clock - Window => e \in store'[s]
    BY <1>1, <2>2
  <2>5. ASSUME NEW t \in Nat PROVE Cardinality(In(s, t)') <= Limit
    <3>1. CASE t - (Window - MaxDelay) < r.at /\ r.at <= t
      <4>1. ASSUME NEW e \in In(s, t)' PROVE e \in store'[s]
        <5>1. e \in allowed'[s] /\ t - (Window - MaxDelay) < e.at /\ e.at \in Nat
          BY <1>1, <2>2, <4>1 DEF In, Entry
        <5>2. e.at > clock - Window
          BY <1>2, <3>1, <5>1
        <5> QED
          BY <2>4, <5>1, <5>2
      <4>2. Cardinality(In(s, t)') <= Cardinality(store'[s])
        BY <1>1, <4>1, FS_Subset
      <4>3. IsFiniteSet(In(s, t)')
        BY <1>1, <4>1, FS_Subset
      <4>4. Cardinality(store'[s]) <= Limit
        BY <1>4 DEF Within
      <4> QED
        BY <1>1, <1>2, <4>2, <4>3, <4>4, FS_CardinalityType
    <3>2. CASE ~(t - (Window - MaxDelay) < r.at /\ r.at <= t)
      <4>1. In(s, t)' = In(s, t)
        BY <1>1, <2>2, <3>2 DEF In
      <4> QED
        BY <4>1 DEF IInv
    <3> QED
      BY <3>1, <3>2
  <2> QED
    BY <2>3, <2>4, <2>5
<1> QED
  BY <1>3, <1>4

\* The parts of the invariant that a decision does not touch.
LEMMA CheckInv ==
  ASSUME IInv, NEW s \in Stores, NEW r \in inFlight, Decide(s, r),
         store'[s] = Recorded(s, r), clock' = clock, made' = made,
         store' \in [Stores -> SUBSET Entry],
         \A q \in Stores \ {s} :
            store'[q] = store[q] \/ (store'[q] = Recorded(q, r) /\ q = "redis"),
         touched' \in {touched, clock}, s = "redis" => touched' = clock
  PROVE  IInv'
<1>1. /\ allowed' \in [Stores -> SUBSET Entry]
      /\ \A q \in Stores \ {s} : allowed'[q] = allowed[q]
      /\ \A e \in allowed'[s] : e \in allowed[s] \/ e.at = r.at
      /\ \A e \in allowed'[s] : e.at > clock - Window => e \in store'[s]
      /\ \A t \in Nat : Cardinality(In(s, t)') <= Limit
  BY DecideOK
<1>2. inFlight' \subseteq inFlight
  BY DEF Decide
<1>3. touched \in Nat /\ clock \in Nat /\ touched <= clock /\ r.at <= clock
      /\ r.at \in Nat /\ "redis" \in Stores
  BY DEF IInv, TypeOK, StampsOK, Request, Stores
<1>4. TypeOK'
  BY <1>1, <1>2, <1>3 DEF IInv, TypeOK
<1>5. StampsOK'
  <2>1. touched' <= clock'
    BY <1>3
  <2>2. \A q \in inFlight' : q.at <= clock' /\ clock' <= q.at + MaxDelay
    BY <1>2 DEF IInv, StampsOK
  <2>3. ASSUME NEW e \in allowed'["redis"] PROVE e.at <= touched'
    <3>1. CASE s = "redis"
      <4>1. touched' = clock
        BY <3>1
      <4>2. CASE e.at = r.at
        BY <1>3, <4>1, <4>2
      <4>3. CASE e \in allowed["redis"]
        <5>1. e.at \in Nat /\ e.at <= touched
          BY <1>3, <4>3 DEF IInv, TypeOK, StampsOK, Entry
        <5> QED
          BY <1>3, <4>1, <5>1
      <4> QED
        BY <1>1, <2>3, <3>1, <4>2, <4>3
    <3>2. CASE s # "redis"
      <4>1. e \in allowed["redis"]
        BY <1>1, <1>3, <2>3, <3>2
      <4>2. e.at \in Nat /\ e.at <= touched
        BY <1>3, <4>1 DEF IInv, TypeOK, StampsOK, Entry
      <4> QED
        BY <1>3, <4>2
    <3> QED
      BY <3>1, <3>2
  <2> QED
    BY <2>1, <2>2, <2>3 DEF StampsOK
<1>6. ASSUME NEW q \in Stores
      PROVE  /\ IsFiniteSet(store'[q])
             /\ \A e \in allowed'[q] : e.at > clock' - Window => e \in store'[q]
             /\ \A t \in Nat : Cardinality(In(q, t)') <= Limit
  <2>1. CASE q = s
    BY <1>1, <2>1, RecordedOK
  <2>2. CASE q # s
    <3>1. allowed'[q] = allowed[q]
      BY <1>1, <2>2
    <3>2. \A t \in Nat : In(q, t)' = In(q, t)
      BY <3>1 DEF In
    <3>3. CASE store'[q] = store[q]
      BY <3>1, <3>2, <3>3 DEF IInv, Kept
    <3>4. CASE store'[q] = Recorded(q, r)
      <4>1. /\ IsFiniteSet(Recorded(q, r))
            /\ \A e \in allowed[q] : e.at > clock - Window => e \in Recorded(q, r)
        BY RecordedOK
      <4> QED
        BY <3>1, <3>2, <3>4, <4>1 DEF IInv
    <3> QED
      BY <2>2, <3>3, <3>4
  <2> QED
    BY <2>1, <2>2
<1> QED
  BY <1>4, <1>5, <1>6 DEF IInv, Kept

LEMMA NextInv == IInv /\ [Next]_vars => IInv'
<1> SUFFICES ASSUME IInv, [Next]_vars PROVE IInv'
  OBVIOUS
<1>1. /\ clock \in Nat /\ touched \in Nat /\ touched <= clock
      /\ Window \in Nat /\ MaxDelay \in Nat /\ Limit \in Nat
      /\ "redis" \in Stores /\ Processes \subseteq Stores /\ "redis" \notin Processes
      /\ store \in [Stores -> SUBSET Entry] /\ allowed \in [Stores -> SUBSET Entry]
      /\ inFlight \subseteq Request
  BY LimiterAssumption DEF IInv, TypeOK, StampsOK, Stores
<1>2. CASE UNCHANGED vars
  BY <1>2 DEF vars, IInv, TypeOK, StampsOK, Kept, In
<1>3. ASSUME NEW p \in Processes, Arrive(p) PROVE IInv'
  <2> DEFINE r == [process |-> p, at |-> clock, id |-> Cardinality(made) + 1]
  <2>1. /\ inFlight' = inFlight \cup {r} /\ made' = made \cup {r}
        /\ UNCHANGED <<store, touched, clock, allowed>>
    BY <1>3 DEF Arrive
  <2>2. IsFiniteSet(made) /\ IsFiniteSet(made')
    BY <2>1, FS_AddElement DEF IInv, TypeOK
  <2>3. Cardinality(made) \in Nat
    BY <2>2, FS_CardinalityType
  <2>4. r \in Request
    BY <1>1, <2>3 DEF Request
  <2>5. TypeOK'
    BY <1>1, <2>1, <2>2, <2>4 DEF TypeOK
  <2>6. clock <= clock + MaxDelay
    BY <1>1
  <2>7. StampsOK'
    BY <1>1, <2>1, <2>6 DEF IInv, StampsOK
  <2> QED
    BY <2>1, <2>5, <2>7 DEF IInv, Kept, In
<1>4. ASSUME NEW r \in inFlight, CheckRedis(r) PROVE IInv'
  <2>1. /\ Decide("redis", r) /\ touched' = clock /\ clock' = clock /\ made' = made
        /\ store' = [store EXCEPT !["redis"] = Recorded("redis", r)]
    BY <1>4 DEF CheckRedis
  <2>2. /\ store'["redis"] = Recorded("redis", r)
        /\ store' \in [Stores -> SUBSET Entry]
        /\ \A q \in Stores \ {"redis"} : store'[q] = store[q]
    BY <1>1, <2>1, RecordedOK
  <2> QED
    BY <1>1, <2>1, <2>2, CheckInv
<1>5. ASSUME NEW r \in inFlight, CheckLocal(r) PROVE IInv'
  <2>1. /\ Decide(r.process, r) /\ touched' = touched /\ clock' = clock /\ made' = made
        /\ store' = [store EXCEPT ![r.process] = Recorded(r.process, r)]
    BY <1>5 DEF CheckLocal
  <2>2. r.process \in Stores /\ r.process # "redis"
    BY <1>1 DEF Request
  <2>3. /\ store'[r.process] = Recorded(r.process, r)
        /\ store' \in [Stores -> SUBSET Entry]
        /\ \A q \in Stores \ {r.process} : store'[q] = store[q]
    BY <1>1, <2>1, <2>2, RecordedOK
  <2> QED
    BY <2>1, <2>2, <2>3, CheckInv
<1>6. ASSUME NEW r \in inFlight, FallBack(r) PROVE IInv'
  <2>1. r.process \in Stores /\ r.process # "redis"
    BY <1>1 DEF Request
  <2>2. /\ Decide(r.process, r) /\ clock' = clock /\ made' = made
        /\ touched' \in {touched, clock}
        /\ \/ store' = [store EXCEPT ![r.process] = Recorded(r.process, r)]
           \/ store' = [store EXCEPT ![r.process] = Recorded(r.process, r),
                                     !["redis"] = Recorded("redis", r)]
    BY <1>6 DEF FallBack
  <2>3. /\ store'[r.process] = Recorded(r.process, r)
        /\ store' \in [Stores -> SUBSET Entry]
        /\ \A q \in Stores \ {r.process} :
             store'[q] = store[q] \/ (store'[q] = Recorded(q, r) /\ q = "redis")
    BY <1>1, <2>1, <2>2, RecordedOK
  <2> QED
    BY <2>1, <2>2, <2>3, CheckInv
<1>7. CASE Expire
  <2>1. /\ store' = [store EXCEPT !["redis"] = {}]
        /\ clock >= touched + 2 * Window
        /\ UNCHANGED <<inFlight, touched, clock, made, allowed>>
    BY <1>7 DEF Expire
  <2>2. store' \in [Stores -> SUBSET Entry] /\ store'["redis"] = {}
        /\ \A s \in Stores \ {"redis"} : store'[s] = store[s]
    BY <1>1, <2>1
  <2>3. ASSUME NEW e \in allowed["redis"] PROVE ~(e.at > clock - Window)
    <3>1. e.at \in Nat /\ e.at <= touched
      BY <1>1 DEF IInv, TypeOK, StampsOK, Entry
    <3> QED
      BY <1>1, <2>1, <3>1
  <2>4. TypeOK' /\ StampsOK'
    BY <2>1, <2>2 DEF IInv, TypeOK, StampsOK
  <2>5. Kept'
    BY <2>1, <2>2, <2>3 DEF IInv, Kept
  <2>6. \A s \in Stores : IsFiniteSet(store'[s])
    BY <2>2, FS_EmptySet DEF IInv
  <2> QED
    BY <2>1, <2>4, <2>5, <2>6 DEF IInv, In
<1>8. ASSUME NEW p \in Processes, Restart(p) PROVE IInv'
  <2>1. /\ store' = [store EXCEPT ![p] = {}]
        /\ allowed' = [allowed EXCEPT ![p] = {}]
        /\ inFlight' \subseteq inFlight
        /\ UNCHANGED <<touched, clock, made>>
    BY <1>8 DEF Restart
  <2>2. p \in Stores /\ p # "redis"
    BY <1>1
  <2>3. /\ store' \in [Stores -> SUBSET Entry] /\ allowed' \in [Stores -> SUBSET Entry]
        /\ store'[p] = {} /\ allowed'[p] = {}
        /\ \A s \in Stores \ {p} : store'[s] = store[s] /\ allowed'[s] = allowed[s]
    BY <1>1, <2>1, <2>2
  <2>4. TypeOK' /\ StampsOK'
    BY <1>1, <2>1, <2>2, <2>3 DEF IInv, TypeOK, StampsOK
  <2>5. Kept'
    BY <2>1, <2>3 DEF IInv, Kept
  <2>6. \A s \in Stores : IsFiniteSet(store'[s])
    BY <2>3, FS_EmptySet DEF IInv
  <2>7. ASSUME NEW s \in Stores, NEW t \in Nat PROVE Cardinality(In(s, t)') <= Limit
    <3>1. CASE s = p
      <4>1. In(s, t)' = {}
        BY <2>3, <3>1 DEF In
      <4> QED
        BY <1>1, <4>1, FS_EmptySet
    <3>2. CASE s # p
      <4>1. In(s, t)' = In(s, t)
        BY <2>3, <3>2 DEF In
      <4> QED
        BY <4>1 DEF IInv
    <3> QED
      BY <3>1, <3>2
  <2> QED
    BY <2>4, <2>5, <2>6, <2>7 DEF IInv
<1>9. CASE Tick
  <2>1. /\ clock' = clock + 1
        /\ \A r \in inFlight : clock < r.at + MaxDelay
        /\ UNCHANGED <<store, inFlight, touched, made, allowed>>
    BY <1>9 DEF Tick
  <2>2. TypeOK'
    BY <1>1, <2>1 DEF IInv, TypeOK
  <2>3. \A r \in inFlight : r.at \in Nat /\ r.at <= clock
    BY DEF IInv, TypeOK, StampsOK, Request
  <2>4. StampsOK'
    BY <1>1, <2>1, <2>3 DEF IInv, StampsOK
  <2>5. \A s \in Stores : \A e \in allowed[s] : e.at \in Nat
    BY <1>1 DEF Entry
  <2>6. Kept'
    BY <1>1, <2>1, <2>5 DEF IInv, Kept
  <2> QED
    BY <2>1, <2>2, <2>4, <2>6 DEF IInv, In
<1> QED
  BY <1>2, <1>3, <1>4, <1>5, <1>6, <1>7, <1>8, <1>9 DEF Next

\* At most Limit stamps per window and store, whatever is delayed, lost or
\* restarted.
THEOREM LimiterAllowedPerWindow == Spec => []AllowedPerWindow
<1>1. IInv => AllowedPerWindow
  <2>1. IInv => 0 .. clock \subseteq Nat
    BY DEF IInv, TypeOK
  <2> QED
    BY <2>1 DEF IInv, AllowedPerWindow, In
<1> QED
  BY InitInv, NextInv, <1>1, PTL DEF Spec

-----------------------------------------------------------------------------
(* Who is refused *)

\* Every entry of a store is the stamp of a request the client made.
Traced ==
    /\ made \subseteq Request
    /\ inFlight \subseteq made
    /\ \A s \in Stores : \A e \in store[s] : \E q \in made : EntryIn(s, q) = e

\* Recording a request keeps the entries traceable.
LEMMA RecordedTraced ==
  ASSUME Traced, NEW s \in Stores, NEW r \in inFlight
  PROVE  \A e \in Recorded(s, r) : \E q \in made : EntryIn(s, q) = e
<1>1. \A e \in Recent(store[s], r.at) : e \in store[s]
  BY DEF Recent
<1>2. r \in made
  BY DEF Traced
<1> QED
  BY <1>1, <1>2 DEF Traced, Recorded

LEMMA TracedInv == IInv /\ Traced /\ [Next]_vars => Traced'
<1> SUFFICES ASSUME IInv, Traced, [Next]_vars PROVE Traced'
  OBVIOUS
<1>1. /\ "redis" \in Stores /\ Processes \subseteq Stores
      /\ store \in [Stores -> SUBSET Entry] /\ inFlight \subseteq Request
      /\ clock \in Nat
  BY DEF IInv, TypeOK, Stores
<1>2. CASE UNCHANGED vars
  BY <1>2 DEF vars, Traced, EntryIn
<1>3. ASSUME NEW p \in Processes, Arrive(p) PROVE Traced'
  <2> DEFINE r == [process |-> p, at |-> clock, id |-> Cardinality(made) + 1]
  <2>1. /\ inFlight' = inFlight \cup {r} /\ made' = made \cup {r}
        /\ store' = store
    BY <1>3 DEF Arrive
  <2>2. Cardinality(made) \in Nat
    BY FS_CardinalityType DEF IInv, TypeOK
  <2>3. r \in Request
    BY <1>1, <2>2 DEF Request
  <2> HIDE DEF r
  <2> QED
    BY <2>1, <2>3 DEF Traced, EntryIn
<1>4. ASSUME inFlight' \subseteq inFlight, made' = made,
             \A s \in Stores :
               \/ store'[s] \subseteq store[s]
               \/ \E r \in inFlight : store'[s] = Recorded(s, r)
      PROVE  Traced'
  <2>1. ASSUME NEW s \in Stores, NEW e \in store'[s]
        PROVE  \E q \in made' : EntryIn(s, q)' = e
    <3>1. \E q \in made : EntryIn(s, q) = e
      BY <1>4, RecordedTraced DEF Traced
    <3> QED
      BY <1>4, <3>1 DEF EntryIn
  <2> QED
    BY <1>4, <2>1 DEF Traced, EntryIn
<1>5. ASSUME NEW r \in inFlight, CheckRedis(r) \/ CheckLocal(r) \/ FallBack(r)
      PROVE  Traced'
  <2>1. /\ inFlight' \subseteq inFlight /\ made' = made
        /\ r.process \in Stores
        /\ \/ store' = [store EXCEPT !["redis"] = Recorded("redis", r)]
           \/ store' = [store EXCEPT ![r.process] = Recorded(r.process, r)]
           \/ store' = [store EXCEPT ![r.process] = Recorded(r.process, r),
                                     !["redis"] = Recorded("redis", r)]
    BY <1>1, <1>5 DEF CheckRedis, CheckLocal, FallBack, Decide, Request
  <2>2. \A s \in Stores : store'[s] = store[s] \/ store'[s] = Recorded(s, r)
    BY <1>1, <2>1
  <2> QED
    BY <1>4, <2>1, <2>2
<1>6. CASE Expire
  <2>1. /\ inFlight' = inFlight /\ made' = made
        /\ \A s \in Stores : store'[s] \subseteq store[s]
    BY <1>1, <1>6 DEF Expire
  <2> QED
    BY <1>4, <2>1
<1>7. ASSUME NEW p \in Processes, Restart(p) PROVE Traced'
  <2>1. /\ inFlight' \subseteq inFlight /\ made' = made
        /\ \A s \in Stores : store'[s] \subseteq store[s]
    BY <1>1, <1>7 DEF Restart
  <2> QED
    BY <1>4, <2>1
<1>8. CASE Tick
  BY <1>4, <1>8 DEF Tick
<1> QED
  BY <1>2, <1>3, <1>5, <1>6, <1>7, <1>8 DEF Next

\* The recorded entries of a window come from different requests of it.
LEMMA BusyIfFull ==
  ASSUME IInv, Traced, NEW r \in inFlight, NEW s \in Stores
  PROVE  Cardinality(Recorded(s, r)) <= Cardinality(Rivals(r))
<1> DEFINE R == Rivals(r)
           f == [q \in R |-> EntryIn(s, q)]
           T == {EntryIn(s, q) : q \in R}
           C == Recorded(s, r)
<1>1. /\ r \in made /\ r.at \in Int /\ r.at > r.at - Window
      /\ made \subseteq Request /\ IsFiniteSet(made)
  BY LimiterAssumption DEF IInv, TypeOK, Traced, Request
<1>2. R \subseteq made /\ IsFiniteSet(R)
  BY <1>1, FS_Subset DEF Rivals
<1>3. f \in Surjection(R, T)
  BY DEF Surjection
<1>4. IsFiniteSet(T) /\ Cardinality(T) <= Cardinality(R)
  BY <1>2, <1>3, FS_Surjection
<1>5. ASSUME NEW e \in C PROVE e \in T
  <2>1. CASE e = EntryIn(s, r)
    BY <1>1, <2>1 DEF Rivals
  <2>2. CASE e \in Recent(store[s], r.at)
    <3>1. e \in store[s] /\ e.at > r.at - Window
      BY <2>2 DEF Recent
    <3>2. PICK q \in made : EntryIn(s, q) = e
      BY <3>1 DEF Traced
    <3>3. q.at = e.at
      BY <3>2 DEF EntryIn
    <3>4. q \in R
      BY <3>1, <3>2, <3>3 DEF Rivals
    <3> QED
      BY <3>2, <3>4
  <2> QED
    BY <2>1, <2>2 DEF Recorded
<1> HIDE DEF T, R, C, f
<1>6. C \subseteq T
  BY <1>5
<1>7. IsFiniteSet(C) /\ Cardinality(C) <= Cardinality(T)
  BY <1>4, <1>6, FS_Subset
<1>8. /\ Cardinality(C) \in Nat /\ Cardinality(T) \in Nat
      /\ Cardinality(R) \in Nat
  BY <1>2, <1>4, <1>7, FS_CardinalityType
<1> QED
  BY <1>4, <1>7, <1>8 DEF C, R

\* Only a client that made more than Limit requests within a window is refused,
\* by Redis or by any process's own list.
THEOREM LimiterRefusedOnlyIfBusy == Spec => []RefusedOnlyIfBusy
<1>1. Init => IInv /\ Traced
  <2>1. Init => Traced
    BY DEF Init, Traced
  <2> QED
    BY <2>1, InitInv
<1>2. IInv /\ Traced /\ [Next]_vars => (IInv /\ Traced)'
  BY NextInv, TracedInv
<1>3. IInv /\ Traced => RefusedOnlyIfBusy
  <2> SUFFICES ASSUME IInv, Traced, NEW r \in inFlight, NEW s \in {"redis", r.process},
                      ~Within(Recorded(s, r))
               PROVE  Cardinality(Rivals(r)) > Limit
    BY DEF RefusedOnlyIfBusy
  <2>1. s \in Stores
    BY DEF IInv, TypeOK, Request, Stores
  <2>2. Cardinality(Recorded(s, r)) > Limit
    <3>1. Cardinality(Recorded(s, r)) \in Nat /\ Limit \in Nat
      BY <2>1, RecordedOK, FS_CardinalityType, LimiterAssumption
    <3> QED
      BY <3>1 DEF Within
  <2>3. Cardinality(Recorded(s, r)) <= Cardinality(Rivals(r))
    BY <2>1, BusyIfFull
  <2>4. Cardinality(Rivals(r)) \in Nat /\ Cardinality(Recorded(s, r)) \in Nat
    <3>1. IsFiniteSet(Rivals(r))
      BY FS_Subset DEF Rivals, IInv, TypeOK
    <3> QED
      BY <2>1, <3>1, RecordedOK, FS_CardinalityType
  <2> QED
    BY <2>2, <2>3, <2>4, LimiterAssumption
<1> QED
  BY <1>1, <1>2, <1>3, PTL DEF Spec
=============================================================================
