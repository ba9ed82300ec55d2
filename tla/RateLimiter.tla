----------------------------- MODULE RateLimiter -----------------------------
(***************************************************************************)
(* The gateway's sliding-window rate limiter (middleware/rate_limit.py)    *)
(* for the requests of one client: a sorted set in Redis shared by the     *)
(* gateway processes, and a list in each process for when Redis fails.     *)
(*                                                                         *)
(* A request takes its time stamp before it waits for Redis, so pipelines  *)
(* may run in another order than the stamps say.  A pipeline is one        *)
(* transaction.  The clock counts microseconds, the precision of a stamp.  *)
(***************************************************************************)
EXTENDS Integers, FiniteSets

CONSTANTS
    Processes,    \* gateway processes
    Limit,        \* RATE_LIMIT_PER_MINUTE
    Window,       \* 60 seconds
    MaxDelay,     \* bound on the wait for Redis
    MaxClock,     \* bound on time
    MaxRequests,  \* bound on the requests
    MaxFaults     \* bound on failing pipelines and restarts

ASSUME LimiterAssumption ==
    /\ "redis" \notin Processes
    /\ Limit \in Nat /\ Window \in Nat \ {0} /\ MaxDelay \in Nat
    /\ MaxClock \in Nat /\ MaxRequests \in Nat /\ MaxFaults \in Nat

Stores == {"redis"} \cup Processes

VARIABLES
    store,     \* store[s]: the entries of the sorted set, or of a list
    usesRedis, \* usesRedis[p]: the ping of p's start succeeded
    inFlight,  \* requests between their time stamp and their answer
    touched,   \* when the last pipeline ran (EXPIRE)
    clock, nFaults,
    made,      \* history: every request
    allowed    \* history: allowed[s]: entries of the requests s let through

vars == <<store, usesRedis, inFlight, touched, clock, nFaults, made, allowed>>

Request == [process : Processes, at : Nat, id : Nat]
Entry == [at : Nat, id : Nat]

\* A member of the sorted set is the stamp: requests with one stamp are one
\* entry.  A list has an entry per request.
EntryIn(s, r) == [at |-> r.at, id |-> IF s = "redis" THEN 0 ELSE r.id]

Recent_All(entries, now) == entries
Recent(entries, now) == {e \in entries : e.at > now - Window}

\* What is left of the window, and this request, refused or not.
Recorded(s, r) == Recent(store[s], r.at) \cup {EntryIn(s, r)}

Within_OneMore(entries) == Cardinality(entries) <= Limit + 1
Within(entries) == Cardinality(entries) <= Limit

-----------------------------------------------------------------------------
Arrive(p) ==
    /\ Cardinality(made) < MaxRequests
    /\ LET r == [process |-> p, at |-> clock, id |-> Cardinality(made) + 1] IN
         /\ inFlight' = inFlight \cup {r}
         /\ made' = made \cup {r}
    /\ UNCHANGED <<store, usesRedis, touched, clock, nFaults, allowed>>

\* s decides about r, which is answered.
Decide(s, r) ==
    /\ allowed' = IF Within(Recorded(s, r))
                  THEN [allowed EXCEPT ![s] = @ \cup {EntryIn(s, r)}]
                  ELSE allowed
    /\ inFlight' = inFlight \ {r}

\* ZREMRANGEBYSCORE, ZADD, ZCARD, EXPIRE.
CheckRedis(r) ==
    /\ usesRedis[r.process]
    /\ Decide("redis", r)
    /\ store' = [store EXCEPT !["redis"] = Recorded("redis", r)]
    /\ touched' = clock
    /\ UNCHANGED <<usesRedis, clock, nFaults, made>>

\* No Redis since the start of the process.
CheckLocal(r) ==
    /\ ~usesRedis[r.process]
    /\ Decide(r.process, r)
    /\ store' = [store EXCEPT ![r.process] = Recorded(r.process, r)]
    /\ UNCHANGED <<usesRedis, touched, clock, nFaults, made>>

\* The pipeline raises, before or after it ran: the list decides.
FallBack(r) ==
    /\ usesRedis[r.process]
    /\ nFaults < MaxFaults
    /\ nFaults' = nFaults + 1
    /\ Decide(r.process, r)
    /\ \/ /\ store' = [store EXCEPT ![r.process] = Recorded(r.process, r)]
          /\ UNCHANGED touched
       \/ /\ store' = [store EXCEPT ![r.process] = Recorded(r.process, r),
                                    !["redis"] = Recorded("redis", r)]
          /\ touched' = clock
    /\ UNCHANGED <<usesRedis, clock, made>>

\* Redis drops a key that nobody touched for two windows.
Expire ==
    /\ store["redis"] # {}
    /\ clock >= touched + 2 * Window
    /\ store' = [store EXCEPT !["redis"] = {}]
    /\ UNCHANGED <<usesRedis, inFlight, touched, clock, nFaults, made, allowed>>

\* A new process has an empty list; the requests of the old one get no answer.
\* `allowed` speaks of the list's lifetime.
Restart(p) ==
    /\ nFaults < MaxFaults
    /\ nFaults' = nFaults + 1
    /\ \E up \in BOOLEAN : usesRedis' = [usesRedis EXCEPT ![p] = up]
    /\ store' = [store EXCEPT ![p] = {}]
    /\ allowed' = [allowed EXCEPT ![p] = {}]
    /\ inFlight' = {r \in inFlight : r.process # p}
    /\ UNCHANGED <<touched, clock, made>>

\* Nobody waits for Redis longer than MaxDelay, and nobody waits for the list.
Tick ==
    /\ clock < MaxClock
    /\ \A r \in inFlight : usesRedis[r.process] /\ clock < r.at + MaxDelay
    /\ clock' = clock + 1
    /\ UNCHANGED <<store, usesRedis, inFlight, touched, nFaults, made, allowed>>

Init ==
    /\ store = [s \in Stores |-> {}]
    /\ usesRedis \in [Processes -> BOOLEAN]
    /\ inFlight = {}
    /\ touched = 0
    /\ clock = 0
    /\ nFaults = 0
    /\ made = {}
    /\ allowed = [s \in Stores |-> {}]

Next ==
    \/ \E p \in Processes : Arrive(p) \/ Restart(p)
    \/ \E r \in inFlight : CheckRedis(r) \/ CheckLocal(r) \/ FallBack(r)
    \/ Expire
    \/ Tick

Spec == Init /\ [][Next]_vars

-----------------------------------------------------------------------------
(* Properties *)

\* Each store lets at most Limit stamps of any Window through, less the time a
\* request may wait for Redis: one that was stamped before others and runs
\* after them finds older entries removed already.  Neither an expired key nor
\* a lost reply lets more through.
AllowedPerWindow ==
    \A s \in Stores, t \in 0 .. clock :
        Cardinality({e \in allowed[s] : t - (Window - MaxDelay) < e.at
                                        /\ e.at <= t}) <= Limit

\* The client's requests since the window of r began.
Rivals(r) == {q \in made : q.at > r.at - Window}

\* Whichever store decides, only a client that made more than Limit requests
\* since the window of this one began (refused ones count) is refused: one
\* that waits for a window is served.
RefusedOnlyIfBusy ==
    \A r \in inFlight : \A s \in {"redis", r.process} :
        ~Within(Recorded(s, r)) => Cardinality(Rivals(r)) > Limit
=============================================================================
