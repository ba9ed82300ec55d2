--------------------------- MODULE CircuitBreaker ---------------------------
(***************************************************************************)
(* The two circuit breakers: AsyncCircuitBreaker of the api-gateway        *)
(* (proxy.py), one instance per upstream service, and _AsyncCircuitBreaker *)
(* of the expense-service (utils/auth_client.py), in front of its user     *)
(* lookups at the auth-service, which get_users_batch sends concurrently.  *)
(* They differ in what a success looks at; `service` says whose this is.   *)
(* `call` runs atomically up to the await of the upstream request and      *)
(* again from its outcome to the end; other calls run in between.          *)
(*                                                                         *)
(* Two numbers are kept only as far as the code can tell them apart: the   *)
(* failure counter, compared with fail_max, stops at FailMax; the time     *)
(* since _opened_at, compared with reset_timeout, stops at ResetTimeout.   *)
(***************************************************************************)
EXTENDS Integers

CONSTANTS
    Calls,         \* concurrent requests to the upstream
    FailMax,       \* fail_max
    ResetTimeout   \* reset_timeout, in ticks

ASSUME BreakerAssumption ==
    /\ FailMax \in Nat \ {0}
    /\ ResetTimeout \in Nat \ {0}

VARIABLES
    service,       \* the service whose breaker this is: never changes
    state,         \* _state
    failCounter,   \* _fail_counter
    sinceOpened,   \* monotonic() - _opened_at
    call,          \* call[c]: the state call c found at entry, or "none"
    streak         \* history: failures since the last success, up to FailMax

vars == <<service, state, failCounter, sinceOpened, call, streak>>

Services == {"api-gateway", "expense-service"}
States == {"closed", "open", "half-open"}

Elapsed_Never == FALSE
Elapsed == sinceOpened >= ResetTimeout

\* current_state: reading the property moves an expired open breaker on.
Current == IF state = "open" /\ Elapsed THEN "half-open" ELSE state

Init ==
    /\ service \in Services
    /\ state = "closed"
    /\ failCounter = 0
    /\ sinceOpened = 0
    /\ call = [c \in Calls |-> "none"]
    /\ streak = 0

Refused_Never(found) == FALSE
Refused(found) == found = "open"

\* A call that finds the breaker open is answered 503 and changes nothing.
Admit(c) ==
    /\ call[c] = "none"
    /\ ~Refused(Current)
    /\ state' = Current
    /\ call' = [call EXCEPT ![c] = Current]
    /\ UNCHANGED <<service, failCounter, sinceOpened, streak>>

Finish(c) ==
    /\ call[c] # "none"
    /\ call' = [call EXCEPT ![c] = "none"]

Close_KeepsCounter == state' = "closed" /\ UNCHANGED failCounter
Close == state' = "closed" /\ failCounter' = 0

\* The gateway compares the state captured before the await,
Probe_AnyCall(c) == TRUE
Probe(c) == call[c] = "half-open"

\* the expense-service the state of the breaker after it.
Recovering_Always == TRUE
Recovering == state = "half-open"

Closes(c) == IF service = "api-gateway" THEN Probe(c) ELSE Recovering

Succeed(c) ==
    /\ Finish(c)
    /\ IF Closes(c) THEN Close ELSE UNCHANGED <<state, failCounter>>
    /\ streak' = 0
    /\ UNCHANGED <<service, sinceOpened>>

OneMore(count) == IF count < FailMax THEN count + 1 ELSE FailMax

\* ConnectError or TimeoutException, whatever state the breaker is in by now.
Fail(c) ==
    /\ Finish(c)
    /\ failCounter' = OneMore(failCounter)
    /\ streak' = OneMore(streak)
    /\ IF OneMore(failCounter) >= FailMax
       THEN state' = "open" /\ sinceOpened' = 0
       ELSE UNCHANGED <<state, sinceOpened>>
    /\ UNCHANGED service

\* Any other error of the client, or the request is cancelled: not counted.
OtherError(c) ==
    /\ Finish(c)
    /\ UNCHANGED <<service, state, failCounter, sinceOpened, streak>>

\* The gateway's GET /health/breakers reads current_state too.
Health ==
    /\ service = "api-gateway"
    /\ state' = Current
    /\ UNCHANGED <<service, failCounter, sinceOpened, call, streak>>

Tick ==
    /\ sinceOpened < ResetTimeout
    /\ sinceOpened' = sinceOpened + 1
    /\ UNCHANGED <<service, state, failCounter, call, streak>>

Next ==
    \/ \E c \in Calls : Admit(c) \/ Succeed(c) \/ Fail(c) \/ OtherError(c)
    \/ Health
    \/ Tick

\* Time passes, clients keep calling, and httpx ends every call (timeout=30 in
\* the gateway, 5 for the lookups).
Fairness ==
    /\ WF_vars(Tick)
    /\ \A c \in Calls :
         /\ WF_vars(Admit(c))
         /\ WF_vars(Succeed(c) \/ Fail(c) \/ OtherError(c))

Spec == Init /\ [][Next]_vars /\ Fairness

-----------------------------------------------------------------------------
(* Properties *)

\* Everything is in range; a call in flight did not find the breaker open.
TypeOK ==
    /\ service \in Services
    /\ state \in States
    /\ failCounter \in 0 .. FailMax
    /\ sinceOpened \in 0 .. ResetTimeout
    /\ call \in [Calls -> {"none", "closed", "half-open"}]
    /\ streak \in 0 .. FailMax

\* Either breaker is closed exactly while it has counted fewer than fail_max
\* failures since it last recovered, however late the outcomes arrive.  So a
\* probe that fails reopens it at once, and a recovered breaker takes fail_max
\* new failures to open - which need not be consecutive: a success of a closed
\* breaker resets nothing ("keep counter on CLOSED"; OpensOnStreak).
ClosedIffBelowLimit == (state = "closed") <=> (failCounter < FailMax)

\* Only the success of a call that was admitted as a probe closes the gateway's
\* breaker: a call sent before the outage cannot, however late it succeeds.
ClosesOnlyOnProbe ==
    [][service = "api-gateway" /\ state # "closed" /\ state' = "closed"
         => \E c \in Calls : call[c] = "half-open" /\ call'[c] = "none"]_vars

\* REPORT.md: an open breaker turns half-open after the timeout, and no other
\* transition leaves open.  So it is in the expense-service; the success of a
\* late probe may close the gateway's breaker earlier.
OpenLastsItsTimeout ==
    [][service = "expense-service" /\ state = "open" /\ state' # "open"
         => sinceOpened = ResetTimeout]_vars

\* An upstream that stops failing is used again: neither breaker can stay open
\* or half-open for ever, whatever calls were in flight during the outage.
Failing == \E c \in Calls : Fail(c) \/ OtherError(c)
Recovers == (<>[][~Failing]_vars) => <>[](state = "closed")

\* "open after 3 consecutive connection failures" (proxy.py:108): the gateway's
\* breaker does not open on failures with a success between them.
OpensOnStreak ==
    [][service = "api-gateway" /\ state = "closed" /\ state' = "open"
         => streak' = FailMax]_vars
=============================================================================
