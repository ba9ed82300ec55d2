------------------------ MODULE CircuitBreakerProofs ------------------------
(* What holds of both circuit breakers for every fail_max, reset_timeout and *)
(* number of concurrent calls.                                               *)
EXTENDS CircuitBreaker, TLAPS

\* The two invariants need each other: the counter decides the state only as
\* long as it stays within its range.
Inv == TypeOK /\ ClosedIffBelowLimit

\* A fresh breaker is closed and has counted nothing.
LEMMA InitInv == Init => Inv
  BY BreakerAssumption DEF Init, Inv, TypeOK, ClosedIffBelowLimit, States

\* Admission only turns an open breaker whose timeout has elapsed into a probing one.
LEMMA AdmitInv ==
  ASSUME Inv, NEW c \in Calls, Admit(c)
  PROVE  Inv'
  BY BreakerAssumption
  DEF Inv, TypeOK, ClosedIffBelowLimit, States, Admit, Current, Refused, Elapsed

\* A success that closes the breaker resets the counter with it, whichever
\* service's breaker it is.
LEMMA SucceedInv ==
  ASSUME Inv, NEW c \in Calls, Succeed(c)
  PROVE  Inv'
<1>1. Close \/ UNCHANGED <<state, failCounter>>
  BY DEF Succeed
<1>2. streak' \in 0 .. FailMax
  BY BreakerAssumption DEF Succeed
<1> QED
  BY <1>1, <1>2, BreakerAssumption
  DEF Inv, TypeOK, ClosedIffBelowLimit, States, Succeed, Finish, Close

\* A failure opens the breaker when the counter reaches the limit; in any
\* other state than closed the counter is at the limit already.
LEMMA FailInv ==
  ASSUME Inv, NEW c \in Calls, Fail(c)
  PROVE  Inv'
  BY BreakerAssumption
  DEF Inv, TypeOK, ClosedIffBelowLimit, States, Fail, Finish, OneMore

\* An error that is not a connection failure is not recorded.
LEMMA OtherErrorInv ==
  ASSUME Inv, NEW c \in Calls, OtherError(c)
  PROVE  Inv'
  BY DEF Inv, TypeOK, ClosedIffBelowLimit, OtherError, Finish

\* Reading the state for /health/breakers may start the probing phase.
LEMMA HealthInv ==
  ASSUME Inv, Health
  PROVE  Inv'
  BY DEF Inv, TypeOK, ClosedIffBelowLimit, States, Health, Current

\* Time alone changes no state of the breaker.
LEMMA TickInv ==
  ASSUME Inv, Tick
  PROVE  Inv'
  BY BreakerAssumption DEF Inv, TypeOK, ClosedIffBelowLimit, Tick

\* The invariant survives every step.
LEMMA NextInv == Inv /\ [Next]_vars => Inv'
<1> SUFFICES ASSUME Inv, [Next]_vars PROVE Inv'
  OBVIOUS
<1>1. CASE UNCHANGED vars
  BY <1>1 DEF vars, Inv, TypeOK, ClosedIffBelowLimit
<1>2. ASSUME NEW c \in Calls, Admit(c) PROVE Inv'
  BY <1>2, AdmitInv
<1>3. ASSUME NEW c \in Calls, Succeed(c) PROVE Inv'
  BY <1>3, SucceedInv
<1>4. ASSUME NEW c \in Calls, Fail(c) PROVE Inv'
  BY <1>4, FailInv
<1>5. ASSUME NEW c \in Calls, OtherError(c) PROVE Inv'
  BY <1>5, OtherErrorInv
<1>6. CASE Health
  BY <1>6, HealthInv
<1>7. CASE Tick
  BY <1>7, TickInv
<1> QED
  BY <1>1, <1>2, <1>3, <1>4, <1>5, <1>6, <1>7 DEF Next

\* Type correctness of both breakers.
THEOREM BreakerTypeCorrect == Spec => []TypeOK
<1>1. Inv => TypeOK
  BY DEF Inv
<1> QED
  BY InitInv, NextInv, <1>1, PTL DEF Spec

\* Either breaker is closed exactly while fewer than fail_max failures have been
\* counted since it last recovered, whatever the order of outcomes, although
\* the two look at different states when a call succeeds.
THEOREM BreakerClosedIffBelowLimit == Spec => []ClosedIffBelowLimit
<1>1. Inv => ClosedIffBelowLimit
  BY DEF Inv
<1> QED
  BY InitInv, NextInv, <1>1, PTL DEF Spec

\* Only the success of a call admitted as a probe closes the gateway's breaker.
THEOREM GatewayClosesOnlyOnProbe == Spec => ClosesOnlyOnProbe
<1> DEFINE Probed == service = "api-gateway" /\ state # "closed" /\ state' = "closed"
                       => \E c \in Calls : call[c] = "half-open" /\ call'[c] = "none"
<1>1. Inv /\ [Next]_vars => [Probed]_vars
  <2> SUFFICES ASSUME Inv, Next, service = "api-gateway",
                      state # "closed", state' = "closed"
               PROVE  \E c \in Calls : call[c] = "half-open" /\ call'[c] = "none"
    BY DEF vars
  <2>1. ASSUME NEW c \in Calls, Succeed(c)
        PROVE  call[c] = "half-open" /\ call'[c] = "none"
    BY <2>1 DEF Inv, TypeOK, Succeed, Finish, Closes, Probe, Close
  <2>2. \A c \in Calls : ~Admit(c) /\ ~Fail(c) /\ ~OtherError(c)
    BY DEF Admit, Current, Fail, OtherError
  <2>3. ~Health /\ ~Tick
    BY DEF Health, Current, Tick
  <2> QED
    BY <2>1, <2>2, <2>3 DEF Next
<1> QED
  BY InitInv, NextInv, <1>1, PTL DEF Spec, ClosesOnlyOnProbe

\* A lookup that succeeds cannot close the expense-service's breaker within its
\* timeout: an open breaker is left through the elapsed timeout only.
THEOREM ClientOpenLastsItsTimeout == Spec => OpenLastsItsTimeout
<1> DEFINE Waited == service = "expense-service" /\ state = "open" /\ state' # "open"
                       => sinceOpened = ResetTimeout
<1>1. Inv /\ [Next]_vars => [Waited]_vars
  <2> SUFFICES ASSUME Inv, Next, service = "expense-service",
                      state = "open", state' # "open"
               PROVE  sinceOpened = ResetTimeout
    BY DEF vars
  <2>1. ASSUME NEW c \in Calls, Admit(c) PROVE sinceOpened = ResetTimeout
    BY <2>1, BreakerAssumption DEF Inv, TypeOK, Admit, Current, Elapsed
  <2>2. \A c \in Calls : ~Succeed(c) /\ ~Fail(c) /\ ~OtherError(c)
    BY DEF Succeed, Closes, Recovering, Fail, OtherError
  <2>3. ~Tick /\ ~Health
    BY DEF Tick, Health
  <2> QED
    BY <2>1, <2>2, <2>3 DEF Next
<1> QED
  BY InitInv, NextInv, <1>1, PTL DEF Spec, OpenLastsItsTimeout
=============================================================================
