--------------------------- MODULE CircuitBreaker ---------------------------
(* src/src/core/circuit_breaker.py.  One breaker is shared by the threads of *)
(* a process and holds no lock.  is_open and record_failure are one step, but *)
(* record_success is two: what fails between its writes loses its time.      *)
EXTENDS Naturals

CONSTANT FailureThreshold

ASSUME BreakerAssumption == FailureThreshold \in Nat \ {0}

\* The failure count is capped at FailureThreshold: above it nothing looks at it.
\* `stamp` is _last_failure_time: None, or less or more than recovery_timeout_s ago.
VARIABLE breaker

FreshBreaker == [state |-> "closed", count |-> 0, stamp |-> "none"]

Passing == breaker.state # "open"

\* The time is compared only when there is one.
ProbeDue == breaker.state = "open" /\ breaker.stamp = "old"

\* Mistake: an open breaker stays open.
NeverProbes == UNCHANGED breaker

IsOpen == breaker' = IF ProbeDue THEN [breaker EXCEPT !.state = "half_open"] ELSE breaker

Trip(b) ==
    CASE b.state = "closed" /\ b.count >= FailureThreshold -> [b EXCEPT !.state = "open"]
      [] b.state = "half_open" -> [b EXCEPT !.state = "open", !.count = 1]
      [] OTHER -> b

\* `_failure_count += 1` is a read and a write: one of two at a time may be lost.
CountFailure ==
    \E lost \in BOOLEAN :
        breaker' = Trip([breaker EXCEPT
            !.count = IF lost \/ @ = FailureThreshold THEN @ ELSE @ + 1, !.stamp = "recent"])

\* record_success: the state first, the count and the time after it.
CloseHalfOpen == breaker' = [breaker EXCEPT !.state = "closed"]
ForgetFailures == breaker' = [breaker EXCEPT !.count = 0, !.stamp = "none"]

RecoveryTimeoutElapses ==
    /\ breaker.stamp = "recent"
    /\ breaker' = [breaker EXCEPT !.stamp = "old"]
=============================================================================
