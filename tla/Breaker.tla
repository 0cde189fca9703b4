------------------------------- MODULE Breaker -------------------------------
(***************************************************************************)
(* The data of one internal/resilience CircuitBreaker and what its three   *)
(* critical sections do to it.  Time is relative: openLeft is the time     *)
(* left until openUntil, 0 when openUntil is past or the zero time.        *)
(***************************************************************************)
EXTENDS Naturals

CONSTANTS Threshold,    \* failureThreshold
          ResetTimeout, \* resetTimeout, in ticks
          FailureCap    \* bound of the model: the failure count saturates here

ASSUME ThresholdAssumption == Threshold \in Nat \ {0}
ASSUME ResetAssumption == ResetTimeout \in Nat \ {0}
\* The code compares the count with the threshold only.
ASSUME CapAssumption == FailureCap \in Nat /\ FailureCap >= Threshold

BreakerType == [failures : 0 .. FailureCap, openLeft : 0 .. ResetTimeout]

NewCircuitBreaker == [failures |-> 0, openLeft |-> 0]

IsOpen(b) == b.openLeft > 0

OnSuccess == [failures |-> 0, openLeft |-> 0]

\* Mutant of OnFailure: the threshold is compared with = instead of >=.
OnFailure_ExactThreshold(b) ==
    LET n == IF b.failures < FailureCap THEN b.failures + 1 ELSE FailureCap
    IN  [failures |-> n,
         openLeft |-> IF n = Threshold THEN ResetTimeout ELSE b.openLeft]

OnFailure(b) ==
    LET n == IF b.failures < FailureCap THEN b.failures + 1 ELSE FailureCap
    IN  [failures |-> n,
         openLeft |-> IF n >= Threshold THEN ResetTimeout ELSE b.openLeft]

Elapse(b) == [b EXCEPT !.openLeft = IF @ > 0 THEN @ - 1 ELSE 0]
=============================================================================
