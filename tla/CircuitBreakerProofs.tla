------------------------- MODULE CircuitBreakerProofs -------------------------
(* Theorems about CircuitBreaker, for every set of callers and every           *)
(* threshold, timeout, number of tries and pause.                              *)
EXTENDS CircuitBreaker, TLAPS

\* A handler between its calls has no tries left over that could exceed Attempts.
TriesOK == \A c \in Caller : pc[c] \in {"try", "call", "pause"} => tries[c] < Attempts

\* A call that settles has returned ok or an error.
ResultOK == \A c \in Caller : pc[c] = "settle" => result[c] \in {"ok", "error"}

IInv ==
    /\ TypeOK
    /\ TriesOK
    /\ ResultOK
    /\ OpenNeedsThreshold
    /\ OnlyOvertakenCallsRunWhileOpen

(* The three critical sections of Execute keep the breaker well-typed, and     *)
(* none leaves it open with fewer than Threshold failures.                     *)
LEMMA BreakerSteps ==
  ASSUME NEW b \in BreakerType, IsOpen(b) => b.failures >= Threshold
  PROVE  /\ OnSuccess \in BreakerType /\ ~IsOpen(OnSuccess)
         /\ OnFailure(b) \in BreakerType
         /\ IsOpen(OnFailure(b)) => OnFailure(b).failures >= Threshold
         /\ Elapse(b) \in BreakerType
         /\ IsOpen(Elapse(b)) => IsOpen(b) /\ Elapse(b).failures >= Threshold
<1>1. b = [failures |-> b.failures, openLeft |-> b.openLeft]
      /\ b.failures \in 0 .. FailureCap /\ b.openLeft \in 0 .. ResetTimeout
  BY DEF BreakerType
<1>2. Elapse(b) = [failures |-> b.failures,
                   openLeft |-> IF b.openLeft > 0 THEN b.openLeft - 1 ELSE 0]
  BY <1>1 DEF Elapse
<1>3. OnSuccess \in BreakerType /\ ~IsOpen(OnSuccess)
  BY ResetAssumption, CapAssumption DEF OnSuccess, BreakerType, IsOpen
<1>4. /\ Elapse(b) \in BreakerType
      /\ IsOpen(Elapse(b)) => IsOpen(b) /\ Elapse(b).failures >= Threshold
  BY <1>1, <1>2, ResetAssumption DEF BreakerType, IsOpen
<1>5. /\ OnFailure(b) \in BreakerType
      /\ IsOpen(OnFailure(b)) => OnFailure(b).failures >= Threshold
  BY <1>1, ResetAssumption, CapAssumption, ThresholdAssumption
     DEF BreakerType, OnFailure, IsOpen
<1>6. QED
  BY <1>3, <1>4, <1>5

(* Every state satisfies the inductive invariant.                              *)
THEOREM InductiveInvariant == Spec => []IInv
<1>1. Init => IInv
  BY RetryAssumption, ResetAssumption, CapAssumption, ThresholdAssumption
     DEF Init, IInv, TypeOK, TriesOK, ResultOK, OpenNeedsThreshold, PC,
         OnlyOvertakenCallsRunWhileOpen, NewCircuitBreaker, BreakerType, IsOpen
<1>2. IInv /\ [Next]_vars => IInv'
  <2> SUFFICES ASSUME IInv, [Next]_vars PROVE IInv'
    OBVIOUS
  <2> USE RetryAssumption
          DEF IInv, TypeOK, TriesOK, ResultOK, PC, OpenNeedsThreshold,
              OnlyOvertakenCallsRunWhileOpen
  <2>1. ASSUME NEW c \in Caller, Reject(c) PROVE IInv'
    BY <2>1 DEF Reject
  <2>2. ASSUME NEW c \in Caller, Admit(c) PROVE IInv'
    BY <2>2 DEF Admit
  <2>3. ASSUME NEW c \in Caller, Try(c) PROVE IInv'
    BY <2>3 DEF Try, FnReturns
  <2>4. ASSUME NEW c \in Caller, CallSucceeds(c) PROVE IInv'
    BY <2>4 DEF CallSucceeds, FnReturns
  <2>5. ASSUME NEW c \in Caller, CallFails(c) PROVE IInv'
    BY <2>5, PauseAssumption DEF CallFails, FnReturns
  <2>6. ASSUME NEW c \in Caller, PauseEnds(c) PROVE IInv'
    BY <2>6 DEF PauseEnds, FnReturns
  <2>7. ASSUME NEW c \in Caller, Settle(c) PROVE IInv'
    <3>1. breaker' \in BreakerType /\ OpenNeedsThreshold'
      BY <2>7, BreakerSteps DEF Settle
    <3>2. OnlyOvertakenCallsRunWhileOpen'
      BY <2>7 DEF Settle
    <3>3. QED
      BY <2>7, <3>1, <3>2 DEF Settle
  <2>8. ASSUME NEW c \in Caller, Cancel(c) PROVE IInv'
    BY <2>8 DEF Cancel
  <2>9. CASE Outage
    BY <2>9 DEF Outage
  <2>10. CASE Tick
    BY <2>10, BreakerSteps DEF Tick
  <2>11. CASE UNCHANGED vars
    BY <2>11 DEF vars
  <2>12. QED
    BY <2>1, <2>2, <2>3, <2>4, <2>5, <2>6, <2>7, <2>8, <2>9, <2>10, <2>11
       DEF Next, Progress
<1>3. QED
  BY <1>1, <1>2, PTL DEF Spec

(* The circuit is never open with fewer than Threshold failed calls since the  *)
(* last success, in whatever order concurrent calls settle.                    *)
THEOREM OpenNeedsThresholdHolds == Spec => []OpenNeedsThreshold
  BY InductiveInvariant, PTL DEF IInv

(* While the circuit is open, the only calls that run are those admitted       *)
(* before it tripped.                                                          *)
THEOREM FailFast == Spec => []OnlyOvertakenCallsRunWhileOpen
  BY InductiveInvariant, PTL DEF IInv

(* A tripped circuit that let calls through again reopens at their first       *)
(* failure.                                                                    *)
THEOREM TrippedReopens == Spec => TrippedReopensAtOnce
<1>1. IInv /\ [Next]_vars =>
        [\A c \in Caller :
            pc[c] = "settle" /\ pc'[c] = "idle"
                /\ result[c] = "error" /\ breaker.failures >= Threshold
            => breaker'.openLeft = ResetTimeout]_vars
  <2> SUFFICES ASSUME IInv, Next, NEW c \in Caller,
                      pc[c] = "settle", pc'[c] = "idle",
                      result[c] = "error", breaker.failures >= Threshold
               PROVE  breaker'.openLeft = ResetTimeout
    OBVIOUS
  <2>1. Settle(c)
    BY DEF Next, Progress, Reject, Admit, Try, CallSucceeds, CallFails, PauseEnds,
           Settle, Cancel, Outage, Tick, FnReturns, IInv, TypeOK, PC
  <2>2. breaker' = OnFailure(breaker)
    BY <2>1 DEF Settle
  <2>3. QED
    BY <2>2, CapAssumption, ThresholdAssumption
       DEF OnFailure, IInv, TypeOK, BreakerType
<1>2. QED
  BY <1>1, InductiveInvariant, PTL DEF Spec, TrippedReopensAtOnce

(* The timeout of an open circuit ends early only by the success of a call     *)
(* that was running when the circuit tripped.                                  *)
THEOREM EarlyClose == Spec => EarlyCloseIsALateSuccess
<1>1. IInv /\ [Next]_vars =>
        [breaker.openLeft > 1 /\ ~IsOpen(breaker')
         => \E c \in Caller : pc[c] = "settle" /\ result[c] = "ok" /\ overtaken[c]]_vars
  <2> SUFFICES ASSUME IInv, Next, breaker.openLeft > 1, ~IsOpen(breaker')
               PROVE  \E c \in Caller : pc[c] = "settle" /\ result[c] = "ok" /\ overtaken[c]
    OBVIOUS
  <2>1. breaker \in BreakerType /\ IsOpen(breaker)
    BY DEF IInv, TypeOK, BreakerType, IsOpen
  <2>2. IsOpen(OnFailure(breaker)) /\ IsOpen(Elapse(breaker))
    BY <2>1, ResetAssumption DEF OnFailure, Elapse, IsOpen, BreakerType
  <2>3. PICK c \in Caller : Settle(c) /\ result[c] = "ok"
    BY <2>1, <2>2 DEF Next, Progress, Reject, Admit, Try, CallSucceeds, CallFails,
                      PauseEnds, Settle, Cancel, Outage, Tick, FnReturns
  <2>4. QED
    BY <2>1, <2>3 DEF Settle, IInv, OnlyOvertakenCallsRunWhileOpen
<1>2. QED
  BY <1>1, InductiveInvariant, PTL DEF Spec, EarlyCloseIsALateSuccess
=============================================================================
