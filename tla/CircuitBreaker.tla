--------------------------- MODULE CircuitBreaker ---------------------------
(***************************************************************************)
(* internal/resilience/circuit.go as cmd/api/main.go uses it: request      *)
(* handlers run Execute(Retry(ctx, Attempts, BaseDelay, call)) against one *)
(* breaker.  The breaker's mutex is released while the call runs, so calls *)
(* admitted by a closed breaker settle after other calls have opened it.   *)
(***************************************************************************)
EXTENDS Breaker

CONSTANTS Caller,    \* request handlers
          Attempts,  \* tries of one Retry
          BaseDelay  \* first pause between tries, in ticks

ASSUME RetryAssumption == Attempts \in Nat \ {0} /\ BaseDelay \in Nat

VARIABLES breaker,
          up,        \* whether the downstream service answers
          pc,        \* pc[c]: where c is in Execute and Retry
          tries,     \* tries[c]: failed tries of the current Retry
          timer,     \* timer[c]: time left of the pause between two tries
          cancelled, \* cancelled[c]: the request context of c is done
          result,    \* result[c]: what fn() returned, then what Execute returned
          overtaken  \* overtaken[c]: the breaker tripped while the call of c ran

vars == <<breaker, up, pc, tries, timer, cancelled, result, overtaken>>

PC == {"idle", "try", "call", "pause", "settle"}

Pause(n) == BaseDelay * 2 ^ n

\* A power of two is a number, which the provers are not told otherwise.
ASSUME PauseAssumption == \A n \in 0 .. Attempts - 1 : Pause(n) \in Nat

TypeOK ==
    /\ breaker \in BreakerType
    /\ up \in BOOLEAN
    /\ pc \in [Caller -> PC]
    /\ tries \in [Caller -> 0 .. Attempts]
    /\ timer \in [Caller -> Nat]
    /\ cancelled \in [Caller -> BOOLEAN]
    /\ result \in [Caller -> {"none", "ok", "error", "open"}]
    /\ overtaken \in [Caller -> BOOLEAN]

Init ==
    /\ breaker = NewCircuitBreaker
    /\ up \in BOOLEAN
    /\ pc = [c \in Caller |-> "idle"]
    /\ tries = [c \in Caller |-> 0]
    /\ timer = [c \in Caller |-> 0]
    /\ cancelled = [c \in Caller |-> FALSE]
    /\ result = [c \in Caller |-> "none"]
    /\ overtaken = [c \in Caller |-> FALSE]

\* Execute, first critical section: ErrCircuitOpen.
Reject(c) ==
    /\ pc[c] = "idle"
    /\ IsOpen(breaker)
    /\ result' = [result EXCEPT ![c] = "open"]
    /\ UNCHANGED <<breaker, up, pc, tries, timer, cancelled, overtaken>>

\* Mutant of Admit: openUntil is not compared with the clock.
Admit_Always(c) ==
    /\ pc[c] = "idle"
    /\ pc' = [pc EXCEPT ![c] = "try"]
    /\ tries' = [tries EXCEPT ![c] = 0]
    /\ cancelled' = [cancelled EXCEPT ![c] = FALSE]
    /\ result' = [result EXCEPT ![c] = "none"]
    /\ overtaken' = [overtaken EXCEPT ![c] = FALSE]
    /\ UNCHANGED <<breaker, up, timer>>

\* Execute, first critical section: the call goes on to Retry, with a new
\* request and its context.
Admit(c) ==
    /\ pc[c] = "idle"
    /\ ~IsOpen(breaker)
    /\ pc' = [pc EXCEPT ![c] = "try"]
    /\ tries' = [tries EXCEPT ![c] = 0]
    /\ cancelled' = [cancelled EXCEPT ![c] = FALSE]
    /\ result' = [result EXCEPT ![c] = "none"]
    /\ overtaken' = [overtaken EXCEPT ![c] = FALSE]
    /\ UNCHANGED <<breaker, up, timer>>

FnReturns(c, r) ==
    /\ result' = [result EXCEPT ![c] = r]
    /\ pc' = [pc EXCEPT ![c] = "settle"]

\* Retry, head of the loop.
Try(c) ==
    /\ pc[c] = "try"
    /\ \/ cancelled[c] /\ FnReturns(c, "error")
       \/ ~cancelled[c] /\ pc' = [pc EXCEPT ![c] = "call"] /\ UNCHANGED result
    /\ UNCHANGED <<breaker, up, tries, timer, cancelled, overtaken>>

CallSucceeds(c) ==
    /\ pc[c] = "call"
    /\ up
    /\ FnReturns(c, "ok")
    /\ UNCHANGED <<breaker, up, tries, timer, cancelled, overtaken>>

\* A failed call, of a service that is down or of a request that is gone: the
\* last try returns its error, the others start the pause.
CallFails(c) ==
    /\ pc[c] = "call"
    /\ ~up \/ cancelled[c]
    /\ tries' = [tries EXCEPT ![c] = @ + 1]
    /\ \/ /\ tries[c] + 1 = Attempts
          /\ FnReturns(c, "error")
          /\ UNCHANGED timer
       \/ /\ tries[c] + 1 < Attempts
          /\ timer' = [timer EXCEPT ![c] = Pause(tries[c])]
          /\ pc' = [pc EXCEPT ![c] = "pause"]
          /\ UNCHANGED result
    /\ UNCHANGED <<breaker, up, cancelled, overtaken>>

\* Retry's select: the timer or the context, either one when both are ready.
PauseEnds(c) ==
    /\ pc[c] = "pause"
    /\ \/ timer[c] = 0 /\ pc' = [pc EXCEPT ![c] = "try"] /\ UNCHANGED <<result, timer>>
       \/ cancelled[c] /\ FnReturns(c, "error") /\ timer' = [timer EXCEPT ![c] = 0]
    /\ UNCHANGED <<breaker, up, tries, cancelled, overtaken>>

\* Mutant of Settle: a success resets the count but leaves openUntil.
Settle_KeepsOpenUntil(c) ==
    /\ pc[c] = "settle"
    /\ breaker' = IF result[c] = "ok" THEN [breaker EXCEPT !.failures = 0]
                                      ELSE OnFailure(breaker)
    /\ pc' = [pc EXCEPT ![c] = "idle"]
    /\ overtaken' = [d \in Caller |->
                        overtaken[d] \/ (IsOpen(breaker') /\ pc[d] # "idle")]
    /\ UNCHANGED <<up, tries, timer, cancelled, result>>

\* Mutant of Settle: a success resets openUntil but leaves the count.
Settle_KeepsFailures(c) ==
    /\ pc[c] = "settle"
    /\ breaker' = IF result[c] = "ok" THEN [breaker EXCEPT !.openLeft = 0]
                                      ELSE OnFailure(breaker)
    /\ pc' = [pc EXCEPT ![c] = "idle"]
    /\ overtaken' = [d \in Caller |->
                        overtaken[d] \/ (IsOpen(breaker') /\ pc[d] # "idle")]
    /\ UNCHANGED <<up, tries, timer, cancelled, result>>

\* Mutant of Settle: the error of a cancelled request counts as no error.
Settle_IgnoresCancelled(c) ==
    /\ pc[c] = "settle"
    /\ breaker' = IF result[c] = "ok" \/ cancelled[c] THEN OnSuccess
                                                     ELSE OnFailure(breaker)
    /\ pc' = [pc EXCEPT ![c] = "idle"]
    /\ overtaken' = [d \in Caller |->
                        overtaken[d] \/ (IsOpen(breaker') /\ pc[d] # "idle")]
    /\ UNCHANGED <<up, tries, timer, cancelled, result>>

\* Execute, second critical section.
Settle(c) ==
    /\ pc[c] = "settle"
    /\ breaker' = IF result[c] = "ok" THEN OnSuccess ELSE OnFailure(breaker)
    /\ pc' = [pc EXCEPT ![c] = "idle"]
    /\ overtaken' = [d \in Caller |->
                        overtaken[d] \/ (IsOpen(breaker') /\ pc[d] # "idle")]
    /\ UNCHANGED <<up, tries, timer, cancelled, result>>

\* The client disconnects.
Cancel(c) ==
    /\ pc[c] # "idle" /\ ~cancelled[c]
    /\ cancelled' = [cancelled EXCEPT ![c] = TRUE]
    /\ UNCHANGED <<breaker, up, pc, tries, timer, result, overtaken>>

Outage == up' = ~up /\ UNCHANGED <<breaker, pc, tries, timer, cancelled, result, overtaken>>

Tick ==
    /\ breaker' = Elapse(breaker)
    /\ timer' = [c \in Caller |-> IF timer[c] > 0 THEN timer[c] - 1 ELSE 0]
    /\ UNCHANGED <<up, pc, tries, cancelled, result, overtaken>>

Progress(c) ==
    Admit(c) \/ Try(c) \/ CallSucceeds(c) \/ CallFails(c) \/ PauseEnds(c) \/ Settle(c)

Next ==
    \/ \E c \in Caller : Progress(c) \/ Reject(c) \/ Cancel(c)
    \/ Outage
    \/ Tick

Spec == Init /\ [][Next]_vars

\* Handlers run, calls return (gRPC answers or refuses), time passes, and
\* clients keep sending requests.
FairSpec == Spec /\ WF_vars(Tick) /\ \A c \in Caller : WF_vars(Progress(c))
-----------------------------------------------------------------------------
\* An open breaker has seen at least Threshold failed calls in a row: whatever
\* the order in which concurrent calls settle, a success never leaves it open
\* and fewer failures never open it.
OpenNeedsThreshold == IsOpen(breaker) => breaker.failures >= Threshold

\* Failing fast: while the breaker is open the only calls that can reach the
\* service are those it admitted before it tripped.
OnlyOvertakenCallsRunWhileOpen ==
    IsOpen(breaker) => \A c \in Caller : pc[c] # "idle" => overtaken[c]

\* Once tripped, and until a call succeeds, each failing call opens the breaker
\* again for the whole timeout: the calls let through after the timeout do not
\* need Threshold failures.
TrippedReopensAtOnce ==
    [][\A c \in Caller :
          pc[c] = "settle" /\ pc'[c] = "idle"
              /\ result[c] = "error" /\ breaker.failures >= Threshold
          => breaker'.openLeft = ResetTimeout]_vars

\* The timeout is cut short by nothing but the success of a call that was
\* already running when the breaker tripped.
EarlyCloseIsALateSuccess ==
    [][breaker.openLeft > 1 /\ ~IsOpen(breaker')
       => \E c \in Caller : pc[c] = "settle" /\ result[c] = "ok" /\ overtaken[c]]_vars

\* When the service is up for good and clients stay connected, the breaker
\* closes for good.
ServiceUp == up /\ \A c \in Caller : ~cancelled[c]
ClosesAfterRecovery == <>[]ServiceUp => <>[](breaker = NewCircuitBreaker)
=============================================================================
