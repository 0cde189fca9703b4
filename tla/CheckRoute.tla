------------------------------ MODULE CheckRoute ------------------------------
(***************************************************************************)
(* POST /v1/servers/:id/check of cmd/api/main.go with the monitoring       *)
(* service behind it.  A request runs Execute(Retry(Check)) against the    *)
(* monitoring breaker; every try of Retry is a call of its own in the      *)
(* service: it probes the server, inserts a health_checks row and updates  *)
(* the server's status, each of which may fail.  A try that loses its      *)
(* connection, or its client, fails at once; the call it has sent runs on  *)
(* beside the next.                                                        *)
(*                                                                         *)
(* The status of the server is also written by POST and PATCH /v1/servers  *)
(* and by the provider's Sync.  One server, which nothing deletes; the     *)
(* store in front of the table is in ServerStore.                          *)
(***************************************************************************)
EXTENDS Breaker, Sequences, SequencesExt

CONSTANTS Request,  \* requests of the route, each handled once
          Attempts, \* tries of Retry
          Faults,   \* bound of the model: how often a call may fail
          Edits     \* bound of the model: writes of the row by users and by Sync

ASSUME AttemptsAssumption == Attempts \in Nat \ {0} /\ Faults \in Nat /\ Edits \in Nat

VARIABLES breaker,  \* monitoringBreaker
          found,    \* whether the server is in the inventory
          status,   \* its status; a user may set any text, here one of the same three
          past,     \* the statuses it has had, which a cached or a read copy may hold
          claimed,  \* the statuses users have set
          phase,    \* phase[c]: where the call c is in the monitoring service
          up,       \* up[c]: what its probe found
          history,  \* history[c]: the health_checks rows it has inserted, in order
          audit,    \* audit[r]: the audit_events rows of r: success or not
          pc, tries, outcome, answer, \* per request; tries counts the failed ones
          connected, \* connected[r]: the client of r is still there
          faults, edits \* failures and edits so far

vars == <<breaker, found, status, past, claimed, phase, up, history, audit,
          pc, tries, outcome, answer, connected, faults, edits>>

StatusOf(isUp) == IF isUp THEN "up" ELSE "down"

\* The calls of Service.Check, one for each try that has reached the service.
Call == Request \X (1 .. Attempts)
Current(r) == <<r, tries[r] + 1>>

Status == {"unknown", "up", "down"}
PhaseType == {"none", "probe", "record", "update", "ok", "error"}
PcType == {"new", "execute", "try", "wait", "settle", "audit", "respond", "done"}
OutcomeType == {"none", "ok", "error", "open", "missing"}

TypeOK ==
    /\ breaker \in BreakerType
    /\ found \in BOOLEAN
    /\ status \in Status /\ past \subseteq Status /\ claimed \subseteq Status
    /\ phase \in [Call -> PhaseType]
    /\ up \in [Call -> BOOLEAN]
    /\ history \in [Call -> Seq(BOOLEAN)]
    /\ audit \in [Request -> Seq(BOOLEAN)]
    /\ pc \in [Request -> PcType]
    /\ tries \in [Request -> 0 .. Attempts]
    /\ outcome \in [Request -> OutcomeType]
    /\ answer \in [Request -> {0, 200, 404, 502, 503}]
    /\ connected \in [Request -> BOOLEAN]
    /\ faults \in 0 .. Faults /\ edits \in 0 .. Edits

Init ==
    /\ breaker = NewCircuitBreaker
    /\ found \in BOOLEAN
    /\ status = "unknown" /\ past = {"unknown"} /\ claimed = {}
    /\ phase = [c \in Call |-> "none"]
    /\ up = [c \in Call |-> FALSE]
    /\ history = [c \in Call |-> <<>>]
    /\ audit = [r \in Request |-> <<>>]
    /\ pc = [r \in Request |-> "new"]
    /\ tries = [r \in Request |-> 0]
    /\ outcome = [r \in Request |-> "none"]
    /\ answer = [r \in Request |-> 0]
    /\ connected = [r \in Request |-> TRUE]
    /\ faults = 0 /\ edits = 0

Goto(r, step) == pc' = [pc EXCEPT ![r] = step]
Ends(r, o, step) == Goto(r, step) /\ outcome' = [outcome EXCEPT ![r] = o]

row == <<found, status, past, claimed, edits>>
calls == <<phase, up, history>>
request == <<tries, answer, connected>>

\* A call of another process may fail Faults times, or because the request
\* context is done.
MayFail(r) ==
    \/ ~connected[r] /\ UNCHANGED faults
    \/ faults < Faults /\ faults' = faults + 1

Disconnect(r) ==
    /\ pc[r] # "done" /\ connected[r]
    /\ connected' = [connected EXCEPT ![r] = FALSE]
    /\ UNCHANGED <<breaker, row, calls, audit, pc, tries, outcome, answer, faults>>
-----------------------------------------------------------------------------
\* store.Get of the check route; a missing server and a failed call are the same.
Lookup(r) ==
    /\ pc[r] = "new"
    /\ \/ /\ found
          /\ Goto(r, "execute")
          /\ UNCHANGED <<outcome, faults>>
       \/ /\ ~found
          /\ Ends(r, "missing", "audit")
          /\ UNCHANGED faults
       \/ /\ MayFail(r)
          /\ Ends(r, "missing", "audit")
    /\ UNCHANGED <<breaker, row, calls, audit, request>>

Execute(r) ==
    /\ pc[r] = "execute"
    /\ IF IsOpen(breaker)
       THEN Ends(r, "open", "audit")
       ELSE Goto(r, "try") /\ UNCHANGED outcome
    /\ UNCHANGED <<breaker, row, calls, audit, request, faults>>

\* A failed try; the pauses between tries are in CircuitBreaker.
TryFails(r) ==
    /\ tries' = [tries EXCEPT ![r] = @ + 1]
    /\ IF tries[r] + 1 < Attempts /\ connected[r]
       THEN Goto(r, "try") /\ UNCHANGED outcome
       ELSE Ends(r, "error", "settle")

\* monitoringClient.Check sends a call.  Retry looks at the request context before
\* each try.
Try(r) ==
    /\ pc[r] = "try"
    /\ \/ /\ connected[r]
          /\ phase' = [phase EXCEPT ![Current(r)] = "probe"]
          /\ Goto(r, "wait")
          /\ UNCHANGED <<outcome, tries, faults>>
       \/ MayFail(r) /\ TryFails(r) /\ UNCHANGED phase
    /\ UNCHANGED <<breaker, row, up, history, audit, answer, connected>>

\* The reply of the current call; a late reply of an earlier one has no reader.
Answered(r) ==
    /\ pc[r] = "wait"
    /\ \/ /\ phase[Current(r)] = "ok"
          /\ Ends(r, "ok", "settle")
          /\ UNCHANGED tries
       \/ /\ phase[Current(r)] = "error"
          /\ TryFails(r)
    /\ UNCHANGED <<breaker, row, calls, audit, answer, connected, faults>>

\* The connection or the client is lost: the try fails and its call runs on.
Lost(r) ==
    /\ pc[r] = "wait"
    /\ MayFail(r) /\ TryFails(r)
    /\ UNCHANGED <<breaker, row, calls, audit, answer, connected>>
-----------------------------------------------------------------------------
(* Service.Check in the monitoring service, for the call c.                *)

\* The context of a call ends with its connection; before that, a failure counts.
Abandoned(c) == ~connected[c[1]] \/ pc[c[1]] # "wait" \/ c # Current(c[1])

CallFails(c) ==
    /\ phase' = [phase EXCEPT ![c] = "error"]
    /\ \/ Abandoned(c) /\ UNCHANGED faults
       \/ faults < Faults /\ faults' = faults + 1

handler == <<pc, tries, outcome, answer, connected>>

Probe(c) ==
    /\ phase[c] = "probe"
    /\ \E isUp \in BOOLEAN : up' = [up EXCEPT ![c] = isUp]
    /\ phase' = [phase EXCEPT ![c] = "record"]
    /\ UNCHANGED <<breaker, row, history, audit, handler, faults>>

\* Mutant of Record: its error does not end Check.
Record_IgnoresError(c) ==
    /\ phase[c] = "record"
    /\ phase' = [phase EXCEPT ![c] = "update"]
    /\ \/ history' = [history EXCEPT ![c] = Append(@, up[c])] /\ UNCHANGED faults
       \/ MayFail(c[1]) /\ UNCHANGED history
    /\ UNCHANGED <<breaker, row, up, audit, handler>>

\* Mutant of Record: a retry does not insert a second row.
Record_OncePerRequest(c) ==
    /\ phase[c] = "record"
    /\ \/ /\ history' = IF \E n \in 1 .. Attempts : history[<<c[1], n>>] # <<>> THEN history
                        ELSE [history EXCEPT ![c] = Append(@, up[c])]
          /\ phase' = [phase EXCEPT ![c] = "update"] /\ UNCHANGED faults
       \/ CallFails(c) /\ UNCHANGED history
    /\ UNCHANGED <<breaker, row, up, audit, handler>>

\* RecordHealthCheck: the row is inserted, and the reply of the database may be
\* lost all the same.
Record(c) ==
    /\ phase[c] = "record"
    /\ \/ /\ history' = [history EXCEPT ![c] = Append(@, up[c])]
          /\ \/ phase' = [phase EXCEPT ![c] = "update"] /\ UNCHANGED faults
             \/ CallFails(c)
       \/ CallFails(c) /\ UNCHANGED history
    /\ UNCHANGED <<breaker, row, up, audit, handler>>

SetStatus(s) == status' = s /\ past' = past \cup {s}

\* Mutant of UpdateStatus: the service starts over by itself.
UpdateStatus_RetriesInService(c) ==
    /\ phase[c] = "update"
    /\ \/ SetStatus(StatusOf(up[c])) /\ phase' = [phase EXCEPT ![c] = "ok"] /\ UNCHANGED faults
       \/ /\ MayFail(c[1])
          /\ phase' = [phase EXCEPT ![c] = "record"] /\ UNCHANGED <<status, past>>
    /\ UNCHANGED <<breaker, found, claimed, edits, up, history, audit, handler>>

\* store.Update of the status, and the end of Check.
UpdateStatus(c) ==
    /\ phase[c] = "update"
    /\ \/ /\ SetStatus(StatusOf(up[c]))
          /\ \/ phase' = [phase EXCEPT ![c] = "ok"] /\ UNCHANGED faults
             \/ CallFails(c)
       \/ CallFails(c) /\ UNCHANGED <<status, past>>
    /\ UNCHANGED <<breaker, found, claimed, edits, up, history, audit, handler>>
-----------------------------------------------------------------------------
(* The other writers of the row.                                           *)

Edit ==
    /\ edits < Edits /\ edits' = edits + 1
    /\ UNCHANGED <<breaker, calls, audit, handler, faults>>

\* POST /v1/servers with the status of the body, or Sync's Create with "unknown".
Register ==
    /\ Edit /\ ~found /\ found' = TRUE
    /\ \E s \in Status :
          /\ SetStatus(s)
          /\ claimed' = claimed \cup {s}

\* PATCH /v1/servers/:id with a status.
Patch ==
    /\ Edit /\ found
    /\ \E s \in Status :
          /\ SetStatus(s)
          /\ claimed' = claimed \cup {s}
    /\ UNCHANGED found

\* Sync writes the whole record back that it has read before, from the cache or
\* from the table.
SyncUpdate ==
    /\ Edit /\ found
    /\ \E s \in past : SetStatus(s)
    /\ UNCHANGED <<found, claimed>>
-----------------------------------------------------------------------------
Settle(r) ==
    /\ pc[r] = "settle"
    /\ breaker' = IF outcome[r] = "ok" THEN OnSuccess ELSE OnFailure(breaker)
    /\ Goto(r, "audit")
    /\ UNCHANGED <<row, calls, audit, request, outcome, faults>>

\* Mutant of Audit: every request that did not fail is a success, rejected or not.
Audit_RejectedIsSuccess(r) ==
    /\ pc[r] = "audit"
    /\ \/ /\ audit' = [audit EXCEPT ![r] = Append(@, outcome[r] # "error")]
          /\ UNCHANGED faults
       \/ MayFail(r) /\ UNCHANGED audit
    /\ Goto(r, "respond")
    /\ UNCHANGED <<breaker, row, calls, request, outcome>>

\* recordAudit: a failure is only logged.
Audit(r) ==
    /\ pc[r] = "audit"
    /\ \/ /\ audit' = [audit EXCEPT ![r] = Append(@, outcome[r] = "ok")]
          /\ UNCHANGED faults
       \/ MayFail(r) /\ UNCHANGED audit
    /\ Goto(r, "respond")
    /\ UNCHANGED <<breaker, row, calls, request, outcome>>

\* ErrCircuitOpen has an answer of its own.
Respond(r) ==
    /\ pc[r] = "respond"
    /\ Goto(r, "done")
    /\ answer' = [answer EXCEPT ![r] =
          CASE outcome[r] = "ok" -> 200
            [] outcome[r] = "missing" -> 404
            [] outcome[r] = "open" -> 503
            [] OTHER -> 502]
    /\ UNCHANGED <<breaker, row, calls, audit, tries, connected, outcome, faults>>

Tick ==
    /\ IsOpen(breaker)
    /\ breaker' = Elapse(breaker)
    /\ UNCHANGED <<row, calls, audit, handler, faults>>

Step(r) ==
    \/ Lookup(r) \/ Execute(r) \/ Try(r) \/ Answered(r) \/ Lost(r)
    \/ Settle(r) \/ Audit(r) \/ Respond(r)

Check(c) == Probe(c) \/ Record(c) \/ UpdateStatus(c)

Next ==
    \/ Tick \/ Register \/ Patch \/ SyncUpdate
    \/ \E r \in Request : Step(r) \/ Disconnect(r)
    \/ \E c \in Call : Check(c)

Spec == Init /\ [][Next]_vars
-----------------------------------------------------------------------------
\* A check answered with 200 is durable, whatever its earlier tries have left and
\* whatever calls still run: the call that has answered has inserted its own
\* result, once, and the server has had the status it says.
AnsweredCheckIsRecorded ==
    \A r \in Request :
        answer[r] = 200 => /\ history[Current(r)] = <<up[Current(r)]>>
                           /\ StatusOf(up[Current(r)]) \in past

\* A check never makes a status up: one that no user has set is shown, by whatever
\* writer, only when the row of a probe with that result is there.
StatusHasEvidence ==
    status \in {"unknown"} \cup claimed
    \/ \E c \in Call : \E isUp \in ToSet(history[c]) : status = StatusOf(isUp)

\* Retries and late calls multiply rows, but each call leaves at most one, a call
\* that was never sent none, and a request that was rejected none at all: the
\* uptime report counts rows.
RowsPerRequest ==
    \A r \in Request : \A n \in 1 .. Attempts :
        /\ Len(history[<<r, n>>]) <= 1
        /\ n > tries[r] + 1 \/ answer[r] \in {404, 503} => history[<<r, n>>] = <<>>

\* The audit trail does not lie: a request has at most one record, and it says
\* success exactly when the client is told so.
AuditMatchesAnswer ==
    \A r \in Request :
        /\ Len(audit[r]) <= 1
        /\ answer[r] # 0 => \A success \in ToSet(audit[r]) : success <=> answer[r] = 200
=============================================================================
