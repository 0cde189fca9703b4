------------------------------ MODULE WorkerPool ------------------------------
(***************************************************************************)
(* internal/monitoring Checker.CheckAll: a feeder goroutine hands targets  *)
(* to a fixed pool of workers over an unbuffered channel, the workers put  *)
(* their results into a channel that the caller drains, and the feeder     *)
(* closes it when the last worker is done.                                 *)
(*                                                                         *)
(* Targets are the indices of ts.  The result channel is a bag, out[t]     *)
(* results of target t: its order only decides the order of the answer,    *)
(* and with room for len(ts) results a send never blocks.                  *)
(***************************************************************************)
EXTENDS Naturals

CONSTANTS Targets,       \* len(ts)
          Workers,       \* Checker.Workers
          DefaultWorkers \* the pool when Workers is not set

ASSUME TargetsAssumption == Targets \in Nat
ASSUME WorkersAssumption == Workers \in Nat /\ DefaultWorkers \in Nat \ {0}

VARIABLES next,      \* the target the feeder sends next
          feeder,    \* "feed", "wait" (wg.Wait), "done"
          jobsOpen, outOpen,
          worker,    \* worker[w]: "range", "check", "done"
          job,       \* job[w]: the target w has received
          out,       \* out[t]: results of t in the channel
          rs,        \* rs[t]: results of t in the answer
          returned   \* CheckAll has returned

poolVars == <<next, feeder, jobsOpen, outOpen, worker, job, out, rs, returned>>

Target == 1 .. Targets
Worker == 1 .. (IF Workers < 1 THEN DefaultWorkers ELSE Workers)

PoolTypeOK ==
    /\ next \in 1 .. Targets + 1
    /\ feeder \in {"feed", "wait", "done"}
    /\ jobsOpen \in BOOLEAN /\ outOpen \in BOOLEAN /\ returned \in BOOLEAN
    /\ worker \in [Worker -> {"range", "check", "done"}]
    /\ job \in [Worker -> 0 .. Targets]
    /\ out \in [Target -> Nat]
    /\ rs \in [Target -> Nat]

PoolInit ==
    /\ next = 1
    /\ feeder = "feed"
    /\ jobsOpen = TRUE /\ outOpen = TRUE /\ returned = FALSE
    /\ worker = [w \in Worker |-> "range"]
    /\ job = [w \in Worker |-> 0]
    /\ out = [t \in Target |-> 0]
    /\ rs = [t \in Target |-> 0]

\* The rendezvous on jobs between the feeder and a waiting worker.
Feed(w) ==
    /\ feeder = "feed" /\ next <= Targets
    /\ worker[w] = "range"
    /\ worker' = [worker EXCEPT ![w] = "check"]
    /\ job' = [job EXCEPT ![w] = next]
    /\ next' = next + 1
    /\ UNCHANGED <<feeder, jobsOpen, outOpen, out, rs, returned>>

CloseJobs ==
    /\ feeder = "feed" /\ next > Targets
    /\ jobsOpen' = FALSE
    /\ feeder' = "wait"
    /\ UNCHANGED <<next, outOpen, worker, job, out, rs, returned>>

\* Mutant of CloseOut: the results are closed without wg.Wait.
CloseOut_NoWait ==
    /\ feeder = "wait"
    /\ outOpen' = FALSE
    /\ feeder' = "done"
    /\ UNCHANGED <<next, jobsOpen, worker, job, out, rs, returned>>

\* wg.Wait returned; close(out).
CloseOut ==
    /\ feeder = "wait"
    /\ \A w \in Worker : worker[w] = "done"
    /\ outOpen' = FALSE
    /\ feeder' = "done"
    /\ UNCHANGED <<next, jobsOpen, worker, job, out, rs, returned>>

\* A worker finishes a check and sends its result; a send on a closed channel
\* ends the process.
Send(w) ==
    /\ worker[w] = "check"
    /\ outOpen
    /\ out' = [out EXCEPT ![job[w]] = @ + 1]
    /\ worker' = [worker EXCEPT ![w] = "range"]
    /\ job' = [job EXCEPT ![w] = 0]
    /\ UNCHANGED <<next, feeder, jobsOpen, outOpen, rs, returned>>

\* Mutant of Stop: a worker leaves after its first target.
Stop_Early(w) ==
    /\ worker[w] = "range"
    /\ ~jobsOpen \/ next > 1
    /\ worker' = [worker EXCEPT ![w] = "done"]
    /\ UNCHANGED <<next, feeder, jobsOpen, outOpen, job, out, rs, returned>>

\* The range over the closed jobs channel ends; wg.Done.
Stop(w) ==
    /\ worker[w] = "range"
    /\ ~jobsOpen
    /\ worker' = [worker EXCEPT ![w] = "done"]
    /\ UNCHANGED <<next, feeder, jobsOpen, outOpen, job, out, rs, returned>>

Receive(t) ==
    /\ ~returned
    /\ out[t] > 0
    /\ out' = [out EXCEPT ![t] = @ - 1]
    /\ rs' = [rs EXCEPT ![t] = @ + 1]
    /\ UNCHANGED <<next, feeder, jobsOpen, outOpen, worker, job, returned>>

Return ==
    /\ ~returned
    /\ ~outOpen /\ \A t \in Target : out[t] = 0
    /\ returned' = TRUE
    /\ UNCHANGED <<next, feeder, jobsOpen, outOpen, worker, job, out, rs>>

PoolNext ==
    \/ \E w \in Worker : Feed(w) \/ Send(w) \/ Stop(w)
    \/ \E t \in Target : Receive(t)
    \/ CloseJobs \/ CloseOut \/ Return

PoolSpec == PoolInit /\ [][PoolNext]_poolVars

\* Every goroutine runs, and every check ends: DialContext has a timeout.
PoolFairSpec == PoolSpec /\ WF_poolVars(PoolNext)
-----------------------------------------------------------------------------
\* CheckAll answers with exactly one result for every target, whatever the
\* number of workers, more or fewer than the targets.
OneResultEach == returned => \A t \in Target : rs[t] = 1

\* No worker finds the result channel closed while it has a result to send.
NoSendOnClosed == ~outOpen => \A w \in Worker : worker[w] # "check"

\* CheckAll returns, with every goroutine it started gone.
Returns == <>[](returned /\ feeder = "done" /\ \A w \in Worker : worker[w] = "done")
=============================================================================
