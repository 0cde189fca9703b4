------------------------------- MODULE Lifecycle -------------------------------
(***************************************************************************)
(* The life of Terraform resources under this provider: the user edits the *)
(* configuration and applies it, Terraform refreshes what is in its state  *)
(* with the Read handlers, plans, and runs Create, Update and Delete       *)
(* handlers concurrently; calls fail, and objects disappear behind         *)
(* Terraform's back.  The handlers are data (HandlerSteps): this module    *)
(* runs them.  What Terraform and its SDK do with the result of a handler  *)
(* is external and modelled from how the provider relies on it.            *)
(*                                                                         *)
(* The object of a resource is Absent, has one of the configurations 1 and *)
(* 2 the user may ask for, or is Mixed, after some of the calls of one     *)
(* handler.  All resources of a scenario share one parent (edge gateway,   *)
(* VDC group, vApp).                                                       *)
(***************************************************************************)
EXTENDS Naturals, Sequences, FiniteSets, HandlerSteps

CONSTANTS Handlers,   \* Handlers[kind][operation]: a sequence of steps
          Scenario    \* who starts with what: records, see Init

Absent == 0
Mixed == 3
Operation == {"create", "read", "update", "delete", "import"}
LockKey == {"edge", "group", "vapp", "network", "externalNetwork", "rdeType", "acl"}

ASSUME HandlersAssumption ==
    \A k \in DOMAIN Handlers : Handlers[k] \in [Operation -> Seq(StepType)]
ASSUME ScenarioAssumption ==
    \A s \in Scenario :
        /\ s.kind \in Seq(DOMAIN Handlers)
        /\ s.inGroup \in BOOLEAN /\ s.foreign \in BOOLEAN
        /\ s.mishaps \in Nat /\ s.edits \in Nat

VARIABLES
    kind,     \* kind[r]: the Terraform resource type of r; its domain are the resources
    inGroup,  \* the edge gateway belongs to a VDC group
    foreign,  \* foreign[r]: the object exists and is not Terraform's yet
    mishaps,  \* failures and losses still to come
    edits,    \* changes of the configuration still to come
    desired,  \* desired[r]: what the configuration asks for
    remote,   \* remote[r]: what Cloud Director has
    parentUp, \* the parent exists
    outerUp,  \* the parent of the parent exists
    power,    \* power[r]: the machine that r is, or that r is part of, runs
    saved,    \* saved[r]: the entry of r in Terraform's state
    seen,     \* seen[r]: what the last Read of r found
    phase,    \* what Terraform is doing
    failed,   \* some Read of this refresh returned an error
    plan,     \* plan[r]: the operations on r still to run
    op,       \* op[r]: the running handler
    todo,     \* todo[r]: the steps it has still to take; after the last it returns
    before,   \* before[r]: power[r] when the handler began
    id,       \* id[r]: d.Id() is not empty
    err,      \* err[r]: the handler returns an error
    held,     \* held[r]: the lock r holds and how it will be unlocked
    copy,     \* copy[r]: the shared document r has read, Stale when another
              \* resource has written it since
    crashed   \* the provider has panicked

config == <<kind, inGroup>>
world == <<foreign, mishaps, edits, desired, remote, parentUp, outerUp, power, saved, seen>>
terraform == <<phase, failed, plan>>
handler == <<op, todo, before, id, err, held, copy>>
vars == <<config, world, terraform, handler, crashed>>

R == DOMAIN kind
Stale == "stale"
NoLock == [key |-> "none", unlock |-> UnlockFixed]
Idle == "none"

\* A machine runs, is powered off, or is a VM or vApp that was powered off to
\* change what is in it.  A machine that does not exist counts as running.
Power == {"on", "off", "parentOff"}

TypeOK ==
    /\ kind \in [R -> DOMAIN Handlers] /\ inGroup \in BOOLEAN
    /\ foreign \in [R -> BOOLEAN]
    /\ mishaps \in Nat /\ edits \in Nat
    /\ desired \in [R -> {Absent, 1, 2}]
    /\ remote \in [R -> Absent .. Mixed]
    /\ seen \in [R -> Absent .. Mixed]
    /\ parentUp \in BOOLEAN /\ outerUp \in BOOLEAN
    /\ power \in [R -> Power] /\ before \in [R -> Power]
    /\ saved \in [R -> {"none", "tainted", "saved"}]
    /\ phase \in {"idle", "refresh", "apply", "import"}
    /\ failed \in BOOLEAN /\ crashed \in BOOLEAN
    /\ plan \in [R -> Seq(Operation)]
    /\ op \in [R -> Operation \cup {Idle}]
    /\ todo \in [R -> Seq(StepType)]
    /\ id \in [R -> BOOLEAN] /\ err \in [R -> BOOLEAN]
    /\ held \in [R -> [key : LockKey \cup {"none"},
                       unlock : {UnlockFixed, UnlockById, UnlockByName}]]
    /\ copy \in [R -> {NoDoc, Stale} \cup Document]

Init ==
    \E s \in Scenario :
        /\ kind = s.kind
        /\ inGroup = s.inGroup
        /\ mishaps = s.mishaps
        /\ edits = s.edits
        /\ foreign = [r \in R |-> s.foreign]
        /\ desired = [r \in R |-> 1]
        /\ remote = [r \in R |-> IF s.foreign THEN 1 ELSE Absent]
        /\ parentUp = TRUE /\ outerUp = TRUE
        /\ power = [r \in R |-> "on"] /\ before = [r \in R |-> "on"]
        /\ saved = [r \in R |-> "none"]
        /\ seen = [r \in R |-> Absent]
        /\ phase = "idle" /\ failed = FALSE
        /\ plan = [r \in R |-> <<>>]
        /\ op = [r \in R |-> Idle]
        /\ todo = [r \in R |-> <<>>]
        /\ id = [r \in R |-> FALSE]
        /\ err = [r \in R |-> FALSE]
        /\ held = [r \in R |-> NoLock]
        /\ copy = [r \in R |-> NoDoc]
        /\ crashed = FALSE
-----------------------------------------------------------------------------
(* The user and the world. *)

Edit(r) ==
    /\ phase = "idle" /\ edits > 0 /\ ~foreign[r]
    /\ \E v \in {Absent, 1, 2} \ {desired[r]} : desired' = [desired EXCEPT ![r] = v]
    /\ edits' = edits - 1
    /\ UNCHANGED <<config, foreign, mishaps, remote, parentUp, outerUp, power, saved, seen,
                   terraform, handler, crashed>>

\* Somebody deletes the object without Terraform.
LoseObject(r) ==
    /\ mishaps > 0 /\ remote[r] # Absent
    /\ mishaps' = mishaps - 1
    /\ remote' = [remote EXCEPT ![r] = Absent]
    /\ foreign' = [foreign EXCEPT ![r] = FALSE]
    /\ power' = [power EXCEPT ![r] = IF @ = "off" THEN "on" ELSE @]
    /\ UNCHANGED <<config, edits, desired, parentUp, outerUp, saved, seen,
                   terraform, handler, crashed>>

\* Somebody deletes the parent, or the parent's parent, and everything in it.
LoseParent ==
    /\ mishaps > 0 /\ parentUp
    /\ mishaps' = mishaps - 1
    /\ parentUp' = FALSE /\ outerUp' \in BOOLEAN
    /\ remote' = [r \in R |-> Absent]
    /\ foreign' = [r \in R |-> FALSE]
    /\ power' = [r \in R |-> "on"]
    /\ UNCHANGED <<config, edits, desired, saved, seen, terraform, handler, crashed>>
-----------------------------------------------------------------------------
(* Terraform. *)

Start(r, o) ==
    /\ op' = [op EXCEPT ![r] = o]
    /\ todo' = [todo EXCEPT ![r] = Handlers[kind[r]][o]]
    /\ before' = [before EXCEPT ![r] = power[r]]
    /\ id' = [id EXCEPT ![r] = o # "create"]
    /\ err' = [err EXCEPT ![r] = FALSE]
    /\ UNCHANGED <<held, copy>>

Resting == \A r \in R : op[r] = Idle

\* terraform apply: every resource of the state is read.
Refresh ==
    /\ phase = "idle"
    /\ \A r \in R : ~foreign[r]
    /\ phase' = "refresh"
    /\ failed' = FALSE
    /\ op' = [r \in R |-> IF saved[r] = "none" THEN Idle ELSE "read"]
    /\ todo' = [r \in R |-> IF saved[r] = "none" THEN <<>> ELSE Handlers[kind[r]].read]
    /\ before' = power
    /\ id' = [r \in R |-> saved[r] # "none"]
    /\ err' = [r \in R |-> FALSE]
    /\ UNCHANGED <<config, world, plan, held, copy, crashed>>

PlanOf(r) ==
    IF desired[r] = Absent
    THEN IF saved[r] = "none" THEN <<>> ELSE <<"delete">>
    ELSE CASE saved[r] = "none"                            -> <<"create">>
           [] saved[r] = "saved" /\ desired[r] = seen[r]   -> <<>>
           [] saved[r] = "saved" /\ desired[r] # seen[r] /\ Handlers[kind[r]].update # <<>>
                                                           -> <<"update">>
           [] OTHER                                        -> <<"delete", "create">>

\* A refresh without an error is followed by the plan and the operations; the
\* parent is a resource of the same configuration, so a lost one is made again.
Plan ==
    /\ phase = "refresh" /\ Resting
    /\ IF failed
       THEN phase' = "idle" /\ UNCHANGED <<plan, parentUp, outerUp>>
       ELSE /\ phase' = "apply"
            /\ plan' = [r \in R |-> PlanOf(r)]
            /\ parentUp' = TRUE /\ outerUp' = TRUE
    /\ UNCHANGED <<config, foreign, mishaps, edits, desired, remote, power, saved, seen,
                   failed, handler, crashed>>

Begin(r) ==
    /\ phase = "apply" /\ op[r] = Idle /\ plan[r] # <<>>
    /\ Start(r, Head(plan[r]))
    /\ UNCHANGED <<config, world, terraform, crashed>>

EndRun ==
    /\ phase = "apply" \/ phase = "import"
    /\ Resting /\ \A r \in R : plan[r] = <<>>
    /\ phase' = "idle"
    /\ UNCHANGED <<config, world, failed, plan, handler, crashed>>

\* terraform import: the Import handler, then the Read handler.
BeginImport(r) ==
    /\ phase = "idle" /\ foreign[r] /\ Handlers[kind[r]].import # <<>>
    /\ phase' = "import"
    /\ Start(r, "import")
    /\ UNCHANGED <<config, world, failed, plan, crashed>>

\* What the entry of r becomes when its handler returns: an error with an empty
\* ID keeps the entry there was, an error of Create with an ID taints it.
SavedAfter(r) ==
    CASE op[r] = "create" -> IF ~id[r] THEN "none" ELSE IF err[r] THEN "tainted" ELSE "saved"
      [] op[r] = "delete" -> IF err[r] THEN saved[r] ELSE "none"
      [] op[r] = "import" -> IF err[r] \/ ~id[r] THEN saved[r] ELSE "saved"
      [] OTHER            -> IF err[r] \/ id[r] THEN saved[r] ELSE "none"

\* The handler returns and its deferred unlock finds the key it locked.
Return(r) ==
    /\ op[r] # Idle /\ todo[r] = <<>>
    /\ held[r].unlock = UnlockById => id[r]
    /\ held[r].unlock = UnlockByName => parentUp
    /\ saved' = [saved EXCEPT ![r] = SavedAfter(r)]
    /\ foreign' = [foreign EXCEPT ![r] = @ /\ SavedAfter(r) = "none"]
    /\ failed' = (failed \/ err[r])
    /\ plan' = [plan EXCEPT ![r] = IF err[r] \/ @ = <<>> THEN <<>> ELSE Tail(@)]
    /\ op' = [op EXCEPT ![r] = Idle]
    /\ held' = [held EXCEPT ![r] = NoLock]
    /\ copy' = [copy EXCEPT ![r] = NoDoc]
    /\ UNCHANGED <<config, mishaps, edits, desired, remote, parentUp, outerUp, power, seen,
                   phase, todo, before, id, err, crashed>>

\* The provider process ends: the state keeps what it had, the locks are gone.
Crash ==
    /\ crashed' = TRUE
    /\ phase' = "idle"
    /\ plan' = [r \in R |-> <<>>]
    /\ op' = [r \in R |-> Idle]
    /\ todo' = [r \in R |-> <<>>]
    /\ held' = [r \in R |-> NoLock]
    /\ copy' = [r \in R |-> NoDoc]
    /\ UNCHANGED <<config, foreign, edits, desired, remote, parentUp, outerUp, power, saved, seen,
                   failed, before, id, err>>

\* The deferred unlock panics: d.Id() is empty by now, or the edge gateway is
\* not found a second time.
UnlockPanics(r) ==
    /\ op[r] # Idle /\ todo[r] = <<>>
    /\ \/ held[r].unlock = UnlockById /\ ~id[r] /\ UNCHANGED mishaps
       \/ held[r].unlock = UnlockByName /\ ~parentUp /\ UNCHANGED mishaps
       \/ held[r].unlock = UnlockByName /\ mishaps > 0 /\ mishaps' = mishaps - 1
    /\ Crash
-----------------------------------------------------------------------------
(* The steps of a handler. *)

Cur(r) == Head(todo[r])
Running(r) == todo[r] # <<>>
At(r, do) == Running(r) /\ Cur(r).do \in do

Advance(r) ==
    /\ todo' = [todo EXCEPT ![r] = Tail(@)]
    /\ UNCHANGED <<op, before, err, held>>

Leave(r, hasId, error) ==
    /\ todo' = [todo EXCEPT ![r] = <<>>]
    /\ id' = [id EXCEPT ![r] = hasId]
    /\ err' = [err EXCEPT ![r] = error]
    /\ UNCHANGED <<op, before, held>>

Take(r, outcome) ==
    \/ outcome = Error /\ Leave(r, id[r], TRUE)
    \/ outcome = Forget /\ Leave(r, FALSE, FALSE)
    \/ outcome = ForgetAndFail /\ Leave(r, FALSE, TRUE)
    \/ outcome = Succeed /\ Leave(r, id[r], FALSE)
    \/ outcome = Ignore /\ Advance(r) /\ UNCHANGED id

Unmoved ==
    UNCHANGED <<config, foreign, edits, desired, parentUp, outerUp, saved, terraform>>

\* The handler ends, or goes on, without an effect on Cloud Director.
Ends(r, outcome) ==
    \/ outcome = Panic /\ Crash
    \/ outcome # Panic /\ Take(r, outcome) /\ Unmoved /\ UNCHANGED <<remote, power, seen, copy, crashed>>

\* The call fails, in Cloud Director or on the way to it, without any effect.
CallFails(r) ==
    /\ Running(r) /\ mishaps > 0
    /\ Cur(r).do \notin {"lock", "unlock", "setId", "clearId"}
    /\ mishaps' = mishaps - 1
    /\ Ends(r, Cur(r).fail)

InParent == {"parent", "observe", "fetch", "create", "createPart", "createOff", "write",
             "writePart", "reset", "parentOff", "parentBack"}

\* The call reaches a parent that is gone.
ParentMissing(r) ==
    /\ \/ At(r, {"outer"}) /\ ~outerUp
       \/ At(r, InParent) /\ ~parentUp
    /\ Ends(r, Cur(r).miss) /\ UNCHANGED mishaps

Passes(r) == Advance(r) /\ Unmoved /\ UNCHANGED <<mishaps, crashed>>

AskStep(r) ==
    /\ \/ At(r, {"ask"})
       \/ At(r, {"parent"}) /\ parentUp
       \/ At(r, {"outer"}) /\ outerUp
    /\ Passes(r) /\ UNCHANGED <<id, remote, power, seen, copy>>

FindStep(r) ==
    /\ At(r, {"find"}) /\ remote[r] # Absent
    /\ seen' = [seen EXCEPT ![r] = remote[r]]
    /\ Passes(r) /\ UNCHANGED <<id, remote, power, copy>>

NotFound(r) ==
    /\ At(r, {"find"}) /\ remote[r] = Absent
    /\ Ends(r, Cur(r).miss) /\ UNCHANGED mishaps

ObserveStep(r) ==
    /\ At(r, {"observe"}) /\ parentUp
    /\ seen' = [seen EXCEPT ![r] = remote[r]]
    /\ Passes(r) /\ UNCHANGED <<id, remote, power, copy>>

FetchStep(r) ==
    /\ At(r, {"fetch"}) /\ parentUp
    /\ copy' = [copy EXCEPT ![r] = Cur(r).doc]
    /\ Passes(r) /\ UNCHANGED <<id, remote, power, seen>>

\* A write of a shared document makes the copies of the others stale.
Written(r) ==
    LET doc == Cur(r).doc IN
    copy' = [s \in R |-> IF s # r /\ doc # NoDoc /\ copy[s] = doc THEN Stale ELSE copy[s]]

\* A name that is taken is refused, a change of what is gone too.
Refused(r) ==
    \/ At(r, {"create", "createPart", "createOff"}) /\ remote[r] # Absent
    \/ At(r, {"change", "changePart", "remove", "powerOff", "powerOn"}) /\ remote[r] = Absent

RefuseStep(r) ==
    /\ Refused(r)
    /\ Ends(r, Cur(r).miss) /\ UNCHANGED mishaps

Writes == {"create", "createPart", "createOff", "change", "changePart", "write", "writePart",
           "remove", "reset", "powerOff", "powerOn", "parentOff", "parentBack"}

EffectOf(r) ==
    CASE Cur(r).do \in {"create", "change", "write"}                                -> desired[r]
      [] Cur(r).do \in {"createPart", "createOff", "changePart", "writePart"}       -> Mixed
      [] Cur(r).do \in {"remove", "reset"}                                          -> Absent
      [] OTHER                                                                      -> remote[r]

\* A parent is powered on again only if it was running when the handler began.
PowerAfter(r) ==
    CASE Cur(r).do \in {"createOff", "powerOff"}         -> "off"
      [] Cur(r).do = "parentOff"                         -> "parentOff"
      [] Cur(r).do = "powerOn"                           -> "on"
      [] Cur(r).do = "parentBack"                        -> before[r]
      [] Cur(r).do = "remove" /\ power[r] = "off"        -> "on"
      [] OTHER                                           -> power[r]

Effect(r) ==
    /\ remote' = [remote EXCEPT ![r] = EffectOf(r)]
    /\ power' = [power EXCEPT ![r] = PowerAfter(r)]
    /\ Written(r)

WriteStep(r) ==
    /\ At(r, Writes) /\ ~Refused(r)
    /\ At(r, InParent) => parentUp
    /\ Effect(r)
    /\ Passes(r) /\ UNCHANGED <<id, seen>>

\* A change or removal is carried out and its answer is lost.  (An answer lost
\* in Create leaves an object that no handler could know of.)
AnswerLost(r) ==
    /\ At(r, Writes) /\ op[r] # "create" /\ ~Refused(r) /\ parentUp
    /\ mishaps > 0 /\ mishaps' = mishaps - 1
    /\ Effect(r)
    /\ Take(r, Cur(r).fail)
    /\ Unmoved /\ UNCHANGED <<crashed, seen>>

IdStep(r) ==
    /\ At(r, {"setId", "clearId"})
    /\ id' = [id EXCEPT ![r] = Cur(r).do = "setId"]
    /\ Passes(r) /\ UNCHANGED <<remote, power, seen, copy>>

KeyOf(k) ==
    CASE k = "owner"      -> IF inGroup THEN "group" ELSE "edge"
      [] k = "ownerGroup" -> IF inGroup THEN "group" ELSE NoLock.key
      [] OTHER            -> k

LockStep(r) ==
    LET key == KeyOf(Cur(r).key) IN
    /\ At(r, {"lock"})
    /\ key = NoLock.key \/ \A s \in R : held[s].key # key
    /\ held' = [held EXCEPT ![r] = [key |-> key, unlock |-> Cur(r).unlock]]
    /\ todo' = [todo EXCEPT ![r] = Tail(@)]
    /\ Unmoved /\ UNCHANGED <<mishaps, crashed, op, before, err, id, remote, power, seen, copy>>

UnlockStep(r) ==
    /\ At(r, {"unlock"})
    /\ held' = [held EXCEPT ![r] = NoLock]
    /\ todo' = [todo EXCEPT ![r] = Tail(@)]
    /\ Unmoved /\ UNCHANGED <<mishaps, crashed, op, before, err, id, remote, power, seen, copy>>

Step(r) ==
    \/ AskStep(r) \/ FindStep(r) \/ NotFound(r) \/ ObserveStep(r) \/ FetchStep(r)
    \/ RefuseStep(r) \/ WriteStep(r) \/ IdStep(r) \/ ParentMissing(r) \/ UnlockStep(r)
    \/ Return(r) \/ UnlockPanics(r)

Next ==
    \/ \E r \in R :
         \/ Edit(r) \/ LoseObject(r) \/ Begin(r) \/ BeginImport(r)
         \/ Step(r) \/ LockStep(r) \/ CallFails(r) \/ AnswerLost(r)
    \/ LoseParent \/ Refresh \/ Plan \/ EndRun

Spec == Init /\ [][Next]_vars

\* The user applies again as long as something is left to do; every call is
\* answered or fails; sync.Mutex hands a lock to its waiters in turn.
Fairness ==
    /\ WF_vars(Refresh) /\ WF_vars(Plan) /\ WF_vars(EndRun)
    /\ WF_vars(\E r \in R : BeginImport(r) \/ Begin(r) \/ Step(r))
    /\ SF_vars(\E r \in R : LockStep(r))

FairSpec == Spec /\ Fairness
-----------------------------------------------------------------------------
(* What the provider promises.  The MC module says for which kinds.        *)

\* Between two runs of Terraform an object that the provider has made, or took
\* over, is in the state: no handler leaves an object behind that nobody knows.
Tracked(r) ==
    phase = "idle" /\ remote[r] # Absent => saved[r] # "none" \/ foreign[r]

\* A shared document is written back as it was read: no rule or network of
\* another resource is lost between the two.
WritesFresh(r) == At(r, Writes) /\ Cur(r).doc # NoDoc => copy[r] # Stale

\* A handler that reports success has done its work, unless somebody has taken
\* the object away in the meantime.
Honest(r) ==
    Return(r) /\ ~err[r] =>
        CASE op[r] \in {"create", "update"} -> remote[r] \in {desired[r], Absent}
          [] op[r] = "delete"               -> remote[r] = Absent
          [] OTHER                          -> TRUE

\* Read drops an entry from the state only when the object is gone.
ForgetsOnlyTheGone(r) ==
    Return(r) /\ op[r] = "read" /\ saved[r] # "none" /\ saved'[r] = "none" => remote[r] = Absent

\* A handler that reports success leaves no machine off that it found running:
\* neither the one it has changed, nor the one it has changed something in.
KeepsPower(r) == Return(r) /\ ~err[r] => power[r] \in {"on", before[r]}

\* What Terraform has and what Cloud Director has are what the user asked for.
Settled(r) ==
    IF desired[r] = Absent THEN saved[r] = "none"
    ELSE saved[r] = "saved" /\ remote[r] = desired[r]
===============================================================================
