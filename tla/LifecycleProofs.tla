---------------------------- MODULE LifecycleProofs ----------------------------
(* Theorems about Lifecycle, for every table of handlers and every scenario.   *)
EXTENDS MCLifecycle, TLAPS

(* The head of a list of steps is a step, its tail the steps after it.         *)
LEMMA HeadTail ==
  ASSUME NEW s \in Seq(StepType), s # <<>>
  PROVE  /\ Head(s) = s[1] /\ s[1] \in StepType
         /\ Tail(s) \in Seq(StepType) /\ Len(Tail(s)) = Len(s) - 1 /\ Len(s) > 0
         /\ \A i \in 1 .. Len(s) - 1 : Tail(s)[i] = s[i + 1]
  OBVIOUS

(* What Take leaves of the handler is well-typed.                              *)
LEMMA TakeTypes ==
  ASSUME TypeOK, NEW r \in R, Running(r), NEW o, Take(r, o)
  PROVE  /\ op' = op /\ before' = before /\ held' = held
         /\ todo' \in [R -> Seq(StepType)]
         /\ id' \in [R -> BOOLEAN] /\ err' \in [R -> BOOLEAN]
<1>1. Tail(todo[r]) \in Seq(StepType) /\ <<>> \in Seq(StepType)
  BY HeadTail DEF TypeOK, Running
<1>2. /\ todo \in [R -> Seq(StepType)] /\ id \in [R -> BOOLEAN] /\ err \in [R -> BOOLEAN]
      /\ id[r] \in BOOLEAN
  BY DEF TypeOK
<1>3. CASE Advance(r) /\ UNCHANGED id
  BY <1>1, <1>2, <1>3 DEF Advance
<1>4. ASSUME NEW hasId \in BOOLEAN, NEW error \in BOOLEAN, Leave(r, hasId, error)
      PROVE  /\ op' = op /\ before' = before /\ held' = held
             /\ todo' \in [R -> Seq(StepType)]
             /\ id' \in [R -> BOOLEAN] /\ err' \in [R -> BOOLEAN]
  BY <1>1, <1>2, <1>4 DEF Leave
<1>5. QED
  BY <1>2, <1>3, <1>4 DEF Take

(* A panic ends all handlers.                                                  *)
LEMMA CrashTypes ==
  ASSUME TypeOK, Crash, mishaps' \in Nat
  PROVE  TypeOK'
<1>1. \A S : <<>> \in Seq(S)
  OBVIOUS
<1>2. /\ [r \in R |-> <<>>] \in [R -> Seq(Operation)]
      /\ [r \in R |-> <<>>] \in [R -> Seq(StepType)]
      /\ [r \in R |-> Idle] \in [R -> Operation \cup {Idle}]
      /\ [r \in R |-> NoDoc] \in [R -> {NoDoc, Stale} \cup Document]
  BY <1>1
<1>3. [r \in R |-> NoLock] \in [R -> [key : LockKey \cup {"none"},
                                     unlock : {UnlockFixed, UnlockById, UnlockByName}]]
  BY DEF NoLock
<1>4. kind' = kind /\ R' = R
  BY DEF Crash, config, R
<1>5. QED
  BY <1>2, <1>3, <1>4 DEF Crash, TypeOK, config

\* A call that ends the handler, or jumps in it, keeps the types.
LEMMA EndsTypes ==
  ASSUME TypeOK, NEW r \in R, Running(r), NEW o, Ends(r, o), mishaps' \in Nat
  PROVE  TypeOK'
<1>1. CASE Crash
  BY <1>1, CrashTypes
<1>2. CASE ~Crash
  <2>1. Take(r, o) /\ Unmoved /\ UNCHANGED <<remote, power, seen, copy, crashed>>
    BY <1>2 DEF Ends
  <2>2. QED
    BY <2>1, TakeTypes DEF Unmoved, config, terraform, TypeOK, R
<1>3. QED
  BY <1>1, <1>2

(* The steps of a handler.                                                     *)
LEMMA CurType ==
  ASSUME TypeOK, NEW r \in R, Running(r)
  PROVE  /\ Cur(r) = todo[r][1] /\ Cur(r) \in StepType
         /\ Tail(todo[r]) \in Seq(StepType)
         /\ Cur(r).do \in Doing /\ Cur(r).fail \in Outcome /\ Cur(r).miss \in Outcome
         /\ Cur(r).doc \in Document \cup {NoDoc}
<1>1. todo[r] \in Seq(StepType) /\ todo[r] # <<>>
  BY DEF TypeOK, Running
<1>2. Cur(r) = todo[r][1] /\ Cur(r) \in StepType /\ Tail(todo[r]) \in Seq(StepType)
  BY <1>1, HeadTail DEF Cur
<1>3. QED
  BY <1>2 DEF StepType, Doing

\* Going on to the next step keeps the types.
LEMMA AdvanceTypes ==
  ASSUME TypeOK, NEW r \in R, Running(r), todo' = [todo EXCEPT ![r] = Tail(@)]
  PROVE  todo' \in [R -> Seq(StepType)]
  BY CurType DEF TypeOK

\* What a call does to the object keeps the types.
LEMMA EffectTypes ==
  ASSUME TypeOK, NEW r \in R, Running(r), Effect(r)
  PROVE  /\ remote' \in [R -> Absent .. Mixed]
         /\ power' \in [R -> Power]
         /\ copy' \in [R -> {NoDoc, Stale} \cup Document]
<1>1. /\ remote \in [R -> Absent .. Mixed] /\ desired \in [R -> {Absent, 1, 2}]
      /\ power \in [R -> Power] /\ before \in [R -> Power]
      /\ copy \in [R -> {NoDoc, Stale} \cup Document]
  BY DEF TypeOK
<1>2. EffectOf(r) \in Absent .. Mixed
  BY <1>1 DEF EffectOf, Absent, Mixed
<1>3. PowerAfter(r) \in Power
  BY <1>1 DEF PowerAfter, Power
<1>4. QED
  BY <1>1, <1>2, <1>3 DEF Effect, Written

\* A step of a handler keeps the types.
LEMMA StepTypes ==
  ASSUME TypeOK, NEW r \in R,
         Step(r) \/ LockStep(r) \/ CallFails(r) \/ AnswerLost(r)
  PROVE  TypeOK'
<1>1. CASE AskStep(r)
  BY <1>1, AdvanceTypes DEF AskStep, At, Passes, Advance, Unmoved, config, terraform, TypeOK, R
<1>2. CASE FindStep(r)
  BY <1>2, AdvanceTypes DEF FindStep, At, Passes, Advance, Unmoved, config, terraform, TypeOK, R
<1>3. CASE ObserveStep(r)
  BY <1>3, AdvanceTypes DEF ObserveStep, At, Passes, Advance, Unmoved, config, terraform, TypeOK, R
<1>4. CASE FetchStep(r)
  BY <1>4, AdvanceTypes, CurType
     DEF FetchStep, At, Passes, Advance, Unmoved, config, terraform, TypeOK, R
<1>5. CASE WriteStep(r)
  BY <1>5, AdvanceTypes, EffectTypes
     DEF WriteStep, At, Passes, Advance, Unmoved, config, terraform, TypeOK, R
<1>6. CASE IdStep(r)
  BY <1>6, AdvanceTypes DEF IdStep, At, Passes, Advance, Unmoved, config, terraform, TypeOK, R
<1>7. CASE LockStep(r)
  <2>1. /\ Running(r) /\ Cur(r).do = "lock"
        /\ held' = [held EXCEPT ![r] = [key |-> KeyOf(Cur(r).key), unlock |-> Cur(r).unlock]]
    BY <1>7 DEF LockStep, At
  <2>2. /\ KeyOf(Cur(r).key) \in LockKey \cup {"none"}
        /\ Cur(r).unlock \in {UnlockFixed, UnlockById, UnlockByName}
    <3>1. Cur(r) \in [do : {"lock"}, fail : Outcome, miss : Outcome, doc : {NoDoc},
                      key : {"edge", "owner", "ownerGroup", "group", "vapp", "network",
                             "externalNetwork", "rdeType", "acl"},
                      unlock : {UnlockFixed, UnlockById, UnlockByName}]
      BY <2>1, CurType DEF StepType
    <3>2. QED
      BY <3>1 DEF KeyOf, LockKey, NoLock
  <2>3. held' \in [R -> [key : LockKey \cup {"none"},
                         unlock : {UnlockFixed, UnlockById, UnlockByName}]]
    BY <2>1, <2>2 DEF TypeOK
  <2>4. QED
    BY <1>7, <2>1, <2>3, AdvanceTypes DEF LockStep, Unmoved, config, terraform, TypeOK, R
<1>8. CASE UnlockStep(r)
  BY <1>8, AdvanceTypes DEF UnlockStep, At, Unmoved, NoLock, config, terraform, TypeOK, R
<1>9. CASE NotFound(r) \/ RefuseStep(r) \/ ParentMissing(r) \/ CallFails(r)
  <2>1. Running(r) /\ mishaps' \in Nat
    BY <1>9 DEF NotFound, RefuseStep, Refused, ParentMissing, CallFails, At, TypeOK
  <2>2. QED
    BY <1>9, <2>1, EndsTypes DEF NotFound, RefuseStep, ParentMissing, CallFails
<1>10. CASE AnswerLost(r)
  <2>1. Running(r) /\ mishaps' \in Nat
    BY <1>10 DEF AnswerLost, At, TypeOK
  <2>2. QED
    BY <1>10, <2>1, TakeTypes, EffectTypes
       DEF AnswerLost, Unmoved, config, terraform, TypeOK, R
<1>11. CASE Return(r)
  <2>1. SavedAfter(r) \in {"none", "tainted", "saved"}
    BY DEF SavedAfter, TypeOK
  <2>2. plan' \in [R -> Seq(Operation)]
    <3>1. \A s \in Seq(Operation) : s # <<>> => Tail(s) \in Seq(Operation)
      OBVIOUS
    <3>2. <<>> \in Seq(Operation)
      OBVIOUS
    <3>3. QED
      BY <1>11, <3>1, <3>2 DEF Return, TypeOK
  <2>3. QED
    BY <1>11, <2>1, <2>2 DEF Return, NoLock, config, TypeOK, R
<1>12. CASE UnlockPanics(r)
  <2>1. mishaps' \in Nat /\ Crash
    BY <1>12 DEF UnlockPanics, TypeOK
  <2>2. QED
    BY <2>1, CrashTypes
<1>13. QED
  BY <1>1, <1>2, <1>3, <1>4, <1>5, <1>6, <1>7, <1>8, <1>9, <1>10, <1>11, <1>12 DEF Step

(* The lists of operations that Terraform plans.                               *)
Plans == {<<>>, <<"create">>, <<"update">>, <<"delete">>, <<"delete", "create">>}

\* A plan is a list of operations.
LEMMA PlanTypes ==
  ASSUME NEW r \in R
  PROVE  /\ PlanOf(r) \in Plans
         /\ PlanOf(r) # <<>> => (Head(PlanOf(r)) = "create" <=> saved[r] = "none")
         /\ PlanOf(r) # <<>> /\ Head(PlanOf(r)) = "update" => Handlers[kind[r]].update # <<>>
<1>1. /\ Head(<<"create">>) = "create" /\ Head(<<"update">>) = "update"
      /\ Head(<<"delete">>) = "delete" /\ Head(<<"delete", "create">>) = "delete"
  OBVIOUS
<1>2. /\ PlanOf(r) \in Plans
      /\ saved[r] = "none" => PlanOf(r) \in {<<>>, <<"create">>}
      /\ saved[r] # "none" => PlanOf(r) # <<"create">>
      /\ PlanOf(r) = <<"update">> => Handlers[kind[r]].update # <<>>
  BY DEF PlanOf, Plans
<1>3. QED
  BY <1>1, <1>2 DEF Plans

\* All that a handler can do keeps the types.
LEMMA HandlerTypes ==
  ASSUME TypeOK, NEW r \in R, NEW o \in Operation
  PROVE  Handlers[kind[r]][o] \in Seq(StepType)
  BY HandlersAssumption DEF TypeOK

(* The user, the world and Terraform.                                          *)
LEMMA TerraformTypes ==
  ASSUME TypeOK,
         LoseParent \/ Refresh \/ Plan \/ EndRun
         \/ \E r \in R : Edit(r) \/ LoseObject(r) \/ Begin(r) \/ BeginImport(r)
  PROVE  TypeOK'
<1>1. ASSUME NEW r \in R, Edit(r) PROVE TypeOK'
  BY <1>1 DEF Edit, TypeOK, config, terraform, handler, R
<1>2. ASSUME NEW r \in R, LoseObject(r) PROVE TypeOK'
  BY <1>2 DEF LoseObject, TypeOK, config, terraform, handler, R, Absent, Mixed, Power
<1>3. ASSUME NEW r \in R, NEW o \in Operation, Start(r, o)
      PROVE  /\ op' \in [R -> Operation \cup {Idle}] /\ todo' \in [R -> Seq(StepType)]
             /\ before' \in [R -> Power] /\ id' \in [R -> BOOLEAN] /\ err' \in [R -> BOOLEAN]
  BY <1>3, HandlerTypes DEF Start, TypeOK
<1>4. ASSUME NEW r \in R, Begin(r) PROVE TypeOK'
  <2>1. Head(plan[r]) \in Operation
    BY <1>4 DEF Begin, TypeOK
  <2>2. QED
    BY <1>3, <1>4, <2>1 DEF Begin, Start, TypeOK, config, world, terraform, R
<1>5. ASSUME NEW r \in R, BeginImport(r) PROVE TypeOK'
  BY <1>3, <1>5 DEF BeginImport, Start, Operation, TypeOK, config, world, R
<1>6. CASE LoseParent
  <2>1. /\ remote' \in [R -> Absent .. Mixed] /\ foreign' \in [R -> BOOLEAN]
        /\ power' \in [R -> Power] /\ mishaps' \in Nat
    BY <1>6 DEF LoseParent, TypeOK, Absent, Mixed, Power
  <2>2. parentUp' \in BOOLEAN /\ outerUp' \in BOOLEAN
    BY <1>6 DEF LoseParent
  <2>3. QED
    BY <1>6, <2>1, <2>2 DEF LoseParent, TypeOK, config, terraform, handler, R
<1>7. CASE Refresh
  <2>1. todo' \in [R -> Seq(StepType)]
    <3>1. <<>> \in Seq(StepType)
      OBVIOUS
    <3>2. \A r \in R : Handlers[kind[r]].read \in Seq(StepType)
      BY HandlerTypes DEF Operation
    <3>3. QED
      BY <1>7, <3>1, <3>2 DEF Refresh
  <2>2. op' \in [R -> Operation \cup {Idle}]
    BY <1>7 DEF Refresh, Operation
  <2>3. QED
    BY <1>7, <2>1, <2>2 DEF Refresh, TypeOK, config, world, R
<1>8. CASE Plan
  <2>1. [r \in R |-> PlanOf(r)] \in [R -> Seq(Operation)]
    <3>1. Plans \subseteq Seq(Operation)
      BY DEF Plans, Operation
    <3>2. QED
      BY <3>1, PlanTypes
  <2>2. plan' \in [R -> Seq(Operation)] /\ phase' \in {"idle", "apply"}
    BY <1>8, <2>1 DEF Plan, TypeOK
  <2>3. parentUp' \in BOOLEAN /\ outerUp' \in BOOLEAN
    BY <1>8 DEF Plan, TypeOK
  <2>4. QED
    BY <1>8, <2>2, <2>3 DEF Plan, TypeOK, config, handler, R
<1>9. CASE EndRun
  BY <1>9 DEF EndRun, TypeOK, config, world, handler, R
<1>10. QED
  BY <1>1, <1>2, <1>4, <1>5, <1>6, <1>7, <1>8, <1>9

(* Every variable keeps its type.                                              *)
THEOREM TypeCorrect == Spec => []TypeOK
<1>1. Init => TypeOK
  <2> SUFFICES ASSUME Init PROVE TypeOK
    OBVIOUS
  <2>1. PICK s \in Scenario :
          /\ kind = s.kind /\ inGroup = s.inGroup /\ mishaps = s.mishaps /\ edits = s.edits
          /\ foreign = [r \in R |-> s.foreign]
          /\ remote = [r \in R |-> IF s.foreign THEN 1 ELSE Absent]
    BY DEF Init
  <2>2. /\ kind \in [R -> DOMAIN Handlers] /\ inGroup \in BOOLEAN
        /\ mishaps \in Nat /\ edits \in Nat
        /\ foreign \in [R -> BOOLEAN] /\ remote \in [R -> Absent .. Mixed]
    BY <2>1, ScenarioAssumption DEF R, Absent, Mixed
  <2>3. \A S : <<>> \in Seq(S)
    OBVIOUS
  <2>4. held \in [R -> [key : LockKey \cup {"none"},
                        unlock : {UnlockFixed, UnlockById, UnlockByName}]]
    BY DEF Init, NoLock
  <2>5. /\ plan \in [R -> Seq(Operation)] /\ todo \in [R -> Seq(StepType)]
        /\ op \in [R -> Operation \cup {Idle}]
        /\ copy \in [R -> {NoDoc, Stale} \cup Document]
    BY <2>3 DEF Init
  <2>6. /\ desired \in [R -> {Absent, 1, 2}] /\ seen \in [R -> Absent .. Mixed]
        /\ power \in [R -> Power] /\ before \in [R -> Power]
        /\ saved \in [R -> {"none", "tainted", "saved"}]
        /\ id \in [R -> BOOLEAN] /\ err \in [R -> BOOLEAN]
    BY DEF Init, Absent, Mixed, Power
  <2>7. /\ phase \in {"idle", "refresh", "apply", "import"} /\ failed \in BOOLEAN
        /\ crashed \in BOOLEAN /\ parentUp \in BOOLEAN /\ outerUp \in BOOLEAN
    BY DEF Init
  <2>8. QED
    BY <2>2, <2>4, <2>5, <2>6, <2>7 DEF TypeOK
<1>2. TypeOK /\ [Next]_vars => TypeOK'
  <2>1. ASSUME TypeOK, UNCHANGED vars PROVE TypeOK'
    BY <2>1 DEF vars, config, world, terraform, handler, TypeOK, R
  <2>2. QED
    BY <2>1, StepTypes, TerraformTypes DEF Next
<1>3. QED
  BY <1>1, <1>2, PTL DEF Spec
-------------------------------------------------------------------------------
(* What a step of the system is for one resource: a move of its own handler,   *)
(* the start or end of a handler, or something that happens to it meanwhile.   *)

Takes(r, outcome) ==
    \/ /\ outcome = Ignore
       /\ todo'[r] = Tail(todo[r]) /\ id'[r] = id[r] /\ err'[r] = err[r]
    \/ /\ outcome \in {Error, Forget, ForgetAndFail, Succeed}
       /\ todo'[r] = <<>>
       /\ id'[r] = (id[r] /\ outcome \notin Losing) /\ err'[r] = (outcome \notin Silent)

Goes(r) == todo'[r] = Tail(todo[r]) /\ err'[r] = err[r]

Still(r) == remote'[r] = remote[r] /\ power'[r] = power[r]

Acts(r) ==
    /\ Cur(r).do \in Writes /\ ~Refused(r) /\ (Cur(r).do \in InParent => parentUp)
    /\ remote'[r] = EffectOf(r) /\ power'[r] = PowerAfter(r)

Calls(r) == Cur(r).do \notin {"lock", "unlock", "setId", "clearId"}

Moves(r) ==
    \/ Goes(r) /\ Still(r) /\ id'[r] = id[r] /\ Cur(r).do \notin Writes \cup {"setId", "clearId"}
    \/ Goes(r) /\ Acts(r) /\ id'[r] = id[r]
    \/ /\ Goes(r) /\ Still(r) /\ Cur(r).do \in {"setId", "clearId"}
       /\ id'[r] = (Cur(r).do = "setId")
    \/ Takes(r, Cur(r).fail) /\ Calls(r) /\ (Still(r) \/ (op[r] # "create" /\ Acts(r)))
    \/ /\ Takes(r, Cur(r).miss) /\ Calls(r) /\ Still(r)
       /\ remote[r] = Absent \/ Cur(r).do \in Makes

Frame(r) ==
    /\ op'[r] = op[r] /\ before'[r] = before[r] /\ saved'[r] = saved[r]
    /\ op[r] # Idle => desired'[r] = desired[r]

Waits(r) ==
    /\ todo'[r] = todo[r] /\ id'[r] = id[r] /\ err'[r] = err[r]
    /\ \/ Still(r) /\ foreign'[r] = foreign[r]
       \/ remote'[r] = Absent /\ power'[r] \in {"on", power[r]}

Starts(r, o) ==
    /\ op[r] = Idle /\ op'[r] = o
    /\ todo'[r] = Handlers[kind[r]][o]
    /\ before'[r] = power[r] /\ id'[r] = (o # "create") /\ err'[r] = FALSE
    /\ Still(r) /\ saved'[r] = saved[r] /\ foreign'[r] = foreign[r] /\ desired'[r] = desired[r]
    /\ o \in {"read", "update", "delete"} => saved[r] # "none"
    /\ o = "create" => saved[r] = "none" /\ ~foreign[r]
    /\ o = "update" => Handlers[kind[r]].update # <<>>

Clears(r) ==
    /\ op[r] = Idle /\ op'[r] = Idle /\ todo'[r] = <<>>
    /\ Still(r) /\ saved'[r] = saved[r] /\ foreign'[r] = foreign[r]

Local(r) ==
    \/ Frame(r) /\ Waits(r)
    \/ Frame(r) /\ Running(r) /\ Moves(r) /\ foreign'[r] = foreign[r]
    \/ \E o \in Operation : Starts(r, o)
    \/ Clears(r)
    \/ Return(r)

(* A parent that is gone took everything in it with it, and is made again      *)
(* before any handler writes.                                                  *)
ParentOK ==
    /\ ~parentUp => \A r \in R : remote[r] = Absent
    /\ ~outerUp => ~parentUp

(* Terraform runs the handlers that fit the phase and the plan; what it        *)
(* refreshes, updates or deletes is in the state, what it creates is not.      *)
PhaseOK ==
    \A r \in R :
        /\ phase = "idle" => op[r] = Idle
        /\ phase = "refresh" => op[r] \in {Idle, "read"}
        /\ phase = "import" => op[r] \in {Idle, "import"}
        /\ phase # "apply" => plan[r] = <<>>
        /\ phase = "apply" /\ op[r] # Idle => plan[r] # <<>> /\ op[r] = Head(plan[r])
        /\ plan[r] \in Plans
        /\ plan[r] # <<>> => (Head(plan[r]) = "create" <=> saved[r] = "none")
        /\ plan[r] # <<>> /\ Head(plan[r]) = "update" => Handlers[kind[r]].update # <<>>
        /\ phase \in {"refresh", "apply"} => ~foreign[r]
        /\ op[r] = "read" => saved[r] # "none"
        /\ op[r] = Idle => todo[r] = <<>>

\* What a handler does with an outcome touches no other resource.
LEMMA TakeLocal ==
  ASSUME TypeOK, NEW r \in R, NEW o, Take(r, o)
  PROVE  /\ Takes(r, o)
         /\ \A s \in R \ {r} : todo'[s] = todo[s] /\ id'[s] = id[s] /\ err'[s] = err[s]
         /\ UNCHANGED <<op, before, held>>
<1>1. todo \in [R -> Seq(StepType)] /\ id \in [R -> BOOLEAN] /\ err \in [R -> BOOLEAN]
  BY DEF TypeOK
<1>2. QED
  BY <1>1 DEF Take, Leave, Advance, Takes, Error, Forget, ForgetAndFail, Succeed, Ignore,
              Losing, Silent

\* A call that ends the handler touches no other resource.
LEMMA EndsLocal ==
  ASSUME TypeOK, NEW r \in R, NEW o, Ends(r, o), ~Crash
  PROVE  /\ Takes(r, o)
         /\ \A s \in R \ {r} : todo'[s] = todo[s] /\ id'[s] = id[s] /\ err'[s] = err[s]
         /\ UNCHANGED <<op, before, held, remote, power, seen, copy, crashed>> /\ Unmoved
  BY TakeLocal DEF Ends

(* A step of a handler, for its resource and for the others.                   *)
Apart(r) == \A s \in R \ {r} :
    todo'[s] = todo[s] /\ id'[s] = id[s] /\ err'[s] = err[s] /\ Still(s)

\* A step that goes right touches no other handler.
LEMMA PassLocal ==
  ASSUME TypeOK, NEW r \in R, Running(r), Passes(r)
  PROVE  /\ Goes(r) /\ Unmoved /\ UNCHANGED <<op, before, held, crashed>>
         /\ \A s \in R \ {r} : todo'[s] = todo[s] /\ err'[s] = err[s]
  BY DEF Passes, Advance, Goes, TypeOK

\* What a call does to the object touches no other object.
LEMMA EffectLocal ==
  ASSUME TypeOK, NEW r \in R, Effect(r), At(r, Writes), ~Refused(r), At(r, InParent) => parentUp
  PROVE  Acts(r) /\ \A s \in R \ {r} : Still(s)
  BY DEF Effect, At, Acts, Still, TypeOK

\* With all of these, a handler moves its own resource and nothing else.
LEMMA HandlerLocal ==
  ASSUME TypeOK, ParentOK, NEW r \in R, ~Crash, ~Return(r),
         Step(r) \/ LockStep(r) \/ CallFails(r) \/ AnswerLost(r)
  PROVE  /\ Running(r) /\ Moves(r) /\ Apart(r)
         /\ Unmoved /\ UNCHANGED <<op, before, crashed>>
<1>1. CASE AskStep(r) \/ FindStep(r) \/ ObserveStep(r) \/ FetchStep(r)
  <2>1. /\ Running(r) /\ Passes(r) /\ UNCHANGED <<id, remote, power>>
        /\ Cur(r).do \in {"ask", "parent", "outer", "find", "observe", "fetch"}
    BY <1>1 DEF AskStep, FindStep, ObserveStep, FetchStep, At
  <2>2. QED
    BY <2>1, PassLocal DEF Moves, Still, Apart, Writes
<1>2. CASE WriteStep(r)
  <2>1. Running(r) /\ Passes(r) /\ UNCHANGED id /\ Acts(r) /\ \A s \in R \ {r} : Still(s)
    BY <1>2, EffectLocal DEF WriteStep, At
  <2>2. QED
    BY <2>1, PassLocal DEF Moves, Apart
<1>3. CASE IdStep(r)
  <2>1. /\ Running(r) /\ Passes(r) /\ UNCHANGED <<remote, power>>
        /\ Cur(r).do \in {"setId", "clearId"}
        /\ id' = [id EXCEPT ![r] = Cur(r).do = "setId"]
    BY <1>3 DEF IdStep, At
  <2>2. id'[r] = (Cur(r).do = "setId") /\ \A s \in R \ {r} : id'[s] = id[s]
    BY <2>1 DEF TypeOK
  <2>3. QED
    BY <2>1, <2>2, PassLocal DEF Moves, Still, Apart
<1>4. CASE LockStep(r) \/ UnlockStep(r)
  <2>1. /\ Running(r) /\ Unmoved /\ UNCHANGED <<crashed, op, before, err, id, remote, power>>
        /\ todo' = [todo EXCEPT ![r] = Tail(@)]
        /\ Cur(r).do \in {"lock", "unlock"}
    BY <1>4 DEF LockStep, UnlockStep, At
  <2>2. todo'[r] = Tail(todo[r]) /\ \A s \in R \ {r} : todo'[s] = todo[s]
    BY <2>1 DEF TypeOK
  <2>3. QED
    BY <2>1, <2>2 DEF Moves, Goes, Still, Apart, Writes
<1>5. CASE NotFound(r) \/ RefuseStep(r) \/ ParentMissing(r)
  <2>1. Running(r) /\ Ends(r, Cur(r).miss)
    BY <1>5 DEF NotFound, RefuseStep, Refused, ParentMissing, At
  <2>2. remote[r] = Absent \/ Cur(r).do \in Makes
    BY <1>5 DEF NotFound, RefuseStep, Refused, ParentMissing, At, ParentOK, Makes
  <2>3. Cur(r).do \in InParent \cup {"find", "outer", "create", "createPart", "createOff", "change",
                                    "changePart", "remove", "powerOff", "powerOn"}
    BY <1>5 DEF NotFound, RefuseStep, Refused, ParentMissing, At
  <2>4. Calls(r)
    BY <2>3 DEF InParent, Calls
  <2>5. Takes(r, Cur(r).miss) /\ Still(r) /\ Apart(r)
        /\ Unmoved /\ UNCHANGED <<op, before, crashed>>
    BY <2>1, EndsLocal DEF Still, Apart
  <2>6. QED
    BY <2>1, <2>2, <2>4, <2>5 DEF Moves
<1>6. CASE CallFails(r)
  <2>1. Running(r) /\ Ends(r, Cur(r).fail) /\ Calls(r)
    BY <1>6 DEF CallFails, Calls
  <2>2. Takes(r, Cur(r).fail) /\ Still(r) /\ Apart(r)
        /\ Unmoved /\ UNCHANGED <<op, before, crashed>>
    BY <2>1, EndsLocal DEF Still, Apart
  <2>3. QED
    BY <2>1, <2>2 DEF Moves
<1>7. CASE AnswerLost(r)
  <2>1. /\ Running(r) /\ Take(r, Cur(r).fail) /\ Acts(r) /\ op[r] # "create"
        /\ Unmoved /\ UNCHANGED crashed /\ \A s \in R \ {r} : Still(s)
    BY <1>7, EffectLocal DEF AnswerLost, At
  <2>2. Calls(r)
    BY <2>1 DEF Acts, Writes, Calls
  <2>3. QED
    BY <2>1, <2>2, TakeLocal DEF Moves, Apart
<1>8. CASE UnlockPanics(r)
  BY <1>8 DEF UnlockPanics
<1>9. QED
  BY <1>1, <1>2, <1>3, <1>4, <1>5, <1>6, <1>7, <1>8 DEF Step

\* A resource changes by a step of its own handler, of Terraform, or by a loss.
LEMMA Locality ==
  ASSUME TypeOK, ParentOK, PhaseOK, [Next]_vars, ~Crash
  PROVE  \A r \in R : Local(r)
<1>1. ASSUME NEW r \in R, ~Return(r),
             Step(r) \/ LockStep(r) \/ CallFails(r) \/ AnswerLost(r)
      PROVE  \A s \in R : Local(s)
  BY <1>1, HandlerLocal DEF Local, Frame, Waits, Apart, Unmoved
<1>2. ASSUME NEW r \in R, Return(r) PROVE \A s \in R : Local(s)
  <2>1. \A s \in R \ {r} : saved'[s] = saved[s] /\ foreign'[s] = foreign[s] /\ op'[s] = op[s]
    BY <1>2 DEF Return, TypeOK
  <2>2. UNCHANGED <<todo, id, err, before, remote, power, desired>>
    BY <1>2 DEF Return
  <2>3. QED
    BY <1>2, <2>1, <2>2 DEF Local, Frame, Waits, Still
<1>3. ASSUME NEW r \in R, Edit(r) PROVE \A s \in R : Local(s)
  BY <1>3 DEF Edit, PhaseOK, Local, Frame, Waits, Still, terraform, handler
<1>4. ASSUME NEW r \in R, LoseObject(r) PROVE \A s \in R : Local(s)
  <2>1. /\ remote'[r] = Absent /\ power'[r] \in {"on", power[r]}
        /\ \A s \in R \ {r} : Still(s) /\ foreign'[s] = foreign[s]
    BY <1>4 DEF LoseObject, TypeOK, Still
  <2>2. QED
    BY <1>4, <2>1 DEF LoseObject, Local, Frame, Waits, handler
<1>5. ASSUME NEW r \in R, Begin(r) \/ BeginImport(r) PROVE \A s \in R : Local(s)
  <2>1. PICK o \in Operation :
           /\ op[r] = Idle /\ Start(r, o) /\ UNCHANGED world
           /\ o \in {"read", "update", "delete"} => saved[r] # "none"
           /\ o = "create" => saved[r] = "none" /\ ~foreign[r]
           /\ o = "update" => Handlers[kind[r]].update # <<>>
    <3>1. CASE Begin(r)
      <4>1. Head(plan[r]) \in Operation /\ Head(plan[r]) # "read"
        BY <3>1 DEF Begin, PhaseOK, Plans, Operation
      <4>2. QED
        BY <3>1, <4>1 DEF Begin, PhaseOK
    <3>2. CASE BeginImport(r)
      BY <3>2 DEF BeginImport, PhaseOK, Operation
    <3>3. QED
      BY <1>5, <3>1, <3>2
  <2>2. Starts(r, o)
    BY <2>1 DEF Start, Starts, Still, world, TypeOK
  <2>3. ASSUME NEW s \in R \ {r} PROVE Frame(s) /\ Waits(s)
    BY <2>1, <2>3 DEF Start, Frame, Waits, Still, world, TypeOK
  <2>4. QED
    BY <2>2, <2>3 DEF Local
<1>6. CASE LoseParent
  BY <1>6 DEF LoseParent, Local, Frame, Waits, handler
<1>7. CASE Refresh
  <2>1. ASSUME NEW s \in R PROVE Starts(s, "read") \/ Clears(s)
    BY <1>7, <2>1 DEF Refresh, PhaseOK, Starts, Clears, Still, world
  <2>2. QED
    BY <2>1 DEF Local, Operation
<1>8. CASE Plan \/ EndRun
  BY <1>8 DEF Plan, EndRun, Local, Frame, Waits, Still, world, handler
<1>9. CASE UNCHANGED vars
  BY <1>9 DEF vars, Local, Frame, Waits, Still, world, handler
<1>10. QED
  BY <1>1, <1>2, <1>3, <1>4, <1>5, <1>6, <1>7, <1>8, <1>9 DEF Next

(* The parent and the phases of Terraform are consistent in every state.       *)
Base == TypeOK /\ ParentOK /\ PhaseOK

\* The scenario never changes.
LEMMA Unconfigured ==
  ASSUME [Next]_vars
  PROVE  kind' = kind /\ inGroup' = inGroup /\ R' = R
<1>1. \A r \in R : \A o : Ends(r, o) => UNCHANGED config
  BY DEF Ends, Crash, Unmoved
<1>2. ASSUME NEW r \in R, Step(r) \/ LockStep(r) \/ CallFails(r) \/ AnswerLost(r)
      PROVE  UNCHANGED config
  BY <1>1, <1>2 DEF Step, AskStep, FindStep, NotFound, ObserveStep, FetchStep, RefuseStep,
      WriteStep, IdStep, ParentMissing, UnlockStep, Return, UnlockPanics, Crash, LockStep, CallFails,
      AnswerLost, Passes, Unmoved
<1>3. ASSUME NEW r \in R, Edit(r) \/ LoseObject(r) \/ Begin(r) \/ BeginImport(r)
      PROVE  UNCHANGED config
  BY <1>3 DEF Edit, LoseObject, Begin, BeginImport
<1>4. UNCHANGED config
  BY <1>2, <1>3 DEF Next, LoseParent, Refresh, Plan, EndRun, vars
<1>5. QED
  BY <1>4 DEF config, R

\* The objects are gone with their parent, and it with its own.
LEMMA ParentInvariant ==
  ASSUME Base, [Next]_vars
  PROVE  ParentOK'
<1>1. R' = R
  BY Unconfigured
<1>2. CASE Crash
  BY <1>2 DEF Base, ParentOK, Crash, R, config
<1>3. CASE LoseParent
  BY <1>1, <1>3 DEF Base, ParentOK, LoseParent
<1>4. CASE Plan
  BY <1>1, <1>4 DEF Base, ParentOK, Plan
<1>5. CASE ~Crash /\ ~LoseParent /\ ~Plan
  <2>1. UNCHANGED <<parentUp, outerUp>>
    <3>1. ASSUME NEW r \in R, Step(r) \/ LockStep(r) \/ CallFails(r) \/ AnswerLost(r)
          PROVE  UNCHANGED <<parentUp, outerUp>>
      BY <1>5, <3>1, HandlerLocal DEF Base, Unmoved, Return
    <3>2. QED
      BY <1>5, <3>1 DEF Next, Edit, LoseObject, Begin, BeginImport, Refresh, EndRun, vars, world
  <2>2. ASSUME NEW r \in R, ~parentUp, remote[r] = Absent PROVE remote'[r] = Absent
    <3>1. Local(r)
      BY <1>5, Locality DEF Base
    <3>2. Running(r) => ~Acts(r)
      BY <2>2 DEF Acts, Refused, At, Writes, InParent
    <3>3. CASE Return(r)
      BY <2>2, <3>3 DEF Return
    <3>4. QED
      BY <2>2, <3>1, <3>2, <3>3 DEF Local, Waits, Moves, Still, Starts, Clears
  <2>3. QED
    BY <1>1, <2>1, <2>2 DEF Base, ParentOK
<1>6. QED
  BY <1>2, <1>3, <1>4, <1>5

\* Handlers run in the phases in which Terraform calls them.
LEMMA PhaseInvariant ==
  ASSUME Base, [Next]_vars
  PROVE  PhaseOK'
<1>1. R' = R /\ kind' = kind
  BY Unconfigured
<1>2. CASE Crash
  BY <1>1, <1>2 DEF Crash, PhaseOK, Plans, Operation, Idle
<1>3. ASSUME ~Crash, NEW r \in R, ~Return(r),
             Step(r) \/ LockStep(r) \/ CallFails(r) \/ AnswerLost(r)
      PROVE  PhaseOK'
  <2>1. /\ Running(r) /\ Moves(r) /\ Apart(r)
        /\ Unmoved /\ UNCHANGED <<op, before, crashed>>
    BY <1>3, HandlerLocal DEF Base
  <2>2. \A s \in R : op[s] = Idle => todo'[s] = <<>>
    BY <2>1 DEF Base, PhaseOK, Apart, Running
  <2>3. QED
    BY <1>1, <2>1, <2>2 DEF Base, PhaseOK, Unmoved, terraform
<1>4. ASSUME NEW r \in R, Return(r) PROVE PhaseOK'
  <2>1. op[r] # Idle /\ todo[r] = <<>>
    BY <1>4 DEF Return
  <2>2. ASSUME NEW s \in R \ {r}
        PROVE  op'[s] = op[s] /\ plan'[s] = plan[s] /\ saved'[s] = saved[s] /\ todo'[s] = todo[s]
    BY <1>4, <2>2 DEF Return, Base, TypeOK
  <2>3. op'[r] = Idle /\ todo'[r] = <<>> /\ phase' = phase
    BY <1>4, <2>1 DEF Return, Base, TypeOK
  <2>4. /\ plan'[r] \in Plans /\ (phase # "apply" => plan'[r] = <<>>)
        /\ plan'[r] # <<>> => Head(plan'[r]) = "create" /\ saved'[r] = "none"
    <3>1. plan'[r] = IF err[r] \/ plan[r] = <<>> THEN <<>> ELSE Tail(plan[r])
      BY <1>4 DEF Return, Base, TypeOK
    <3>2. /\ plan[r] \in Plans /\ (phase # "apply" => plan[r] = <<>>)
          /\ plan[r] # <<>> => op[r] = Head(plan[r])
      BY <2>1 DEF Base, PhaseOK
    <3>3. /\ Tail(<<"create">>) = <<>> /\ Tail(<<"update">>) = <<>> /\ Tail(<<"delete">>) = <<>>
          /\ Tail(<<"delete", "create">>) = <<"create">> /\ Head(<<"create">>) = "create"
          /\ Head(<<"delete", "create">>) = "delete"
      OBVIOUS
    <3>4. plan'[r] \in Plans /\ (phase # "apply" => plan'[r] = <<>>)
      BY <3>1, <3>2, <3>3 DEF Plans
    <3>5. plan'[r] # <<>> => plan'[r] = <<"create">> /\ op[r] = "delete" /\ ~err[r]
      BY <3>1, <3>2, <3>3 DEF Plans
    <3>6. saved'[r] = SavedAfter(r)
      BY <1>4 DEF Return, Base, TypeOK
    <3>7. QED
      BY <3>3, <3>4, <3>5, <3>6 DEF SavedAfter
  <2>5. kind' = kind /\ \A s \in R : foreign'[s] => foreign[s]
    BY <1>4 DEF Return, Base, TypeOK, config
  <2>6. QED
    BY <1>1, <2>2, <2>3, <2>4, <2>5 DEF Base, PhaseOK, Idle
<1>5. ASSUME NEW r \in R, Edit(r) \/ LoseObject(r) PROVE PhaseOK'
  <2>1. \A s \in R : foreign'[s] => foreign[s]
    BY <1>5 DEF Edit, LoseObject, Base, TypeOK
  <2>2. QED
    BY <1>1, <1>5, <2>1 DEF Base, PhaseOK, Edit, LoseObject, terraform, handler
<1>6. ASSUME NEW r \in R, Begin(r) PROVE PhaseOK'
  <2>1. /\ phase = "apply" /\ plan[r] # <<>> /\ UNCHANGED <<phase, plan, saved, foreign>>
        /\ op' = [op EXCEPT ![r] = Head(plan[r])]
        /\ \A s \in R \ {r} : todo'[s] = todo[s]
    BY <1>6 DEF Begin, Start, terraform, world, Base, TypeOK
  <2>2. Head(plan[r]) \notin {Idle, "read"}
    BY <2>1 DEF Base, PhaseOK, Plans, Idle
  <2>3. op'[r] = Head(plan[r]) /\ \A s \in R \ {r} : op'[s] = op[s]
    BY <2>1 DEF Base, TypeOK
  <2>4. QED
    BY <1>1, <2>1, <2>2, <2>3 DEF Base, PhaseOK
<1>7. ASSUME NEW r \in R, BeginImport(r) PROVE PhaseOK'
  <2>1. /\ phase = "idle" /\ phase' = "import" /\ UNCHANGED <<plan, saved, foreign>>
        /\ op'[r] = "import" /\ \A s \in R \ {r} : todo'[s] = todo[s] /\ op'[s] = op[s]
    BY <1>7 DEF BeginImport, Start, world, Base, TypeOK
  <2>2. QED
    BY <1>1, <2>1 DEF Base, PhaseOK, Idle
<1>8. CASE LoseParent \/ UNCHANGED vars
  BY <1>1, <1>8 DEF Base, PhaseOK, LoseParent, vars, world, terraform, handler
<1>9. CASE Refresh
  BY <1>1, <1>9 DEF Base, PhaseOK, Refresh, world, Idle
<1>10. CASE Plan
  <2>1. CASE failed
    BY <1>1, <1>10, <2>1 DEF Base, PhaseOK, Plan, handler, Resting
  <2>2. CASE ~failed
    <3>1. /\ plan' = [r \in R |-> PlanOf(r)] /\ phase' = "apply" /\ Resting
          /\ UNCHANGED <<kind, foreign, saved, op, todo>> /\ phase = "refresh"
      BY <1>10, <2>2 DEF Plan, config, handler
    <3>2. QED
      BY <1>1, <3>1, PlanTypes DEF Base, PhaseOK, Resting
  <2>3. QED
    BY <2>1, <2>2
<1>11. CASE EndRun
  BY <1>1, <1>11 DEF Base, PhaseOK, EndRun, world, handler, Resting
<1>12. QED
  BY <1>2, <1>3, <1>4, <1>5, <1>6, <1>7, <1>8, <1>9, <1>10, <1>11 DEF Next
-------------------------------------------------------------------------------
(* What the rules of HandlerRules say of the steps that are left after one.    *)

\* What a list reaches after its head is what its tail reaches.
LEMMA ReachesShift ==
  ASSUME NEW s \in Seq(StepType), s # <<>>, NEW goal, NEW missable, NEW n \in Nat \ {0},
         Reaches(s, n + 1, goal, missable)
  PROVE  Reaches(Tail(s), n, goal, missable)
<1>1. PICK m \in n + 1 .. Len(s) :
        /\ s[m].do \in goal
        /\ Ignore \notin Outcomes(s[m], missable)
        /\ \A i \in n + 1 .. m : Outcomes(s[i], missable) \cap Silent = {}
  BY DEF Reaches
<1>2. /\ Len(s) \in Nat /\ Len(Tail(s)) = Len(s) - 1
      /\ \A i \in 1 .. Len(s) - 1 : Tail(s)[i] = s[i + 1]
  BY HeadTail
<1>3. m - 1 \in n .. Len(Tail(s)) /\ Tail(s)[m - 1] = s[m]
  BY <1>2
<1>4. \A i \in n .. m - 1 : Outcomes(Tail(s)[i], missable) \cap Silent = {}
  <2>1. ASSUME NEW i \in n .. m - 1
        PROVE  Tail(s)[i] = s[i + 1] /\ i + 1 \in n + 1 .. m
    BY <1>2
  <2>2. QED
    BY <1>1, <2>1
<1>5. QED
  BY <1>1, <1>3, <1>4 DEF Reaches

(* The first of the steps that reach a goal does, or the others do.            *)
LEMMA ReachesTail ==
  ASSUME NEW s \in Seq(StepType), NEW goal, NEW missable, Reaches(s, 1, goal, missable)
  PROVE  /\ s # <<>> /\ Outcomes(s[1], missable) \cap Silent = {}
         /\ \/ s[1].do \in goal /\ Ignore \notin Outcomes(s[1], missable)
            \/ Reaches(Tail(s), 1, goal, missable)
<1>1. PICK m \in 1 .. Len(s) :
        /\ s[m].do \in goal
        /\ Ignore \notin Outcomes(s[m], missable)
        /\ \A i \in 1 .. m : Outcomes(s[i], missable) \cap Silent = {}
  BY DEF Reaches
<1>2. s # <<>> /\ 1 \in 1 .. m
  BY <1>1
<1>3. ASSUME m # 1 PROVE Reaches(s, 2, goal, missable)
  BY <1>1, <1>3 DEF Reaches
<1>4. QED
  <2>1. 1 + 1 = 2 /\ 1 \in Nat \ {0}
    OBVIOUS
  <2>2. m # 1 => Reaches(Tail(s), 1, goal, missable)
    BY <1>2, <1>3, <2>1, ReachesShift
  <2>3. QED
    BY <1>1, <1>2, <2>2

\* A goal that is ahead after each setback of a list is so in its tail, too.
LEMMA RecoversTail ==
  ASSUME NEW s \in Seq(StepType), s # <<>>, NEW setbacks, NEW goal, NEW missable,
         Recovers(s, setbacks, goal, missable)
  PROVE  /\ Recovers(Tail(s), setbacks, goal, missable)
         /\ s[1].do \in setbacks =>
              s[1].fail \notin Silent /\ Reaches(Tail(s), 1, goal, missable)
<1>1. /\ Len(s) \in Nat /\ Len(s) > 0 /\ Len(Tail(s)) = Len(s) - 1
      /\ \A i \in 1 .. Len(s) - 1 : Tail(s)[i] = s[i + 1]
  BY HeadTail
<1>2. ASSUME NEW i \in 1 .. Len(Tail(s)), Tail(s)[i].do \in setbacks
      PROVE  /\ Tail(s)[i].fail \notin Silent
             /\ Reaches(Tail(s), i + 1, goal, missable)
  <2>1. i + 1 \in 1 .. Len(s) /\ i + 1 \in Nat \ {0} /\ s[i + 1] = Tail(s)[i]
    BY <1>1
  <2>2. s[i + 1].fail \notin Silent /\ Reaches(s, i + 1 + 1, goal, missable)
    BY <1>2, <2>1 DEF Recovers
  <2>3. QED
    BY <2>1, <2>2, ReachesShift
<1>3. ASSUME s[1].do \in setbacks
      PROVE  s[1].fail \notin Silent /\ Reaches(Tail(s), 1, goal, missable)
  <2>1. 1 \in 1 .. Len(s) /\ 1 \in Nat \ {0}
    BY <1>1
  <2>2. s[1].fail \notin Silent /\ Reaches(s, 1 + 1, goal, missable)
    BY <1>3, <2>1 DEF Recovers
  <2>3. QED
    BY <2>1, <2>2, ReachesShift
<1>4. QED
  BY <1>2, <1>3 DEF Recovers

\* If no step of a list loses the ID, none of its tail does, nor the head.
LEMMA KeepsTail ==
  ASSUME NEW s \in Seq(StepType), s # <<>>, NEW losing, Keeps(s, losing)
  PROVE  /\ Keeps(Tail(s), losing)
         /\ s[1].do # "clearId" /\ Outcomes(s[1], Makes) \cap losing = {}
<1>1. /\ Len(s) \in Nat /\ Len(s) > 0 /\ Len(Tail(s)) = Len(s) - 1
      /\ \A i \in 1 .. Len(s) - 1 : Tail(s)[i] = s[i + 1]
  BY HeadTail
<1>2. ASSUME NEW i \in 1 .. Len(Tail(s))
      PROVE  Tail(s)[i].do # "clearId" /\ Outcomes(Tail(s)[i], Makes) \cap losing = {}
  <2>1. i + 1 \in 1 .. Len(s) /\ s[i + 1] = Tail(s)[i]
    BY <1>1
  <2>2. QED
    BY <2>1 DEF Keeps
<1>3. 1 \in 1 .. Len(s)
  BY <1>1
<1>4. QED
  BY <1>2, <1>3 DEF Keeps

\* In the tail of a list, too, the ID is set right after what makes the object.
LEMMA SetsIdTail ==
  ASSUME NEW s \in Seq(StepType), s # <<>>, SetsIdAtOnce(s), s[1].do # "setId"
  PROVE  /\ SetsIdAtOnce(Tail(s))
         /\ s[1].do \in Makes \cup Sets => Tail(s) # <<>> /\ Head(Tail(s)).do = "setId"
<1>1. /\ Len(s) \in Nat /\ Len(s) > 0 /\ Len(Tail(s)) = Len(s) - 1
      /\ Tail(s) \in Seq(StepType)
      /\ \A i \in 1 .. Len(s) - 1 : Tail(s)[i] = s[i + 1]
  BY HeadTail
<1>2. ASSUME NEW i \in 1 .. Len(Tail(s)), Tail(s)[i].do \in Makes \cup Sets,
             \A j \in 1 .. i : Tail(s)[j].do # "setId"
      PROVE  i < Len(Tail(s)) /\ Tail(s)[i + 1].do = "setId"
  <2>1. i + 1 \in 1 .. Len(s) /\ s[i + 1] = Tail(s)[i]
    BY <1>1
  <2>2. ASSUME NEW j \in 1 .. i + 1 PROVE s[j].do # "setId"
    <3>1. CASE j = 1
      BY <3>1
    <3>2. CASE j # 1
      <4>1. j - 1 \in 1 .. i /\ Tail(s)[j - 1] = s[j]
        BY <1>1, <3>2
      <4>2. QED
        BY <1>2, <4>1
    <3>3. QED
      BY <3>1, <3>2
  <2>3. i + 1 < Len(s) /\ s[i + 1 + 1].do = "setId"
    BY <1>2, <2>1, <2>2 DEF SetsIdAtOnce
  <2>4. QED
    BY <1>1, <2>3
<1>3. ASSUME s[1].do \in Makes \cup Sets
      PROVE  Tail(s) # <<>> /\ Head(Tail(s)).do = "setId"
  <2>1. 1 \in 1 .. Len(s) /\ \A j \in 1 .. 1 : s[j].do # "setId"
    BY <1>1
  <2>2. 1 < Len(s) /\ s[1 + 1].do = "setId"
    BY <1>3, <2>1 DEF SetsIdAtOnce
  <2>3. Len(Tail(s)) # Len(<<>>) /\ 1 \in 1 .. Len(s) - 1
    BY <1>1, <2>2
  <2>4. Tail(s) # <<>>
    BY <2>3, Zenon
  <2>5. Tail(s)[1] = s[1 + 1]
    BY <1>1, <2>3
  <2>6. QED
    BY <1>1, <2>2, <2>4, <2>5, HeadTail
<1>4. QED
  BY <1>2, <1>3 DEF SetsIdAtOnce

\* If a list makes nothing, neither do its head and its tail.
LEMMA MakesNothingTail ==
  ASSUME NEW s \in Seq(StepType), s # <<>>, MakesNothing(s)
  PROVE  MakesNothing(Tail(s)) /\ s[1].do \notin Makes \cup Sets
  BY HeadTail DEF MakesNothing

\* If a list does not panic, neither do its head and its tail.
LEMMA NeverPanicsTail ==
  ASSUME NEW s \in Seq(StepType), s # <<>>, NeverPanics(s)
  PROVE  /\ NeverPanics(Tail(s)) /\ Panic \notin Outcomes(s[1], Doing)
         /\ s[1].do = "lock" => s[1].unlock = UnlockFixed
  BY HeadTail DEF NeverPanics
-------------------------------------------------------------------------------
\* Types, parents and phases together, in every state.
LEMMA BaseCorrect == Spec => []Base
<1>1. Init => ParentOK /\ PhaseOK
  BY DEF Init, ParentOK, PhaseOK, Plans, Idle
<1>2. TypeOK /\ TypeOK' /\ Base /\ [Next]_vars => Base'
  BY ParentInvariant, PhaseInvariant DEF Base
<1>3. TypeOK /\ ParentOK /\ PhaseOK => Base
  BY DEF Base
<1>4. QED
  BY <1>1, <1>2, <1>3, TypeCorrect, PTL DEF Spec

(* A handler that ends with an error.                                          *)
Fails(r) == err[r] /\ todo[r] = <<>>

\* What is left to do after a step is the tail of the list, or nothing.
LEMMA MoveTail ==
  ASSUME TypeOK, NEW r \in R, Running(r), Moves(r)
  PROVE  /\ todo[r] \in Seq(StepType) /\ todo[r] # <<>> /\ Cur(r) = todo[r][1]
         /\ todo'[r] = Tail(todo[r]) \/ todo'[r] = <<>>
         /\ \A missable : Cur(r).fail \in Outcomes(todo[r][1], missable)
         /\ \A missable : Cur(r).do \in missable => Cur(r).miss \in Outcomes(todo[r][1], missable)
         /\ Cur(r).do \in Doing
<1>1. todo'[r] = Tail(todo[r]) \/ todo'[r] = <<>>
  BY DEF Moves, Goes, Takes
<1>2. QED
  BY <1>1, CurType DEF Outcomes, TypeOK, Running

(* A move of a handler that is to reach a goal takes it there or nearer, or    *)
(* ends it with an error, or finds that the object is gone.                    *)
LEMMA MoveReaches ==
  ASSUME TypeOK, NEW r \in R, Running(r), Moves(r), NEW goal \in SUBSET Writes,
         NEW missable \in {Makes, Doing}, Reaches(todo[r], 1, goal, missable)
  PROVE  \/ Reaches(todo'[r], 1, goal, missable)
         \/ Fails(r)'
         \/ Acts(r) /\ Cur(r).do \in goal
         \/ missable = Makes /\ remote[r] = Absent /\ Still(r)
<1> DEFINE s == todo[r]
<1>1. /\ s \in Seq(StepType) /\ s # <<>> /\ Cur(r) = s[1] /\ Cur(r).do \in Doing
      /\ Cur(r).fail \in Outcomes(s[1], missable)
      /\ Cur(r).do \in missable => Cur(r).miss \in Outcomes(s[1], missable)
  BY MoveTail
<1>2. /\ Outcomes(s[1], missable) \cap Silent = {}
      /\ \/ s[1].do \in goal /\ Ignore \notin Outcomes(s[1], missable)
         \/ Reaches(Tail(s), 1, goal, missable)
  BY <1>1, ReachesTail
<1>3. CASE Goes(r) /\ (Acts(r) \/ Cur(r).do \notin Writes)
  BY <1>1, <1>2, <1>3 DEF Goes
<1>4. ASSUME NEW o \in Outcomes(s[1], missable), Takes(r, o)
      PROVE  Reaches(todo'[r], 1, goal, missable) \/ Fails(r)'
  <2>1. o \notin Silent
    BY <1>2
  <2>2. CASE o = Ignore
    <3>1. todo'[r] = Tail(s)
      BY <2>2, <1>4 DEF Takes, Ignore, Error, Forget, ForgetAndFail, Succeed
    <3>2. QED
      BY <1>2, <1>4, <2>2, <3>1
  <2>3. CASE o # Ignore
    BY <1>4, <2>1, <2>3 DEF Takes, Fails
  <2>4. QED
    BY <2>2, <2>3
<1>5. CASE Takes(r, Cur(r).fail)
  BY <1>1, <1>4, <1>5
<1>6. CASE Takes(r, Cur(r).miss) /\ Still(r) /\ (remote[r] = Absent \/ Cur(r).do \in Makes)
  BY <1>1, <1>4, <1>6
<1>7. QED
  BY <1>3, <1>5, <1>6 DEF Moves, Writes

\* After a setback the goal is still ahead, or the handler has failed.
LEMMA MoveRecovers ==
  ASSUME TypeOK, NEW r \in R, Running(r), Moves(r), NEW setbacks, NEW goal, NEW missable,
         Recovers(todo[r], setbacks, goal, missable)
  PROVE  /\ Recovers(todo'[r], setbacks, goal, missable)
         /\ Cur(r).do \in setbacks =>
              Still(r) \/ Fails(r)' \/ Reaches(todo'[r], 1, goal, missable)
<1> DEFINE s == todo[r]
<1>1. /\ s \in Seq(StepType) /\ s # <<>> /\ Cur(r) = s[1]
      /\ todo'[r] = Tail(s) \/ todo'[r] = <<>>
  BY MoveTail
<1>2. /\ Recovers(Tail(s), setbacks, goal, missable)
      /\ Cur(r).do \in setbacks =>
           Cur(r).fail \notin Silent /\ Reaches(Tail(s), 1, goal, missable)
  BY <1>1, RecoversTail
<1>3. Recovers(<<>>, setbacks, goal, missable)
  BY DEF Recovers
<1>4. \/ Still(r) \/ todo'[r] = Tail(s)
      \/ Cur(r).fail \notin Silent => Fails(r)'
  BY DEF Moves, Goes, Takes, Fails
<1>5. QED
  BY <1>1, <1>2, <1>3, <1>4
-------------------------------------------------------------------------------
(* What a write does to the object and to the machine.                         *)
LEMMA WriteEffects ==
  ASSUME NEW r \in R, Running(r), Moves(r)
  PROVE  \/ Still(r)
         \/ /\ Acts(r)
            /\ Cur(r).do \in Removes => remote'[r] = Absent
            /\ Cur(r).do \in Finishes => remote'[r] = desired[r]
            /\ remote[r] = Absent /\ Cur(r).do \notin Makes \cup Sets => remote'[r] = Absent
            /\ remote'[r] \in {remote[r], desired[r], Absent} \/ Cur(r).do \in Unfinished
            /\ Cur(r).do \in {"powerOn", "parentBack"} => power'[r] \in {"on", before[r]}
            /\ Cur(r).do = "remove" /\ power[r] = "off" => power'[r] = "on"
            /\ Cur(r).do \in {"createOff", "powerOff"} => power'[r] = "off"
            /\ \/ power'[r] \in {power[r], "on", before[r]}
               \/ Cur(r).do \in {"createOff", "powerOff", "parentOff"}
<1>1. Still(r) \/ Acts(r)
  BY DEF Moves
<1>2. ASSUME Acts(r), remote[r] = Absent, Cur(r).do \notin Makes \cup Sets
      PROVE  remote'[r] = Absent
  BY <1>2 DEF Acts, EffectOf, Refused, At, Makes, Sets
<1>3. ASSUME Acts(r)
      PROVE  /\ Cur(r).do \in Removes => remote'[r] = Absent
             /\ Cur(r).do \in Finishes => remote'[r] = desired[r]
             /\ remote'[r] \in {remote[r], desired[r], Absent} \/ Cur(r).do \in Unfinished
  BY <1>3 DEF Acts, EffectOf, Removes, Finishes, Unfinished
<1>4. ASSUME Acts(r)
      PROVE  /\ Cur(r).do \in {"powerOn", "parentBack"} => power'[r] \in {"on", before[r]}
             /\ Cur(r).do = "remove" /\ power[r] = "off" => power'[r] = "on"
             /\ Cur(r).do \in {"createOff", "powerOff"} => power'[r] = "off"
             /\ \/ power'[r] \in {power[r], "on", before[r]}
                \/ Cur(r).do \in {"createOff", "powerOff", "parentOff"}
  BY <1>4 DEF Acts, PowerAfter
<1>5. QED
  BY <1>1, <1>2, <1>3, <1>4

(* What happens to the handler of one resource.                                *)
LEMMA HandlerCases ==
  ASSUME Base, [Next]_vars, NEW r \in R
  PROVE  \/ op'[r] = Idle
         \/ Frame(r) /\ Waits(r)
         \/ Frame(r) /\ Running(r) /\ Moves(r)
         \/ \E o \in Operation : Starts(r, o)
<1>1. CASE Crash
  BY <1>1 DEF Crash
<1>2. CASE ~Crash
  <2>1. Local(r)
    BY <1>2, Locality DEF Base
  <2>2. Return(r) => op'[r] = Idle
    BY DEF Return, Base, TypeOK
  <2>3. QED
    BY <2>1, <2>2 DEF Local, Clears
<1>3. QED
  BY <1>1, <1>2

HandlersOf(r) == Handlers[kind[r]]

(* A Delete that keeps its rule has removed the object, or is still going to,  *)
(* or ends with an error.                                                      *)
DeleteOK(r) ==
    op[r] = "delete" =>
        /\ Recovers(todo[r], Makes \cup Sets, Removes, Makes)
        /\ remote[r] = Absent \/ Fails(r) \/ Reaches(todo[r], 1, Removes, Makes)

\* A Delete that has not failed has deleted the object, or still will.
LEMMA DeleteInvariant ==
  ASSUME Base, [Next]_vars, NEW r \in R, DeletesObject(HandlersOf(r)), DeleteOK(r)
  PROVE  DeleteOK(r)'
<1>1. CASE op'[r] = Idle
  BY <1>1 DEF DeleteOK, Idle
<1>2. CASE Frame(r) /\ Waits(r)
  BY <1>2 DEF DeleteOK, Frame, Waits, Still, Fails
<1>3. CASE Frame(r) /\ Running(r) /\ Moves(r)
  <2> SUFFICES ASSUME op[r] = "delete"
               PROVE  /\ Recovers(todo'[r], Makes \cup Sets, Removes, Makes)
                      /\ remote'[r] = Absent \/ Fails(r)' \/ Reaches(todo'[r], 1, Removes, Makes)
    BY <1>3 DEF DeleteOK, Frame
  <2>1. TypeOK /\ ~Fails(r) /\ Removes \subseteq Writes
    BY <1>3 DEF Base, Fails, Running, Removes, Writes
  <2>2. /\ Recovers(todo[r], Makes \cup Sets, Removes, Makes)
        /\ remote[r] = Absent \/ Reaches(todo[r], 1, Removes, Makes)
    BY <2>1 DEF DeleteOK
  <2>3. /\ Recovers(todo'[r], Makes \cup Sets, Removes, Makes)
        /\ Cur(r).do \in Makes \cup Sets =>
             Still(r) \/ Fails(r)' \/ Reaches(todo'[r], 1, Removes, Makes)
    BY <1>3, <2>1, <2>2, MoveRecovers
  <2>4. CASE remote[r] = Absent
    BY <1>3, <2>3, <2>4, WriteEffects DEF Still
  <2>5. CASE Reaches(todo[r], 1, Removes, Makes)
    <3>1. \/ Reaches(todo'[r], 1, Removes, Makes) \/ Fails(r)'
          \/ Acts(r) /\ Cur(r).do \in Removes
          \/ remote[r] = Absent /\ Still(r)
      BY <1>3, <2>1, <2>5, MoveReaches
    <3>2. ASSUME Acts(r), Cur(r).do \in Removes PROVE remote'[r] = Absent
      BY <3>2 DEF Acts, EffectOf, Removes
    <3>3. QED
      BY <2>3, <3>1, <3>2 DEF Still
  <2>6. QED
    BY <2>2, <2>4, <2>5
<1>4. ASSUME NEW o \in Operation, Starts(r, o) PROVE DeleteOK(r)'
  BY <1>4 DEF Starts, DeleteOK, DeletesObject, Attains, HandlersOf
<1>5. QED
  BY <1>1, <1>2, <1>3, <1>4, HandlerCases

(* The same of Create and Update: the object is as it was asked for.           *)
WorkOK(r) ==
    op[r] \in {"create", "update"} =>
        /\ Recovers(todo[r], Unfinished, Finishes, Makes)
        /\ remote[r] \in {desired[r], Absent} \/ Fails(r) \/ Reaches(todo[r], 1, Finishes, Makes)

\* A Create or Update that has not failed has done its work, or still will.
LEMMA WorkInvariant ==
  ASSUME Base, [Next]_vars, NEW r \in R, TellsTheTruth(HandlersOf(r)), WorkOK(r)
  PROVE  WorkOK(r)'
<1>1. CASE op'[r] = Idle
  BY <1>1 DEF WorkOK, Idle
<1>2. CASE Frame(r) /\ Waits(r)
  BY <1>2 DEF WorkOK, Frame, Waits, Still, Fails, Idle
<1>3. CASE Frame(r) /\ Running(r) /\ Moves(r)
  <2> SUFFICES ASSUME op[r] \in {"create", "update"}
               PROVE  /\ Recovers(todo'[r], Unfinished, Finishes, Makes)
                      /\ \/ remote'[r] \in {desired'[r], Absent} \/ Fails(r)'
                         \/ Reaches(todo'[r], 1, Finishes, Makes)
    BY <1>3 DEF WorkOK, Frame
  <2>1. TypeOK /\ ~Fails(r) /\ Finishes \subseteq Writes /\ desired'[r] = desired[r]
    BY <1>3 DEF Base, Fails, Running, Finishes, Writes, Frame, Idle
  <2>2. /\ Recovers(todo[r], Unfinished, Finishes, Makes)
        /\ remote[r] \in {desired[r], Absent} \/ Reaches(todo[r], 1, Finishes, Makes)
    BY <2>1 DEF WorkOK
  <2>3. /\ Recovers(todo'[r], Unfinished, Finishes, Makes)
        /\ Cur(r).do \in Unfinished =>
             Still(r) \/ Fails(r)' \/ Reaches(todo'[r], 1, Finishes, Makes)
    BY <1>3, <2>1, <2>2, MoveRecovers
  <2>4. CASE remote[r] \in {desired[r], Absent}
    BY <1>3, <2>1, <2>3, <2>4, WriteEffects DEF Still
  <2>5. CASE Reaches(todo[r], 1, Finishes, Makes)
    <3>1. \/ Reaches(todo'[r], 1, Finishes, Makes) \/ Fails(r)'
          \/ Acts(r) /\ Cur(r).do \in Finishes
          \/ remote[r] = Absent /\ Still(r)
      BY <1>3, <2>1, <2>5, MoveReaches
    <3>2. ASSUME Acts(r), Cur(r).do \in Finishes PROVE remote'[r] = desired[r]
      BY <3>2 DEF Acts, EffectOf, Finishes
    <3>3. QED
      BY <2>1, <2>3, <3>1, <3>2 DEF Still
  <2>6. QED
    BY <2>2, <2>4, <2>5
<1>4. ASSUME NEW o \in Operation, Starts(r, o) PROVE WorkOK(r)'
  BY <1>4 DEF Starts, WorkOK, TellsTheTruth, Attains, HandlersOf
<1>5. QED
  BY <1>1, <1>2, <1>3, <1>4, HandlerCases

(* A machine that a handler has powered off is running again, or the handler   *)
(* is still going to power it on, or ends with an error.                       *)
PowerOK(r) ==
    op[r] # Idle =>
        /\ RestoresPower(todo[r])
        /\ \/ power[r] \in {"on", before[r]}
           \/ Fails(r)
           \/ power[r] = "off" /\ Reaches(todo[r], 1, {"powerOn", "parentBack", "remove"}, Doing)
           \/ Reaches(todo[r], 1, {"powerOn", "parentBack"}, Doing)

\* A machine found on is on, will be switched on again, or an error is reported.
LEMMA PowerInvariant ==
  ASSUME Base, [Next]_vars, NEW r \in R, InEvery(RestoresPower, HandlersOf(r)), PowerOK(r)
  PROVE  PowerOK(r)'
<1>1. CASE op'[r] = Idle
  BY <1>1 DEF PowerOK
<1>2. CASE Frame(r) /\ Waits(r)
  BY <1>2 DEF PowerOK, Frame, Waits, Still, Fails
<1>3. CASE Frame(r) /\ Running(r) /\ Moves(r)
  <2> DEFINE On == {"powerOn", "parentBack"}
             Gone == {"powerOn", "parentBack", "remove"}
             Good == \/ power'[r] \in {"on", before'[r]} \/ Fails(r)'
                     \/ power'[r] = "off" /\ Reaches(todo'[r], 1, Gone, Doing)
                     \/ Reaches(todo'[r], 1, On, Doing)
  <2> SUFFICES ASSUME op[r] # Idle
               PROVE  RestoresPower(todo'[r]) /\ Good
    BY <1>3 DEF PowerOK, Frame
  <2>1. /\ TypeOK /\ ~Fails(r) /\ before'[r] = before[r]
        /\ On \in SUBSET Writes /\ Gone \in SUBSET Writes
    BY <1>3 DEF Base, Fails, Running, Writes, Frame
  <2>2. /\ Recovers(todo[r], {"createOff", "powerOff"}, Gone, Doing)
        /\ Recovers(todo[r], {"parentOff"}, On, Doing)
        /\ \/ power[r] \in {"on", before[r]}
           \/ power[r] = "off" /\ Reaches(todo[r], 1, Gone, Doing)
           \/ Reaches(todo[r], 1, On, Doing)
    BY <2>1 DEF PowerOK, RestoresPower
  <2>3. /\ Recovers(todo'[r], {"createOff", "powerOff"}, Gone, Doing)
        /\ Cur(r).do \in {"createOff", "powerOff"} =>
             Still(r) \/ Fails(r)' \/ Reaches(todo'[r], 1, Gone, Doing)
    BY <1>3, <2>1, <2>2, MoveRecovers
  <2>4. /\ Recovers(todo'[r], {"parentOff"}, On, Doing)
        /\ Cur(r).do \in {"parentOff"} =>
             Still(r) \/ Fails(r)' \/ Reaches(todo'[r], 1, On, Doing)
    BY <1>3, <2>1, <2>2, MoveRecovers
  <2>5. Makes # Doing /\ Doing \in {Makes, Doing}
    BY DEF Makes, Doing
  <2>6. ASSUME power[r] \in {"on", before[r]} PROVE Good
    <3>1. CASE Still(r)
      BY <2>1, <2>6, <3>1 DEF Still
    <3>2. CASE ~Still(r)
      <4>1. /\ Cur(r).do \in {"createOff", "powerOff"} => power'[r] = "off"
            /\ \/ power'[r] \in {power[r], "on", before[r]}
               \/ Cur(r).do \in {"createOff", "powerOff", "parentOff"}
        BY <1>3, <3>2, WriteEffects
      <4>2. QED
        BY <2>1, <2>3, <2>4, <2>6, <3>2, <4>1
    <3>3. QED
      BY <3>1, <3>2
  <2>7. ASSUME power[r] = "off", Reaches(todo[r], 1, Gone, Doing) PROVE Good
    <3>1. \/ Reaches(todo'[r], 1, Gone, Doing) \/ Fails(r)'
          \/ Acts(r) /\ Cur(r).do \in Gone
      BY <1>3, <2>1, <2>5, <2>7, MoveReaches
    <3>2. ASSUME Acts(r), Cur(r).do \in Gone PROVE power'[r] \in {"on", before[r]}
      BY <2>7, <3>2 DEF Acts, PowerAfter
    <3>3. \/ power'[r] \in {"off", "on", before[r]}
          \/ Cur(r).do \in {"parentOff"} /\ ~Still(r)
      BY <1>3, <2>7, WriteEffects DEF Still
    <3>4. QED
      BY <2>1, <2>4, <3>1, <3>2, <3>3
  <2>8. ASSUME Reaches(todo[r], 1, On, Doing) PROVE Good
    <3>1. \/ Reaches(todo'[r], 1, On, Doing) \/ Fails(r)'
          \/ Acts(r) /\ Cur(r).do \in On
      BY <1>3, <2>1, <2>5, <2>8, MoveReaches
    <3>2. ASSUME Acts(r), Cur(r).do \in On PROVE power'[r] \in {"on", before[r]}
      BY <3>2 DEF Acts, PowerAfter
    <3>3. QED
      BY <2>1, <3>1, <3>2
  <2>9. QED
    BY <2>2, <2>3, <2>4, <2>6, <2>7, <2>8 DEF RestoresPower
<1>4. ASSUME NEW o \in Operation, Starts(r, o) PROVE PowerOK(r)'
  BY <1>4 DEF Starts, PowerOK, InEvery, HandlersOf, Still
<1>5. QED
  BY <1>1, <1>2, <1>3, <1>4, HandlerCases

(* A Read that does not take a failed call for "not found" has the ID until    *)
(* it ends, and then it has lost it to an error or to an object that is gone.  *)
ReadOK(r) ==
    op[r] = "read" =>
        /\ Keeps(todo[r], {Forget})
        /\ id[r] \/ Fails(r) \/ (remote[r] = Absent /\ todo[r] = <<>>)

\* A Read keeps the ID, unless it fails or the object is gone.
LEMMA ReadInvariant ==
  ASSUME Base, [Next]_vars, NEW r \in R, ForgetsWhenGone(HandlersOf(r)), ReadOK(r)
  PROVE  ReadOK(r)'
<1>1. CASE op'[r] = Idle
  BY <1>1 DEF ReadOK, Idle
<1>2. CASE Frame(r) /\ Waits(r)
  BY <1>2 DEF ReadOK, Frame, Waits, Still, Fails
<1>3. CASE Frame(r) /\ Running(r) /\ Moves(r)
  <2> SUFFICES ASSUME op[r] = "read"
               PROVE  /\ Keeps(todo'[r], {Forget})
                      /\ id'[r] \/ Fails(r)' \/ (remote'[r] = Absent /\ todo'[r] = <<>>)
    BY <1>3 DEF ReadOK, Frame
  <2>1. TypeOK /\ id[r] /\ Keeps(todo[r], {Forget})
    BY <1>3 DEF Base, Running, ReadOK, Fails
  <2>2. /\ Keeps(Tail(todo[r]), {Forget}) /\ todo'[r] \in {Tail(todo[r]), <<>>}
        /\ Cur(r).do # "clearId" /\ Cur(r).fail # Forget
        /\ Cur(r).do \in Makes => Cur(r).miss # Forget
    <3>1. /\ todo[r] \in Seq(StepType) /\ todo[r] # <<>> /\ Cur(r) = todo[r][1]
          /\ todo'[r] = Tail(todo[r]) \/ todo'[r] = <<>>
      BY <1>3, <2>1, MoveTail
    <3>2. /\ Keeps(Tail(todo[r]), {Forget})
          /\ Cur(r).do # "clearId" /\ Outcomes(Cur(r), Makes) \cap {Forget} = {}
      BY <2>1, <3>1, KeepsTail
    <3>3. QED
      BY <3>1, <3>2 DEF Outcomes
  <2>3. Keeps(<<>>, {Forget})
    BY DEF Keeps
  <2>4. ASSUME NEW o, Takes(r, o)
        PROVE  id'[r] \/ Fails(r)' \/ (o = Forget /\ todo'[r] = <<>>)
    BY <2>1, <2>4 DEF Takes, Fails, Losing, Silent, Forget, ForgetAndFail, Succeed
  <2>5. id'[r] \/ Fails(r)' \/ (remote'[r] = Absent /\ todo'[r] = <<>>)
    BY <1>3, <2>1, <2>2, <2>4 DEF Moves, Still
  <2>6. QED
    BY <2>2, <2>3, <2>5
<1>4. ASSUME NEW o \in Operation, Starts(r, o) PROVE ReadOK(r)'
  BY <1>4 DEF Starts, ReadOK, ForgetsWhenGone, HandlersOf
<1>5. QED
  BY <1>1, <1>2, <1>3, <1>4, HandlerCases

\* What Terraform refreshes, updates or deletes is in its state.
LEMMA InState ==
  ASSUME Base, NEW r \in R
  PROVE  /\ op[r] \in {"read", "update", "delete"} => saved[r] # "none"
         /\ Running(r) => op[r] # Idle
<1>1. op[r] \in {"update", "delete"} => phase = "apply"
  BY DEF Base, TypeOK, PhaseOK, Idle
<1>2. op[r] \in {"update", "delete"} => plan[r] # <<>> /\ op[r] = Head(plan[r])
  BY <1>1 DEF Base, PhaseOK, Idle
<1>3. QED
  BY <1>2 DEF Base, PhaseOK, Running

(* An object that exists is in the state, or is somebody else's, or is being   *)
(* created by a handler that has its ID or is about to set it.                 *)
KnownOK(r) ==
    /\ op[r] = "create" =>
         /\ Keeps(todo[r], Losing)
         /\ \/ id[r]
            \/ remote[r] = Absent /\ SetsIdAtOnce(todo[r])
            \/ todo[r] # <<>> /\ Head(todo[r]).do = "setId"
    /\ op[r] \in {"read", "update"} =>
         /\ Keeps(todo[r], Losing)
         /\ id[r] \/ (remote[r] = Absent /\ todo[r] = <<>>)
    /\ op[r] = "import" => MakesNothing(todo[r])
    /\ remote[r] # Absent => saved[r] # "none" \/ foreign[r] \/ op[r] = "create"

(* No move of a handler that keeps the ID loses it, but when the object is gone. *)
LEMMA MoveKeeps ==
  ASSUME TypeOK, NEW r \in R, Running(r), Moves(r), Keeps(todo[r], Losing)
  PROVE  /\ Keeps(todo'[r], Losing)
         /\ id[r] => id'[r] \/ (remote'[r] = Absent /\ todo'[r] = <<>>)
<1>1. /\ todo[r] \in Seq(StepType) /\ todo[r] # <<>> /\ Cur(r) = todo[r][1]
      /\ todo'[r] = Tail(todo[r]) \/ todo'[r] = <<>>
  BY MoveTail
<1>2. /\ Keeps(Tail(todo[r]), Losing)
      /\ Cur(r).do # "clearId" /\ Outcomes(Cur(r), Makes) \cap Losing = {}
  BY <1>1, KeepsTail
<1>3. Keeps(<<>>, Losing)
  BY DEF Keeps
<1>4. ASSUME NEW o, Takes(r, o), id[r]
      PROVE  id'[r] \/ (o \in Losing /\ todo'[r] = <<>>)
  BY <1>4 DEF Takes, Losing
<1>5. Cur(r).fail \notin Losing /\ (Cur(r).do \in Makes => Cur(r).miss \notin Losing)
  BY <1>2 DEF Outcomes
<1>6. QED
  BY <1>1, <1>2, <1>3, <1>4, <1>5 DEF Moves, Still

\* A step of Create leaves an object known, or about to be.
LEMMA CreateKnown ==
  ASSUME Base, NEW r \in R, Frame(r), Running(r), Moves(r), op[r] = "create", KnownOK(r)
  PROVE  /\ Keeps(todo'[r], Losing)
         /\ \/ id'[r]
            \/ remote'[r] = Absent /\ SetsIdAtOnce(todo'[r])
            \/ todo'[r] # <<>> /\ Head(todo'[r]).do = "setId"
<1>1. TypeOK /\ Keeps(todo[r], Losing) /\ SetsIdAtOnce(<<>>)
  BY DEF Base, KnownOK, SetsIdAtOnce
<1>2. /\ todo[r] \in Seq(StepType) /\ todo[r] # <<>> /\ Cur(r) = todo[r][1]
      /\ todo'[r] = Tail(todo[r]) \/ todo'[r] = <<>>
      /\ Cur(r) = Head(todo[r])
  BY <1>1, MoveTail DEF Cur
<1>3. /\ Keeps(todo'[r], Losing)
      /\ id[r] => id'[r] \/ (remote'[r] = Absent /\ todo'[r] = <<>>)
      /\ Cur(r).do # "clearId"
  BY <1>1, <1>2, MoveKeeps, KeepsTail
<1>4. CASE id[r]
  BY <1>1, <1>3, <1>4
<1>5. CASE Cur(r).do = "setId"
  BY <1>3, <1>5 DEF Moves, Calls, Acts, Writes
<1>6. CASE remote[r] = Absent /\ SetsIdAtOnce(todo[r]) /\ Cur(r).do # "setId"
  <2>1. /\ SetsIdAtOnce(Tail(todo[r]))
        /\ Cur(r).do \in Makes \cup Sets =>
             Tail(todo[r]) # <<>> /\ Head(Tail(todo[r])).do = "setId"
    BY <1>2, <1>6, SetsIdTail
  <2>2. CASE Still(r)
    BY <1>1, <1>2, <1>3, <1>6, <2>1, <2>2 DEF Still
  <2>3. CASE ~Still(r)
    <3>1. todo'[r] = Tail(todo[r])
      BY <2>3 DEF Moves, Goes
    <3>2. Cur(r).do \notin Makes \cup Sets => remote'[r] = Absent
      BY <1>6, <2>3, WriteEffects
    <3>3. QED
      BY <1>3, <2>1, <3>1, <3>2
  <2>4. QED
    BY <2>2, <2>3
<1>7. QED
  BY <1>2, <1>3, <1>4, <1>5, <1>6 DEF KnownOK

\* An object that exists is known, or is about to be.
LEMMA KnownInvariant ==
  ASSUME Base, [Next]_vars, ~crashed', NEW r \in R, TracksObject(HandlersOf(r)),
         DeleteOK(r), KnownOK(r)
  PROVE  KnownOK(r)'
<1>1. Local(r)
  BY Locality DEF Base, Crash
<1>2. CASE Return(r)
  <2>1. /\ op'[r] = Idle /\ todo[r] = <<>> /\ saved'[r] = SavedAfter(r)
        /\ foreign'[r] = (foreign[r] /\ SavedAfter(r) = "none") /\ remote'[r] = remote[r]
        /\ op[r] \in Operation
    BY <1>2 DEF Return, Base, TypeOK
  <2>2. ~Reaches(<<>>, 1, Removes, Makes)
    BY DEF Reaches
  <2>3. ASSUME remote[r] # Absent PROVE SavedAfter(r) # "none" \/ foreign[r]
    <3>1. CASE op[r] = "create"
      BY <2>1, <2>3, <3>1 DEF KnownOK, SavedAfter
    <3>2. CASE op[r] = "delete"
      BY <2>1, <2>2, <2>3, <3>2, InState DEF DeleteOK, Fails, SavedAfter
    <3>3. CASE op[r] \in {"read", "update"}
      BY <2>1, <2>3, <3>3, InState DEF KnownOK, SavedAfter
    <3>4. CASE op[r] = "import"
      BY <2>3, <3>4 DEF KnownOK, SavedAfter
    <3>5. QED
      BY <2>1, <3>1, <3>2, <3>3, <3>4 DEF Operation
  <2>4. QED
    BY <2>1, <2>3 DEF KnownOK, Idle
<1>3. CASE Frame(r) /\ Waits(r)
  BY <1>3 DEF KnownOK, Frame, Waits, Still
<1>4. CASE Frame(r) /\ Running(r) /\ Moves(r) /\ foreign'[r] = foreign[r]
  <2>1. /\ op'[r] = op[r] /\ saved'[r] = saved[r] /\ op[r] # Idle /\ TypeOK
        /\ op[r] \in Operation
    BY <1>4, InState DEF Frame, Base, TypeOK
  <2>2. CASE op[r] = "create"
    BY <1>4, <2>1, <2>2, CreateKnown DEF KnownOK
  <2>3. CASE op[r] \in {"read", "update"}
    <3>1. id[r] /\ Keeps(todo[r], Losing)
      BY <1>4, <2>3 DEF KnownOK, Running
    <3>2. /\ Keeps(todo'[r], Losing)
          /\ id'[r] \/ (remote'[r] = Absent /\ todo'[r] = <<>>)
      BY <1>4, <2>1, <3>1, MoveKeeps
    <3>3. QED
      BY <2>1, <2>3, <3>2, InState DEF KnownOK
  <2>4. CASE op[r] = "delete"
    BY <2>1, <2>4, InState DEF KnownOK
  <2>5. CASE op[r] = "import"
    <3>1. /\ todo[r] \in Seq(StepType) /\ todo[r] # <<>> /\ Cur(r) = todo[r][1]
          /\ todo'[r] = Tail(todo[r]) \/ todo'[r] = <<>>
      BY <1>4, <2>1, MoveTail
    <3>2. MakesNothing(Tail(todo[r])) /\ Cur(r).do \notin Makes \cup Sets /\ MakesNothing(<<>>)
      BY <2>5, <3>1, MakesNothingTail DEF KnownOK, MakesNothing
    <3>3. remote[r] = Absent => remote'[r] = Absent
      BY <1>4, <3>2, WriteEffects DEF Still
    <3>4. QED
      BY <1>4, <2>1, <2>5, <3>1, <3>2, <3>3 DEF KnownOK
  <2>6. QED
    BY <2>1, <2>2, <2>3, <2>4, <2>5 DEF Operation
<1>5. ASSUME NEW o \in Operation, Starts(r, o) PROVE KnownOK(r)'
  <2>1. /\ op[r] = Idle /\ op'[r] = o /\ remote'[r] = remote[r] /\ todo'[r] = Handlers[kind[r]][o]
        /\ saved'[r] = saved[r] /\ foreign'[r] = foreign[r] /\ id'[r] = (o # "create")
        /\ o = "create" => saved[r] = "none" /\ ~foreign[r]
    BY <1>5 DEF Starts, Still
  <2>2. remote[r] # Absent => saved[r] # "none" \/ foreign[r]
    BY <2>1 DEF KnownOK, Idle
  <2>3. QED
    BY <2>1, <2>2 DEF KnownOK, TracksObject, HandlersOf
<1>6. CASE Clears(r)
  BY <1>6 DEF Clears, KnownOK, Still, Idle
<1>7. QED
  BY <1>1, <1>2, <1>3, <1>4, <1>5, <1>6 DEF Local
-------------------------------------------------------------------------------
\* A crash is for good.
LEMMA CrashedStays ==
  ASSUME Base, [Next]_vars, ~crashed'
  PROVE  ~crashed
<1>1. ~Crash
  BY DEF Crash
<1>2. ASSUME NEW r \in R, Step(r) \/ LockStep(r) \/ CallFails(r) \/ AnswerLost(r)
      PROVE  UNCHANGED crashed
  BY <1>1, <1>2, HandlerLocal DEF Base, Return
<1>3. UNCHANGED crashed
  BY <1>2 DEF Next, Edit, LoseObject, Begin, BeginImport, LoseParent, Refresh, Plan, EndRun, vars
<1>4. QED
  BY <1>3

(* Which kinds keep which rule.                                                *)
LEMMA RuleKeepers ==
  ASSUME RuleKeeping = DOMAIN Handlers, TypeOK, NEW r \in R
  PROVE  /\ kind[r] \notin Orphaning => TracksObject(HandlersOf(r))
         /\ kind[r] \notin Dishonest => TellsTheTruth(HandlersOf(r))
         /\ kind[r] \notin Hasty \cup HastyAboutSettings => ForgetsWhenGone(HandlersOf(r))
         /\ kind[r] \notin Panicky => InEvery(NeverPanics, HandlersOf(r))
         /\ InEvery(RestoresPower, HandlersOf(r))
         /\ InEvery(SharesUnderLock, HandlersOf(r))
         /\ InEvery(LocksInTurn, HandlersOf(r))
         /\ kind[r] \notin FailsOnLoss => ForgivesLoss(HandlersOf(r).read)
         /\ WorksAtOnce(HandlersOf(r))
<1>1. kind[r] \in DOMAIN Handlers
  BY DEF TypeOK
<1>2. KeepsRules(kind[r])
  BY <1>1 DEF RuleKeeping
<1>3. kind[r] \notin Orphaning => TracksObject(HandlersOf(r))
  BY <1>2 DEF KeepsRules, HandlersOf
<1>4. kind[r] \notin Dishonest => TellsTheTruth(HandlersOf(r))
  BY <1>2 DEF KeepsRules, HandlersOf
<1>5. kind[r] \notin Hasty \cup HastyAboutSettings => ForgetsWhenGone(HandlersOf(r))
  BY <1>2 DEF KeepsRules, HandlersOf
<1>6. kind[r] \notin Panicky => InEvery(NeverPanics, HandlersOf(r))
  BY <1>2 DEF KeepsRules, HandlersOf
<1>7. InEvery(RestoresPower, HandlersOf(r))
  BY <1>2 DEF KeepsRules, HandlersOf
<1>8. InEvery(SharesUnderLock, HandlersOf(r))
  BY <1>2 DEF KeepsRules, HandlersOf
<1>9. InEvery(LocksInTurn, HandlersOf(r))
  BY <1>2 DEF KeepsRules, HandlersOf
<1>10. kind[r] \notin FailsOnLoss => ForgivesLoss(HandlersOf(r).read)
  BY <1>2 DEF KeepsRules, HandlersOf
<1>11. WorksAtOnce(HandlersOf(r))
  BY <1>2 DEF KeepsRules, HandlersOf
<1>12. QED
  BY <1>3, <1>4, <1>5, <1>6, <1>7, <1>8, <1>9, <1>10, <1>11

TrackInv ==
    crashed \/ \A r \in R : TracksObject(HandlersOf(r)) => DeleteOK(r) /\ KnownOK(r)

\* Objects are known, in every state.
LEMMA TracksAlways == Spec => []TrackInv
<1>1. Init => TrackInv
  BY DEF Init, TrackInv, DeleteOK, KnownOK, Idle, Absent
<1>2. TrackInv /\ Base /\ [Next]_vars => TrackInv'
  <2> SUFFICES ASSUME TrackInv, Base, [Next]_vars, ~crashed', NEW r \in R,
                      TracksObject(HandlersOf(r))
               PROVE  DeleteOK(r)' /\ KnownOK(r)'
    BY Unconfigured DEF TrackInv, HandlersOf
  <2>1. DeleteOK(r) /\ KnownOK(r)
    BY CrashedStays DEF TrackInv
  <2>2. DeletesObject(HandlersOf(r))
    BY DEF TracksObject
  <2>3. QED
    BY <2>1, <2>2, DeleteInvariant, KnownInvariant
<1>3. QED
  BY <1>1, <1>2, BaseCorrect, PTL DEF Spec

(* Between two runs of Terraform every object the provider has made is in the  *)
(* state, whatever calls have failed, for every kind whose handlers keep the   *)
(* rules: with the table of the provider, all but the Orphaning ones.          *)
THEOREM AllObjectsTracked ==
  ASSUME RuleKeeping = DOMAIN Handlers
  PROVE  Spec => []AllTracked
<1>1. TrackInv /\ Base => AllTracked
  <2> SUFFICES ASSUME TrackInv, Base, ~crashed, NEW r \in R, kind[r] \notin Orphaning,
                      phase = "idle", remote[r] # Absent
               PROVE  saved[r] # "none" \/ foreign[r]
    BY DEF AllTracked, Tracked
  <2>1. KnownOK(r)
    BY RuleKeepers DEF TrackInv, Base
  <2>2. op[r] = Idle
    BY DEF Base, PhaseOK
  <2>3. QED
    BY <2>1, <2>2 DEF KnownOK, Idle
<1>2. QED
  BY <1>1, TracksAlways, BaseCorrect, PTL

HonestInv ==
    \A r \in R : TellsTheTruth(HandlersOf(r)) => DeleteOK(r) /\ WorkOK(r)

\* What is left of an operation will do its work, in every state.
LEMMA HonestAlways == Spec => []HonestInv
<1>1. Init => HonestInv
  BY DEF Init, HonestInv, DeleteOK, WorkOK, Idle
<1>2. HonestInv /\ Base /\ [Next]_vars => HonestInv'
  <2> SUFFICES ASSUME HonestInv, Base, [Next]_vars, NEW r \in R, TellsTheTruth(HandlersOf(r))
               PROVE  DeleteOK(r)' /\ WorkOK(r)'
    BY Unconfigured DEF HonestInv, HandlersOf
  <2>1. DeleteOK(r) /\ WorkOK(r) /\ DeletesObject(HandlersOf(r))
    BY DEF HonestInv, TellsTheTruth
  <2>2. QED
    BY <2>1, DeleteInvariant, WorkInvariant
<1>3. QED
  BY <1>1, <1>2, BaseCorrect, PTL DEF Spec

(* A handler that reports success has done its work, whatever happened during  *)
(* it: Create and Update to the last call, Delete to the removal.              *)
THEOREM AllReportsHonest ==
  ASSUME RuleKeeping = DOMAIN Handlers
  PROVE  Spec => AllHonest
<1>1. HonestInv /\ Base => \A r \in R : kind[r] \notin Dishonest => Honest(r)
  <2> SUFFICES ASSUME HonestInv, Base, NEW r \in R, kind[r] \notin Dishonest, Return(r), ~err[r]
               PROVE  CASE op[r] \in {"create", "update"} -> remote[r] \in {desired[r], Absent}
                        [] op[r] = "delete"               -> remote[r] = Absent
                        [] OTHER                          -> TRUE
    BY DEF Honest
  <2>1. DeleteOK(r) /\ WorkOK(r)
    BY RuleKeepers DEF HonestInv, Base
  <2>2. todo[r] = <<>> /\ ~Fails(r)
    BY DEF Return, Fails
  <2>3. /\ ~Reaches(<<>>, 1, Removes, Makes)
        /\ ~Reaches(<<>>, 1, Finishes, Makes)
    BY DEF Reaches
  <2>4. QED
    BY <2>1, <2>2, <2>3 DEF DeleteOK, WorkOK
<1>2. HonestInv /\ Base /\ [Next]_vars
        => [\A r \in R : kind[r] \notin Dishonest => Honest(r)]_vars
  BY <1>1
<1>3. QED
  BY <1>2, HonestAlways, BaseCorrect, PTL DEF Spec, AllHonest

ReadInv == \A r \in R : ForgetsWhenGone(HandlersOf(r)) => ReadOK(r)

(* Read drops an entry from the state only when the object is gone.            *)
THEOREM OnlyTheGoneForgotten ==
  ASSUME RuleKeeping = DOMAIN Handlers
  PROVE  Spec => AllForgetOnlyTheGone
<1>1. Init => ReadInv
  BY DEF Init, ReadInv, ReadOK, Idle
<1>2. ReadInv /\ Base /\ [Next]_vars => ReadInv'
  <2> SUFFICES ASSUME ReadInv, Base, [Next]_vars, NEW r \in R, ForgetsWhenGone(HandlersOf(r))
               PROVE  ReadOK(r)'
    BY Unconfigured DEF ReadInv, HandlersOf
  <2>1. QED
    BY ReadInvariant DEF ReadInv
<1>3. ReadInv /\ Base =>
        \A r \in R : kind[r] \notin Hasty \cup HastyAboutSettings => ForgetsOnlyTheGone(r)
  <2> SUFFICES ASSUME ReadInv, Base, NEW r \in R, kind[r] \notin Hasty \cup HastyAboutSettings,
                      Return(r), op[r] = "read", saved[r] # "none", saved'[r] = "none"
               PROVE  remote[r] = Absent
    BY DEF ForgetsOnlyTheGone
  <2>1. ReadOK(r)
    BY RuleKeepers DEF ReadInv, Base
  <2>2. saved'[r] = SavedAfter(r)
    BY DEF Return, Base, TypeOK
  <2>3. QED
    BY <2>1, <2>2 DEF ReadOK, Fails, SavedAfter
<1>4. ReadInv /\ Base /\ [Next]_vars =>
        [\A r \in R : kind[r] \notin Hasty \cup HastyAboutSettings => ForgetsOnlyTheGone(r)]_vars
  BY <1>3
<1>5. QED
  BY <1>1, <1>2, <1>4, BaseCorrect, PTL DEF Spec, AllForgetOnlyTheGone

PowerInv == \A r \in R : InEvery(RestoresPower, HandlersOf(r)) => PowerOK(r)

(* A handler that reports success leaves no machine off that was running.      *)
THEOREM AllPowerKept ==
  ASSUME RuleKeeping = DOMAIN Handlers
  PROVE  Spec => AllKeepPower
<1>1. Init => PowerInv
  BY DEF Init, PowerInv, PowerOK
<1>2. PowerInv /\ Base /\ [Next]_vars => PowerInv'
  <2> SUFFICES ASSUME PowerInv, Base, [Next]_vars, NEW r \in R,
                      InEvery(RestoresPower, HandlersOf(r))
               PROVE  PowerOK(r)'
    BY Unconfigured DEF PowerInv, HandlersOf
  <2>1. QED
    BY PowerInvariant DEF PowerInv
<1>3. PowerInv /\ Base => \A r \in R : KeepsPower(r)
  <2> SUFFICES ASSUME PowerInv, Base, NEW r \in R, Return(r), ~err[r]
               PROVE  power[r] \in {"on", before[r]}
    BY DEF KeepsPower
  <2>1. PowerOK(r)
    BY RuleKeepers DEF PowerInv, Base
  <2>2. op[r] # Idle /\ todo[r] = <<>> /\ ~Fails(r)
    BY DEF Return, Fails
  <2>3. \A goal : ~Reaches(<<>>, 1, goal, Doing)
    BY DEF Reaches
  <2>4. QED
    BY <2>1, <2>2, <2>3 DEF PowerOK
<1>4. PowerInv /\ Base /\ [Next]_vars => [\A r \in R : KeepsPower(r)]_vars
  BY <1>3
<1>5. QED
  BY <1>1, <1>2, <1>4, BaseCorrect, PTL DEF Spec, AllKeepPower
-------------------------------------------------------------------------------
(* Locks and shared documents.                                                 *)

\* A step that is no lock reads a document, or writes it, or leaves the copies alone.
LEMMA HandlerShares ==
  ASSUME TypeOK, NEW r \in R, ~Crash, ~Return(r), ~UnlockStep(r),
         Step(r) \/ CallFails(r) \/ AnswerLost(r)
  PROVE  /\ UNCHANGED held /\ Running(r) /\ Cur(r).do \notin Locks
         /\ \/ UNCHANGED copy
            \/ At(r, {"fetch"}) /\ copy' = [copy EXCEPT ![r] = Cur(r).doc]
            \/ At(r, Writes) /\ Written(r)
<1>1. CASE AskStep(r) \/ FindStep(r) \/ ObserveStep(r) \/ IdStep(r)
  BY <1>1, PassLocal DEF AskStep, FindStep, ObserveStep, IdStep, At, Locks
<1>2. CASE FetchStep(r)
  BY <1>2, PassLocal DEF FetchStep, At, Locks
<1>3. CASE WriteStep(r)
  BY <1>3, PassLocal DEF WriteStep, Effect, At, Locks, Writes
<1>4. CASE NotFound(r) \/ RefuseStep(r) \/ ParentMissing(r)
  BY <1>4, EndsLocal DEF NotFound, RefuseStep, Refused, ParentMissing, At, Locks, InParent
<1>5. CASE CallFails(r)
  BY <1>5, EndsLocal DEF CallFails, Locks
<1>6. CASE AnswerLost(r)
  BY <1>6, TakeLocal DEF AnswerLost, Effect, At, Locks, Writes
<1>7. CASE UnlockPanics(r)
  BY <1>7 DEF UnlockPanics
<1>8. QED
  BY <1>1, <1>2, <1>3, <1>4, <1>5, <1>6, <1>7 DEF Step

(* A lock is taken by one LockStep, and otherwise only released.               *)
LEMMA HeldCases ==
  ASSUME TypeOK, [Next]_vars
  PROVE  \/ \A r \in R : held'[r] \in {held[r], NoLock}
         \/ \E r \in R : LockStep(r)
<1>1. ASSUME NEW r \in R, Step(r) \/ CallFails(r) \/ AnswerLost(r)
      PROVE  \A s \in R : held'[s] \in {held[s], NoLock}
  <2>1. CASE Crash
    BY <2>1 DEF Crash
  <2>2. CASE Return(r) \/ UnlockStep(r)
    BY <2>2 DEF Return, UnlockStep, TypeOK
  <2>3. CASE ~Crash /\ ~Return(r) /\ ~UnlockStep(r)
    BY <1>1, <2>3, HandlerShares
  <2>4. QED
    BY <2>1, <2>2, <2>3
<1>2. ASSUME NEW r \in R, Edit(r) \/ LoseObject(r) \/ Begin(r) \/ BeginImport(r)
      PROVE  UNCHANGED held
  BY <1>2 DEF Edit, LoseObject, Begin, BeginImport, Start, handler
<1>3. ASSUME LoseParent \/ Refresh \/ Plan \/ EndRun \/ UNCHANGED vars
      PROVE  UNCHANGED held
  BY <1>3 DEF LoseParent, Refresh, Plan, EndRun, vars, handler
<1>4. QED
  BY <1>1, <1>2, <1>3 DEF Next

(* No key is held twice.                                                       *)
Exclusive == \A r, s \in R : r # s /\ held[r].key # NoLock.key => held[r].key # held[s].key

\* No two resources hold one lock.
LEMMA ExclusiveInvariant ==
  ASSUME TypeOK, Exclusive, [Next]_vars
  PROVE  Exclusive'
<1>1. R' = R
  BY Unconfigured
<1>2. CASE \A r \in R : held'[r] \in {held[r], NoLock}
  BY <1>1, <1>2 DEF Exclusive
<1>3. ASSUME NEW r \in R, LockStep(r) PROVE Exclusive'
  <2> DEFINE key == KeyOf(Cur(r).key)
  <2>1. /\ held'[r].key = key
        /\ \A s \in R \ {r} : held'[s] = held[s]
        /\ key = NoLock.key \/ \A s \in R : held[s].key # key
    BY <1>3 DEF LockStep, TypeOK
  <2>2. QED
    BY <1>1, <2>1 DEF Exclusive
<1>4. QED
  BY <1>2, <1>3, HeldCases
-------------------------------------------------------------------------------
(* What a step of a handler without panics leaves of it.                       *)
CalmOK(r) == NeverPanics(todo[r]) /\ held[r].unlock = UnlockFixed

\* What is left of a handler neither panics nor looks up the lock to unlock it.
LEMMA CalmInvariant ==
  ASSUME Base, [Next]_vars, NEW r \in R, InEvery(NeverPanics, HandlersOf(r)), CalmOK(r)
  PROVE  CalmOK(r)'
<1>1. NeverPanics(<<>>) /\ NoLock.unlock = UnlockFixed /\ TypeOK
  BY DEF NeverPanics, NoLock, Base
<1>2. NeverPanics(todo'[r])
  <2>1. CASE Crash
    BY <1>1, <2>1 DEF Crash
  <2>2. CASE Return(r)
    BY <2>2 DEF Return, CalmOK
  <2>3. CASE Frame(r) /\ Waits(r)
    BY <2>3 DEF Waits, CalmOK
  <2>4. CASE Running(r) /\ Moves(r)
    BY <1>1, <2>4, MoveTail, NeverPanicsTail DEF CalmOK
  <2>5. ASSUME NEW o \in Operation, Starts(r, o) PROVE NeverPanics(todo'[r])
    BY <2>5 DEF Starts, InEvery, HandlersOf
  <2>6. CASE Clears(r)
    BY <1>1, <2>6 DEF Clears
  <2>7. QED
    BY <2>1, <2>2, <2>3, <2>4, <2>5, <2>6, Locality DEF Local, Base
<1>3. held'[r].unlock = UnlockFixed
  <2>1. CASE \A s \in R : held'[s] \in {held[s], NoLock}
    BY <1>1, <2>1 DEF CalmOK
  <2>2. ASSUME NEW s \in R, LockStep(s) PROVE held'[r].unlock = UnlockFixed
    <3>1. CASE s = r
      <4>1. Running(r) /\ Cur(r).do = "lock" /\ held'[r].unlock = Cur(r).unlock
        BY <1>1, <2>2, <3>1 DEF LockStep, At, TypeOK
      <4>2. Cur(r) = todo[r][1] /\ todo[r] \in Seq(StepType) /\ todo[r] # <<>>
        BY <1>1, <4>1, CurType DEF Running, TypeOK
      <4>3. QED
        BY <4>1, <4>2, NeverPanicsTail DEF CalmOK
    <3>2. CASE s # r
      BY <1>1, <2>2, <3>2 DEF LockStep, CalmOK, TypeOK
    <3>3. QED
      BY <3>1, <3>2
  <2>3. QED
    BY <1>1, <2>1, <2>2, HeldCases
<1>4. QED
  BY <1>2, <1>3 DEF CalmOK

(* The provider panics at a step, or in an unlock, of one handler.             *)
LEMMA PanicCause ==
  ASSUME Base, [Next]_vars, ~crashed, crashed'
  PROVE  \E r \in R : ~CalmOK(r)
<1>1. ASSUME NEW r \in R, Running(r), Cur(r).do \in Doing, Panic \in {Cur(r).fail, Cur(r).miss}
      PROVE  ~CalmOK(r)
  <2>1. Cur(r) = todo[r][1] /\ todo[r] \in Seq(StepType) /\ todo[r] # <<>>
    BY <1>1, CurType DEF Base, TypeOK, Running
  <2>2. QED
    BY <1>1, <2>1, NeverPanicsTail DEF CalmOK, Outcomes
<1>2. ASSUME NEW r \in R, NEW o, Ends(r, o) PROVE o = Panic
  BY <1>2 DEF Ends
<1>3. ASSUME NEW r \in R, Step(r) \/ LockStep(r) \/ CallFails(r) \/ AnswerLost(r)
      PROVE  ~CalmOK(r)
  <2>1. CASE NotFound(r) \/ RefuseStep(r) \/ ParentMissing(r)
    <3>1. Running(r) /\ Ends(r, Cur(r).miss)
      BY <2>1 DEF NotFound, RefuseStep, Refused, ParentMissing, At
    <3>2. QED
      BY <1>1, <1>2, <3>1, CurType DEF Base
  <2>2. CASE CallFails(r)
    BY <1>1, <1>2, <2>2, CurType DEF CallFails, Base
  <2>3. CASE UnlockPanics(r)
    BY <2>3 DEF UnlockPanics, CalmOK, UnlockById, UnlockByName, UnlockFixed
  <2>4. QED
    BY <1>3, <2>1, <2>2, <2>3 DEF Step, AskStep, FindStep, ObserveStep, FetchStep, WriteStep,
        IdStep, UnlockStep, Return, LockStep, AnswerLost, Passes
<1>4. QED
  BY <1>3 DEF Next, Edit, LoseObject, Begin, BeginImport, LoseParent, Refresh, Plan, EndRun, vars

CalmInv == \A r \in R : InEvery(NeverPanics, HandlersOf(r)) => CalmOK(r)

(* The provider panics only when a resource of a kind is in use whose handlers *)
(* leave an error unchecked or look the key of the lock up to unlock it.       *)
THEOREM PanicsOnlyOfThePanicky ==
  ASSUME RuleKeeping = DOMAIN Handlers
  PROVE  Spec => []NoPanic
<1>1. Init => CalmInv /\ NoPanic
  <2>1. NeverPanics(<<>>) /\ NoLock.unlock = UnlockFixed
    BY DEF NeverPanics, NoLock
  <2>2. Init => NoPanic
    BY DEF Init, NoPanic
  <2>3. Init => \A r \in R : todo[r] = <<>> /\ held[r] = NoLock
    BY DEF Init
  <2>4. QED
    BY <2>1, <2>2, <2>3 DEF CalmInv, CalmOK
<1>2. CalmInv /\ Base /\ [Next]_vars => CalmInv'
  <2> SUFFICES ASSUME CalmInv, Base, [Next]_vars, NEW r \in R,
                      InEvery(NeverPanics, HandlersOf(r))
               PROVE  CalmOK(r)'
    BY Unconfigured DEF CalmInv, HandlersOf
  <2>1. QED
    BY CalmInvariant DEF CalmInv
<1>3. CalmInv /\ Base /\ NoPanic /\ [Next]_vars => NoPanic'
  <2> SUFFICES ASSUME CalmInv, Base, NoPanic, [Next]_vars, crashed'
               PROVE  \E r \in R : kind[r] \in Panicky
    BY Unconfigured DEF NoPanic
  <2>1. CASE ~crashed
    BY <2>1, PanicCause, RuleKeepers DEF CalmInv, Base
  <2>2. QED
    BY <2>1 DEF NoPanic
<1>4. QED
  BY <1>1, <1>2, <1>3, BaseCorrect, PTL DEF Spec
-------------------------------------------------------------------------------
(* A shared document is read and written under its lock.                       *)

\* Before the lock the documents are still to come; after it they are its documents.
LEMMA SharesTail ==
  ASSUME NEW s \in Seq(StepType), s # <<>>, SharesUnderLock(s)
  PROVE  /\ s[1].do # "lock" => SharesUnderLock(Tail(s)) /\ s[1].doc = NoDoc
         /\ s[1].do = "lock" =>
              \A i \in 1 .. Len(Tail(s)) :
                  Tail(s)[i].doc # NoDoc =>
                      /\ s[1].key = LockOf[Tail(s)[i].doc]
                      /\ \A n \in 1 .. i : Tail(s)[n].do \notin Locks
<1>1. /\ Len(s) \in Nat /\ Len(s) > 0 /\ Len(Tail(s)) = Len(s) - 1
      /\ \A i \in 1 .. Len(s) - 1 : Tail(s)[i] = s[i + 1]
  BY HeadTail
<1>2. ASSUME NEW i \in 1 .. Len(Tail(s)), Tail(s)[i].doc # NoDoc
      PROVE  \E j \in 1 .. i + 1 :
                 /\ s[j].do = "lock" /\ s[j].key = LockOf[Tail(s)[i].doc]
                 /\ \A n \in 1 .. i + 1 : n # j => s[n].do \notin Locks
  <2>1. i + 1 \in 1 .. Len(s) /\ s[i + 1] = Tail(s)[i]
    BY <1>1
  <2>2. QED
    BY <1>2, <2>1 DEF SharesUnderLock
<1>3. ASSUME s[1].do # "lock" PROVE SharesUnderLock(Tail(s)) /\ s[1].doc = NoDoc
  <2>1. ASSUME NEW i \in 1 .. Len(Tail(s)), Tail(s)[i].doc # NoDoc
        PROVE  \E j \in 1 .. i :
                 /\ Tail(s)[j].do = "lock" /\ Tail(s)[j].key = LockOf[Tail(s)[i].doc]
                 /\ \A n \in 1 .. i : n # j => Tail(s)[n].do \notin Locks
    <3>1. PICK j \in 1 .. i + 1 :
                 /\ s[j].do = "lock" /\ s[j].key = LockOf[Tail(s)[i].doc]
                 /\ \A n \in 1 .. i + 1 : n # j => s[n].do \notin Locks
      BY <1>2, <2>1
    <3>2. j - 1 \in 1 .. i /\ Tail(s)[j - 1] = s[j]
      BY <1>1, <1>3, <3>1
    <3>3. ASSUME NEW n \in 1 .. i, n # j - 1 PROVE Tail(s)[n].do \notin Locks
      <4>1. n + 1 \in 1 .. i + 1 /\ n + 1 # j /\ Tail(s)[n] = s[n + 1]
        BY <1>1, <3>3
      <4>2. QED
        BY <3>1, <4>1
    <3>4. QED
      BY <3>1, <3>2, <3>3
  <2>2. s[1].doc = NoDoc
    BY <1>1, <1>3 DEF SharesUnderLock
  <2>3. QED
    BY <2>1, <2>2 DEF SharesUnderLock
<1>4. ASSUME s[1].do = "lock", NEW i \in 1 .. Len(Tail(s)), Tail(s)[i].doc # NoDoc
      PROVE  /\ s[1].key = LockOf[Tail(s)[i].doc]
             /\ \A n \in 1 .. i : Tail(s)[n].do \notin Locks
  <2>1. PICK j \in 1 .. i + 1 :
               /\ s[j].do = "lock" /\ s[j].key = LockOf[Tail(s)[i].doc]
               /\ \A n \in 1 .. i + 1 : n # j => s[n].do \notin Locks
    BY <1>2, <1>4
  <2>2. j = 1
    BY <1>4, <2>1 DEF Locks
  <2>3. ASSUME NEW n \in 1 .. i PROVE Tail(s)[n].do \notin Locks
    <3>1. n + 1 \in 1 .. i + 1 /\ n + 1 # j /\ Tail(s)[n] = s[n + 1]
      BY <1>1, <2>2
    <3>2. QED
      BY <2>1, <3>1
  <2>4. QED
    BY <2>1, <2>2, <2>3
<1>5. QED
  BY <1>3, <1>4

(* Every shared document among the steps is used under a lock on the key.      *)
Under(steps, key) ==
    \A i \in 1 .. Len(steps) :
        steps[i].doc # NoDoc =>
            /\ key = LockOf[steps[i].doc]
            /\ \A n \in 1 .. i : steps[n].do \notin Locks

NoneShared(steps) == \A i \in 1 .. Len(steps) : steps[i].doc = NoDoc

\* A list under a lock uses the documents of that lock only, and before the unlock.
LEMMA UnderTail ==
  ASSUME NEW s \in Seq(StepType), s # <<>>, NEW key, Under(s, key)
  PROVE  /\ Under(Tail(s), key)
         /\ s[1].do \in Locks => NoneShared(s)
         /\ s[1].doc # NoDoc => key = LockOf[s[1].doc]
<1>1. /\ Len(s) \in Nat /\ Len(s) > 0 /\ Len(Tail(s)) = Len(s) - 1
      /\ \A i \in 1 .. Len(s) - 1 : Tail(s)[i] = s[i + 1]
  BY HeadTail
<1>2. ASSUME NEW i \in 1 .. Len(Tail(s)), Tail(s)[i].doc # NoDoc
      PROVE  /\ key = LockOf[Tail(s)[i].doc]
             /\ \A n \in 1 .. i : Tail(s)[n].do \notin Locks
  <2>1. i + 1 \in 1 .. Len(s) /\ s[i + 1] = Tail(s)[i]
    BY <1>1
  <2>2. key = LockOf[s[i + 1].doc] /\ \A n \in 1 .. i + 1 : s[n].do \notin Locks
    BY <1>2, <2>1 DEF Under
  <2>3. \A n \in 1 .. i : n + 1 \in 1 .. i + 1 /\ Tail(s)[n] = s[n + 1]
    BY <1>1
  <2>4. QED
    BY <2>1, <2>2, <2>3
<1>3. s[1].do \in Locks => NoneShared(s)
  BY <1>1 DEF Under, NoneShared
<1>4. s[1].doc # NoDoc => key = LockOf[s[1].doc]
  BY <1>1 DEF Under
<1>5. QED
  BY <1>2, <1>3, <1>4 DEF Under

\* If a list uses no document, neither do its head and its tail.
LEMMA NoneSharedTail ==
  ASSUME NEW s \in Seq(StepType), s # <<>>, NoneShared(s)
  PROVE  NoneShared(Tail(s)) /\ s[1].doc = NoDoc
  BY HeadTail DEF NoneShared

(* A handler has not read a shared document yet, or has done with them, or     *)
(* holds the lock of the one it has read and will only use that.               *)
Phased(steps, key, doc) ==
    \/ SharesUnderLock(steps) /\ doc = NoDoc
    \/ NoneShared(steps)
    \/ /\ Under(steps, key) /\ doc # Stale
       /\ doc \in Document => key = LockOf[doc]

DocOK(r) ==
    IF op[r] = Idle THEN copy[r] = NoDoc ELSE Phased(todo[r], held[r].key, copy[r])

\* A lock, an unlock and a read lead from one of the three cases of Phased to the next.
LEMMA PhasedTail ==
  ASSUME NEW s \in Seq(StepType), s # <<>>, NEW key, NEW doc, Phased(s, key, doc)
  PROVE  /\ s[1].do \notin Locks => Phased(Tail(s), key, doc)
         /\ s[1].do = "unlock" => \A free : Phased(Tail(s), free, doc)
         /\ s[1].do = "lock" => \A taken :
              taken = s[1].key \/ s[1].key \notin {LockOf[d] : d \in Document}
                => Phased(Tail(s), taken, doc)
         /\ s[1].do = "fetch" => Phased(Tail(s), key, s[1].doc)
         /\ s[1].do # "lock" /\ s[1].doc # NoDoc => key = LockOf[s[1].doc] /\ doc # Stale
<1>1. /\ Tail(s) \in Seq(StepType) /\ s[1] \in StepType
      /\ s[1].doc \in Document \cup {NoDoc} /\ Stale \notin Document \cup {NoDoc}
      /\ \A i \in 1 .. Len(Tail(s)) : Tail(s)[i].doc \in Document \cup {NoDoc}
  <2>1. Tail(s) \in Seq(StepType) /\ s[1] \in StepType
    BY HeadTail
  <2>2. \A e \in StepType : e.doc \in Document \cup {NoDoc}
    BY DEF StepType
  <2>3. QED
    BY <2>1, <2>2 DEF Stale, Document, NoDoc
<1>2. CASE NoneShared(s)
  <2>1. NoneShared(Tail(s)) /\ s[1].doc = NoDoc
    BY <1>2, NoneSharedTail
  <2>2. QED
    BY <2>1 DEF Phased
<1>3. CASE SharesUnderLock(s) /\ doc = NoDoc
  <2>1. CASE s[1].do # "lock"
    <3>1. SharesUnderLock(Tail(s)) /\ s[1].doc = NoDoc
      BY <1>3, <2>1, SharesTail
    <3>2. QED
      BY <1>3, <2>1, <3>1 DEF Phased
  <2>2. CASE s[1].do = "lock"
    <3>1. Under(Tail(s), s[1].key)
      BY <1>3, <2>2, SharesTail DEF Under
    <3>2. NoDoc # Stale /\ NoDoc \notin Document
      BY DEF NoDoc, Stale, Document
    <3>3. s[1].key \notin {LockOf[d] : d \in Document} => NoneShared(Tail(s))
      BY <1>1, <3>1 DEF Under, NoneShared
    <3>4. QED
      BY <1>3, <2>2, <3>1, <3>2, <3>3 DEF Phased, Locks
  <2>3. QED
    BY <2>1, <2>2
<1>4. CASE /\ Under(s, key) /\ doc # Stale /\ (doc \in Document => key = LockOf[doc])
           /\ ~NoneShared(s)
  <2>1. /\ Under(Tail(s), key) /\ s[1].do \notin Locks
        /\ s[1].doc # NoDoc => key = LockOf[s[1].doc]
    BY <1>4, UnderTail
  <2>2. s[1].do \notin {"lock", "unlock"} /\ s[1].doc # Stale
        /\ (s[1].doc \in Document => key = LockOf[s[1].doc])
    BY <1>1, <2>1 DEF Locks, NoDoc, Document
  <2>3. QED
    BY <1>4, <2>1, <2>2 DEF Phased
<1>5. QED
  BY <1>2, <1>3, <1>4 DEF Phased

\* A handler keeps its case of Phased, whatever the others do.
LEMMA DocInvariant ==
  ASSUME Base, Exclusive, [Next]_vars, \A s \in R : DocOK(s),
         NEW r \in R, InEvery(SharesUnderLock, HandlersOf(r))
  PROVE  DocOK(r)'
<1> DEFINE Same == op'[r] = op[r] /\ todo'[r] = todo[r] /\ held'[r] = held[r] /\ copy'[r] = copy[r]
<1>1. TypeOK /\ DocOK(r)
  BY DEF Base
<1>2. Same => DocOK(r)'
  BY <1>1 DEF DocOK
<1>3. ASSUME NEW key, NEW doc PROVE Phased(<<>>, key, doc)
  BY DEF Phased, NoneShared
<1>4. CASE Crash
  BY <1>4 DEF Crash, DocOK
<1>5. ASSUME NEW s \in R, Return(s) PROVE DocOK(r)'
  <2>1. CASE s = r
    BY <1>1, <1>5, <2>1 DEF Return, DocOK, TypeOK
  <2>2. CASE s # r
    BY <1>1, <1>2, <1>5, <2>2 DEF Return, TypeOK
  <2>3. QED
    BY <2>1, <2>2
<1>6. ASSUME NEW s \in R, Running(s)
      PROVE  /\ op[s] # Idle /\ todo[s] \in Seq(StepType) /\ todo[s] # <<>>
             /\ Cur(s) = todo[s][1] /\ Phased(todo[s], held[s].key, copy[s])
  BY <1>6, InState, CurType DEF DocOK, TypeOK, Running, Base
<1>7. ASSUME NEW s \in R, LockStep(s) \/ UnlockStep(s) PROVE DocOK(r)'
  <2>1. CASE s # r
    BY <1>1, <1>2, <1>7, <2>1 DEF LockStep, UnlockStep, TypeOK
  <2>2. CASE s = r
    <3>1. /\ Running(r) /\ op' = op /\ copy' = copy /\ todo'[r] = Tail(todo[r])
          /\ \/ Cur(r).do = "unlock"
             \/ Cur(r).do = "lock" /\ held'[r].key = KeyOf(Cur(r).key)
      BY <1>1, <1>7, <2>2 DEF LockStep, UnlockStep, At, TypeOK
    <3>2. KeyOf(Cur(r).key) = Cur(r).key \/ Cur(r).key \notin {LockOf[d] : d \in Document}
      <4>1. \A d \in Document : LockOf[d] \in {"group", "vapp", "acl"}
        BY DEF LockOf, Document
      <4>2. QED
        BY <4>1 DEF KeyOf
    <3>3. Phased(todo'[r], held'[r].key, copy'[r])
      BY <1>6, <3>1, <3>2, PhasedTail
    <3>4. QED
      BY <1>6, <3>1, <3>3 DEF DocOK
  <2>3. QED
    BY <2>1, <2>2
<1>8. ASSUME NEW s \in R, Step(s) \/ CallFails(s) \/ AnswerLost(s),
             ~Crash, ~Return(s), ~UnlockStep(s)
      PROVE  DocOK(r)'
  <2>1. /\ UNCHANGED <<held, op>> /\ Running(s) /\ Cur(s).do \notin Locks
        /\ todo'[s] = Tail(todo[s]) \/ todo'[s] = <<>>
        /\ \A q \in R \ {s} : todo'[q] = todo[q]
    BY <1>8, <1>1, HandlerLocal, HandlerShares, MoveTail DEF Base, Apart
  <2>2. \/ UNCHANGED copy
        \/ Cur(s).do = "fetch" /\ copy' = [copy EXCEPT ![s] = Cur(s).doc]
        \/ Cur(s).do \in Writes /\ Written(s)
    BY <1>8, <1>1, HandlerShares DEF At
  <2>3. CASE s = r
    <3>1. copy'[r] = copy[r] \/ (Cur(r).do = "fetch" /\ copy'[r] = Cur(r).doc)
      BY <1>1, <2>2, <2>3 DEF Written, TypeOK
    <3>2. Phased(todo'[r], held[r].key, copy'[r])
      BY <1>3, <1>6, <2>1, <2>3, <3>1, PhasedTail
    <3>3. QED
      BY <1>6, <2>1, <2>3, <3>2 DEF DocOK
  <2>4. CASE s # r
    <3>1. \/ copy'[r] = copy[r]
          \/ Cur(s).do \in Writes /\ copy[r] = Cur(s).doc /\ Cur(s).doc # NoDoc
      BY <1>1, <2>2, <2>4 DEF Written, TypeOK
    <3>2. CASE copy'[r] = copy[r]
      BY <1>2, <2>1, <2>4, <3>2
    <3>3. CASE Cur(s).do \in Writes /\ copy[r] = Cur(s).doc /\ Cur(s).doc # NoDoc
      <4>1. Cur(s).do # "lock" /\ Cur(s).doc \in Document
        BY <1>1, <2>1, <3>3, CurType DEF Locks
      <4>2. held[s].key = LockOf[Cur(s).doc]
        BY <1>6, <2>1, <3>3, <4>1, PhasedTail
      <4>3. held[r].key # LockOf[Cur(s).doc]
        <5>1. LockOf[Cur(s).doc] # NoLock.key
          BY <4>1 DEF LockOf, Document, NoLock
        <5>2. QED
          BY <2>4, <4>2, <5>1 DEF Exclusive
      <4>4. op[r] # Idle /\ Phased(todo[r], held[r].key, copy[r])
        BY <1>1, <3>3 DEF DocOK
      <4>5. NoneShared(todo[r])
        BY <3>3, <4>1, <4>3, <4>4 DEF Phased
      <4>6. QED
        BY <2>1, <2>4, <4>4, <4>5 DEF DocOK, Phased
    <3>4. QED
      BY <3>1, <3>2, <3>3
  <2>5. QED
    BY <2>3, <2>4
<1>9. ASSUME NEW s \in R, NEW o \in Operation, op[s] = Idle, Start(s, o) PROVE DocOK(r)'
  <2>1. CASE s = r
    <3>1. op'[r] = o /\ o # Idle /\ copy'[r] = NoDoc /\ todo'[r] = HandlersOf(r)[o]
      BY <1>1, <1>9, <2>1 DEF Start, DocOK, HandlersOf, Operation, Idle, TypeOK
    <3>2. QED
      BY <3>1 DEF DocOK, Phased, InEvery
  <2>2. CASE s # r
    BY <1>1, <1>2, <1>9, <2>2 DEF Start, TypeOK
  <2>3. QED
    BY <2>1, <2>2
<1>10. ASSUME NEW s \in R, Begin(s) \/ BeginImport(s) PROVE DocOK(r)'
  <2>1. PICK o \in Operation : op[s] = Idle /\ Start(s, o)
    <3>1. Begin(s) => Head(plan[s]) \in Operation
      BY DEF Begin, Base, PhaseOK, Plans, Operation
    <3>2. BeginImport(s) => op[s] = Idle
      BY DEF BeginImport, Base, PhaseOK
    <3>3. QED
      BY <1>10, <3>1, <3>2 DEF Begin, BeginImport, Operation
  <2>2. QED
    BY <1>9, <2>1
<1>11. CASE Refresh
  <2>1. op[r] = Idle
    BY <1>11 DEF Refresh, Base, PhaseOK
  <2>2. /\ copy'[r] = NoDoc
        /\ op'[r] = Idle \/ (op'[r] # Idle /\ todo'[r] = HandlersOf(r).read)
    BY <1>1, <1>11, <2>1 DEF Refresh, DocOK, HandlersOf, Idle
  <2>3. QED
    BY <2>2 DEF DocOK, Phased, InEvery, Operation
<1>12. ASSUME NEW s \in R, Edit(s) \/ LoseObject(s) PROVE DocOK(r)'
  BY <1>2, <1>12 DEF Edit, LoseObject, handler
<1>13. CASE LoseParent \/ Plan \/ EndRun \/ UNCHANGED vars
  BY <1>2, <1>13 DEF LoseParent, Plan, EndRun, vars, handler
<1>14. QED
  BY <1>4, <1>5, <1>7, <1>8, <1>10, <1>11, <1>12, <1>13 DEF Next

DocInv == \A r \in R : DocOK(r)

(* No write of a shared document undoes the write of another resource: the     *)
(* copy that it is made from is never stale.                                   *)
THEOREM NoUpdateLost ==
  ASSUME RuleKeeping = DOMAIN Handlers
  PROVE  Spec => []NoLostUpdate
<1>1. Init => DocInv /\ Exclusive
  BY DEF Init, DocInv, DocOK, Exclusive
<1>2. DocInv /\ Exclusive /\ Base /\ [Next]_vars => DocInv' /\ Exclusive'
  <2> SUFFICES ASSUME DocInv, Exclusive, Base, [Next]_vars
               PROVE  DocInv' /\ Exclusive'
    OBVIOUS
  <2>1. Exclusive'
    BY ExclusiveInvariant DEF Base
  <2>2. \A r \in R : DocOK(r)'
    BY DocInvariant, RuleKeepers DEF DocInv, Base
  <2>3. QED
    BY <2>1, <2>2, Unconfigured DEF DocInv
<1>3. DocInv /\ Base => NoLostUpdate
  <2> SUFFICES ASSUME DocInv, Base, NEW r \in R, At(r, Writes), Cur(r).doc # NoDoc
               PROVE  copy[r] # Stale
    BY DEF NoLostUpdate, WritesFresh
  <2>1. Running(r) /\ Cur(r).do # "lock"
    BY DEF At, Writes
  <2>2. /\ todo[r] \in Seq(StepType) /\ todo[r] # <<>> /\ Cur(r) = todo[r][1]
        /\ Phased(todo[r], held[r].key, copy[r])
    BY <2>1, InState, CurType DEF DocInv, DocOK, Base, TypeOK, Running
  <2>3. QED
    BY <2>1, <2>2, PhasedTail
<1>4. QED
  BY <1>1, <1>2, <1>3, BaseCorrect, PTL DEF Spec
-------------------------------------------------------------------------------
(* Locks are asked for one at a time.                                          *)

\* Locks and unlocks still take turns in the tail of a list.
LEMMA AlternateTail ==
  ASSUME NEW s \in Seq(StepType), s # <<>>, NEW holding \in BOOLEAN, Alternate(s, holding)
  PROVE  /\ s[1].do \notin Locks => Alternate(Tail(s), holding)
         /\ s[1].do = "lock" => ~holding /\ Alternate(Tail(s), TRUE)
         /\ s[1].do = "unlock" => holding /\ Alternate(Tail(s), FALSE)
<1> DEFINE t == Tail(s)
           Earlier(q, n) == {i \in 1 .. n - 1 : q[i].do \in Locks}
<1>1. /\ Len(s) \in Nat /\ Len(s) > 0 /\ Len(t) = Len(s) - 1
      /\ \A i \in 1 .. Len(s) - 1 : t[i] = s[i + 1]
  BY HeadTail
<1>2. ASSUME NEW n \in 1 .. Len(t), t[n].do \in Locks
      PROVE  /\ \A i \in Earlier(t, n) :
                    (\A j \in i + 1 .. n - 1 : j \notin Earlier(t, n)) => t[i].do # t[n].do
             /\ Earlier(t, n) = {} =>
                    IF s[1].do \in Locks THEN t[n].do # s[1].do
                    ELSE t[n].do = IF holding THEN "unlock" ELSE "lock"
  <2>1. n + 1 \in 1 .. Len(s) /\ s[n + 1] = t[n]
    BY <1>1
  <2>2. /\ Earlier(s, n + 1) = {} => s[n + 1].do = IF holding THEN "unlock" ELSE "lock"
        /\ \A i \in Earlier(s, n + 1) :
              (\A j \in i + 1 .. n : j \notin Earlier(s, n + 1)) => s[i].do # s[n + 1].do
    <3>1. /\ Earlier(s, n + 1) = {} => s[n + 1].do = IF holding THEN "unlock" ELSE "lock"
          /\ \A i \in Earlier(s, n + 1) :
               (\A j \in i + 1 .. (n + 1) - 1 : j \notin Earlier(s, n + 1)) => s[i].do # s[n + 1].do
      BY <1>2, <2>1 DEF Alternate
    <3>2. (n + 1) - 1 = n
      OBVIOUS
    <3>3. QED
      BY <3>1, <3>2
  <2>3. \A i \in 1 .. n - 1 : i + 1 \in 1 .. n /\ t[i] = s[i + 1]
    BY <1>1
  <2>4. \A i \in Nat : i + 1 \in Earlier(s, n + 1) /\ i # 0 <=> i \in Earlier(t, n)
    BY <2>3
  <2>5. ASSUME NEW i \in Earlier(t, n), \A j \in i + 1 .. n - 1 : j \notin Earlier(t, n)
        PROVE  t[i].do # t[n].do
    <3>1. i + 1 \in Earlier(s, n + 1)
      BY <2>4
    <3>2. ASSUME NEW j \in (i + 1) + 1 .. n PROVE j \notin Earlier(s, n + 1)
      <4>1. j - 1 \in i + 1 .. n - 1 /\ (j - 1) + 1 = j /\ j - 1 \in Nat /\ j - 1 # 0
        OBVIOUS
      <4>2. QED
        BY <2>4, <2>5, <4>1
    <3>3. QED
      BY <2>1, <2>2, <2>3, <3>1, <3>2
  <2>6. ASSUME Earlier(t, n) = {} PROVE \A j \in 2 .. n : j \notin Earlier(s, n + 1)
    <3>1. ASSUME NEW j \in 2 .. n PROVE j \notin Earlier(s, n + 1)
      <4>1. (j - 1) + 1 = j /\ j - 1 \in Nat /\ j - 1 # 0
        OBVIOUS
      <4>2. QED
        BY <2>4, <2>6, <4>1
    <3>2. QED
      BY <3>1
  <2>7. ASSUME Earlier(t, n) = {}, s[1].do \in Locks PROVE t[n].do # s[1].do
    <3>1. 1 \in Earlier(s, n + 1)
      BY <2>7
    <3>2. QED
      BY <2>1, <2>2, <2>6, <2>7, <3>1
  <2>8. ASSUME Earlier(t, n) = {}, s[1].do \notin Locks
        PROVE  t[n].do = IF holding THEN "unlock" ELSE "lock"
    <3>1. Earlier(s, n + 1) = {}
      BY <2>6, <2>8
    <3>2. QED
      BY <2>1, <2>2, <3>1
  <2>9. QED
    BY <2>5, <2>7, <2>8
<1>3. s[1].do \in Locks => s[1].do = IF holding THEN "unlock" ELSE "lock"
  BY <1>1 DEF Alternate
<1>4. s[1].do \notin Locks => Alternate(t, holding)
  BY <1>2 DEF Alternate
<1>5. ASSUME s[1].do = "lock" PROVE Alternate(t, TRUE)
  <2>1. \A n \in 1 .. Len(t) : t[n].do \in Locks /\ t[n].do # s[1].do
            => t[n].do = IF TRUE THEN "unlock" ELSE "lock"
    BY <1>5 DEF Locks
  <2>2. s[1].do \in Locks
    BY <1>5 DEF Locks
  <2>3. QED
    BY <1>2, <2>1, <2>2 DEF Alternate
<1>6. ASSUME s[1].do = "unlock" PROVE Alternate(t, FALSE)
  <2>1. \A n \in 1 .. Len(t) : t[n].do \in Locks /\ t[n].do # s[1].do
            => t[n].do = IF FALSE THEN "unlock" ELSE "lock"
    BY <1>6 DEF Locks
  <2>2. s[1].do \in Locks
    BY <1>6 DEF Locks
  <2>3. QED
    BY <1>2, <2>1, <2>2 DEF Alternate
<1>7. QED
  BY <1>3, <1>4, <1>5, <1>6 DEF Locks

(* What is left of a handler unlocks what it has locked, and then takes the    *)
(* next lock.                                                                  *)
TurnOK(r) ==
    IF op[r] = Idle THEN held[r] = NoLock
    ELSE Alternate(todo[r], TRUE) \/ (Alternate(todo[r], FALSE) /\ held[r] = NoLock)

\* What is left of a handler begins with the unlock exactly while it holds a lock.
LEMMA TurnInvariant ==
  ASSUME Base, [Next]_vars, NEW r \in R, InEvery(LocksInTurn, HandlersOf(r)), TurnOK(r)
  PROVE  TurnOK(r)'
<1>1. TypeOK /\ \A holding : Alternate(<<>>, holding)
  BY DEF Base, Alternate
<1>2. CASE Crash
  BY <1>2 DEF Crash, TurnOK
<1>3. ASSUME NEW s \in R, LockStep(s) \/ UnlockStep(s) PROVE TurnOK(r)'
  <2>1. op' = op /\ (s # r => todo'[r] = todo[r] /\ held'[r] = held[r])
    BY <1>1, <1>3 DEF LockStep, UnlockStep, TypeOK
  <2>2. CASE s # r
    BY <2>1, <2>2 DEF TurnOK
  <2>3. CASE s = r
    <3>1. /\ Running(r) /\ todo'[r] = Tail(todo[r])
          /\ \/ Cur(r).do = "lock"
             \/ Cur(r).do = "unlock" /\ held'[r] = NoLock
      BY <1>1, <1>3, <2>3 DEF LockStep, UnlockStep, At, TypeOK
    <3>2. /\ op[r] # Idle /\ todo[r] \in Seq(StepType) /\ todo[r] # <<>>
          /\ Cur(r) = todo[r][1]
      BY <3>1, InState, CurType DEF Base, TypeOK, Running
    <3>3. /\ Cur(r).do = "lock" => Alternate(Tail(todo[r]), TRUE)
          /\ Cur(r).do = "unlock" => Alternate(Tail(todo[r]), FALSE)
      BY <3>2, AlternateTail DEF TurnOK
    <3>4. QED
      BY <2>1, <3>1, <3>2, <3>3 DEF TurnOK
  <2>4. QED
    BY <2>2, <2>3
<1>4. ASSUME NEW s \in R, ~Crash, ~Return(s), ~UnlockStep(s),
             Step(s) \/ CallFails(s) \/ AnswerLost(s)
      PROVE  TurnOK(r)'
  <2>1. /\ UNCHANGED <<held, op>> /\ Running(s) /\ Cur(s).do \notin Locks
        /\ todo'[s] = Tail(todo[s]) \/ todo'[s] = <<>>
        /\ s # r => todo'[r] = todo[r]
    BY <1>4, <1>1, HandlerLocal, HandlerShares, MoveTail DEF Base, Apart
  <2>2. CASE s # r
    BY <2>1, <2>2 DEF TurnOK
  <2>3. CASE s = r
    <3>1. /\ op[r] # Idle /\ todo[r] \in Seq(StepType) /\ todo[r] # <<>>
          /\ Cur(r) = todo[r][1]
      BY <2>1, <2>3, InState, CurType DEF Base, TypeOK, Running
    <3>2. \A holding \in BOOLEAN : Alternate(todo[r], holding) => Alternate(todo'[r], holding)
      BY <1>1, <2>1, <2>3, <3>1, AlternateTail
    <3>3. QED
      BY <2>1, <3>1, <3>2 DEF TurnOK
  <2>4. QED
    BY <2>2, <2>3
<1>5. ASSUME NEW s \in R, Return(s) PROVE TurnOK(r)'
  BY <1>1, <1>5 DEF Return, TurnOK, TypeOK
<1>6. ASSUME NEW s \in R, Begin(s) \/ BeginImport(s) PROVE TurnOK(r)'
  <2>1. PICK o \in Operation : op[s] = Idle /\ Start(s, o)
    <3>1. Begin(s) => Head(plan[s]) \in Operation
      BY DEF Begin, Base, PhaseOK, Plans, Operation
    <3>2. BeginImport(s) => op[s] = Idle
      BY DEF BeginImport, Base, PhaseOK
    <3>3. QED
      BY <1>6, <3>1, <3>2 DEF Begin, BeginImport, Operation
  <2>2. CASE s = r
    <3>1. held[r] = NoLock /\ held' = held /\ op'[r] = o /\ todo'[r] = HandlersOf(r)[o]
      BY <1>1, <2>1, <2>2 DEF Start, TurnOK, HandlersOf, TypeOK
    <3>2. Alternate(todo'[r], FALSE)
      BY <3>1 DEF InEvery, LocksInTurn
    <3>3. QED
      BY <3>1, <3>2 DEF TurnOK
  <2>3. CASE s # r
    BY <1>1, <2>1, <2>3 DEF Start, TurnOK, TypeOK
  <2>4. QED
    BY <2>2, <2>3
<1>7. CASE Refresh
  <2>1. held[r] = NoLock /\ held' = held
    BY <1>7 DEF Refresh, Base, PhaseOK, TurnOK
  <2>2. op'[r] # Idle => todo'[r] = HandlersOf(r).read
    BY <1>7 DEF Refresh, HandlersOf
  <2>3. Alternate(HandlersOf(r).read, FALSE)
    BY DEF InEvery, LocksInTurn, Operation
  <2>4. QED
    BY <2>1, <2>2, <2>3 DEF TurnOK
<1>8. ASSUME NEW s \in R, Edit(s) \/ LoseObject(s) PROVE TurnOK(r)'
  BY <1>8 DEF Edit, LoseObject, handler, TurnOK
<1>9. CASE LoseParent \/ Plan \/ EndRun \/ UNCHANGED vars
  BY <1>9 DEF LoseParent, Plan, EndRun, vars, handler, TurnOK
<1>10. QED
  BY <1>2, <1>3, <1>4, <1>5, <1>6, <1>7, <1>8, <1>9 DEF Next

TurnInv == \A r \in R : TurnOK(r)

(* r is at a lock that s holds.                                                *)
WaitsFor(r, s) ==
    At(r, {"lock"}) /\ held[s].key # NoLock.key /\ held[s].key = KeyOf(Cur(r).key)

(* Whoever holds a lock that is waited for is not waiting itself: there is no  *)
(* chain of waits, so no circle, and no handler that waits for itself.         *)
HoldersGoOn == \A r, s \in R : WaitsFor(r, s) => ~At(s, {"lock"})

(* The handlers do not lock each other out, in whatever order they run and     *)
(* wherever they fail, since none asks for a lock while it holds one, and none *)
(* calls another that does (vcdMutexKV in the handlers of vcd/).               *)
THEOREM NoHandlerDeadlock ==
  ASSUME RuleKeeping = DOMAIN Handlers
  PROVE  Spec => []HoldersGoOn
<1>1. Init => TurnInv
  BY DEF Init, TurnInv, TurnOK
<1>2. TurnInv /\ Base /\ [Next]_vars => TurnInv'
  <2> SUFFICES ASSUME TurnInv, Base, [Next]_vars, NEW r \in R PROVE TurnOK(r)'
    BY Unconfigured DEF TurnInv
  <2>1. InEvery(LocksInTurn, HandlersOf(r))
    BY RuleKeepers DEF Base
  <2>2. QED
    BY <2>1, TurnInvariant DEF TurnInv
<1>3. TurnInv /\ Base => HoldersGoOn
  <2> SUFFICES ASSUME TurnInv, Base, NEW s \in R, At(s, {"lock"}) PROVE held[s] = NoLock
    BY DEF HoldersGoOn, WaitsFor
  <2>1. /\ op[s] # Idle /\ todo[s] \in Seq(StepType) /\ todo[s] # <<>>
        /\ todo[s][1].do = "lock"
    BY InState, CurType DEF Base, TypeOK, Running, At
  <2>2. ~Alternate(todo[s], TRUE)
    BY <2>1, AlternateTail
  <2>3. QED
    BY <2>1, <2>2 DEF TurnInv, TurnOK
<1>4. QED
  BY <1>1, <1>2, <1>3, BaseCorrect, PTL DEF Spec
-------------------------------------------------------------------------------
(* Losses are forgiven.                                                        *)

\* A head that notices a loss clears the ID; after any other head the tail will.
LEMMA NoticesTail ==
  ASSUME NEW s \in Seq(StepType), s # <<>>, NEW noticing, Notices(s, noticing)
  PROVE  /\ s[1].do \in noticing => s[1].miss = Forget
         /\ s[1].do \notin noticing => Notices(Tail(s), noticing)
<1>1. /\ Len(s) \in Nat /\ Len(s) > 0 /\ Len(Tail(s)) = Len(s) - 1
      /\ \A i \in 1 .. Len(s) - 1 : Tail(s)[i] = s[i + 1]
  BY HeadTail
<1>2. s[1].do \in noticing => s[1].miss = Forget
  BY <1>1 DEF Notices
<1>3. ASSUME s[1].do \notin noticing, NEW i \in 1 .. Len(Tail(s)), Tail(s)[i].do \in noticing,
             \A j \in 1 .. i - 1 : Tail(s)[j].do \notin noticing
      PROVE  Tail(s)[i].miss = Forget
  <2>1. i + 1 \in 1 .. Len(s) /\ s[i + 1] = Tail(s)[i]
    BY <1>1
  <2>2. ASSUME NEW j \in 1 .. (i + 1) - 1 PROVE s[j].do \notin noticing
    <3>1. CASE j = 1
      BY <1>3, <3>1
    <3>2. CASE j # 1
      <4>1. j - 1 \in 1 .. i - 1 /\ (j - 1) + 1 = j /\ j - 1 \in 1 .. Len(s) - 1
        BY <1>1, <3>2
      <4>2. QED
        BY <1>1, <1>3, <4>1
    <3>3. QED
      BY <3>1, <3>2
  <2>3. QED
    BY <1>3, <2>1, <2>2 DEF Notices
<1>4. QED
  BY <1>2, <1>3 DEF Notices

\* If a list writes nothing, neither do its head and its tail.
LEMMA NothingWrittenTail ==
  ASSUME NEW s \in Seq(StepType), s # <<>>, \A i \in 1 .. Len(s) : s[i].do \notin Writes
  PROVE  /\ s[1].do \notin Writes
         /\ \A i \in 1 .. Len(Tail(s)) : Tail(s)[i].do \notin Writes
<1>1. /\ Len(s) \in Nat /\ Len(s) > 0 /\ Len(Tail(s)) = Len(s) - 1
      /\ \A i \in 1 .. Len(s) - 1 : Tail(s)[i] = s[i + 1]
  BY HeadTail
<1>2. QED
  BY <1>1

\* A step that is not the head is in the tail.
LEMMA SomeTail ==
  ASSUME NEW s \in Seq(StepType), s # <<>>, NEW goal,
         \E n \in 1 .. Len(s) : s[n].do \in goal
  PROVE  s[1].do \in goal \/ \E n \in 1 .. Len(Tail(s)) : Tail(s)[n].do \in goal
<1>1. /\ Len(s) \in Nat /\ Len(s) > 0 /\ Len(Tail(s)) = Len(s) - 1
      /\ \A i \in 1 .. Len(s) - 1 : Tail(s)[i] = s[i + 1]
  BY HeadTail
<1>2. PICK n \in 1 .. Len(s) : s[n].do \in goal
  OBVIOUS
<1>3. CASE n # 1
  <2>1. n - 1 \in 1 .. Len(s) - 1 /\ (n - 1) + 1 = n
    BY <1>1, <1>3
  <2>2. QED
    BY <1>1, <1>2, <2>1
<1>4. QED
  BY <1>2, <1>3

(* Read has seen the object as it is, or is going to look.                     *)
Sees(r) ==
    /\ (\E n \in 1 .. Len(todo[r]) : todo[r][n].do \in Looks) \/ seen[r] = remote[r]
    /\ \/ \E n \in 1 .. Len(todo[r]) : todo[r][n].do \in OfObject
       \/ remote[r] # Absent \/ OnlySettings(HandlersOf(r).read)

(* A Read has had no error, the first of its next steps to notice what is gone *)
(* forgets it, and otherwise what Read has seen is true.                       *)
ReadGoesOn(r) ==
    /\ ~err[r]
    /\ remote[r] = Absent => Notices(todo[r], OfObject)
    /\ ~parentUp => Notices(todo[r], OfParent)
    /\ ~outerUp => Notices(todo[r], OfOuter)
    /\ \A i \in 1 .. Len(todo[r]) : todo[r][i].do \notin Writes
    /\ (~id[r] /\ todo[r] = <<>>) \/ Sees(r)

ForgivenOK(r) == op[r] = "read" => ReadGoesOn(r)

(* What one step does to a Read that goes on when nothing fails any more.      *)
LEMMA ReadStep ==
  ASSUME Base, mishaps = 0, NEW r \in R, op[r] = "read", ReadGoesOn(r), ~Crash, ~Return(r),
         Step(r) \/ LockStep(r) \/ CallFails(r) \/ AnswerLost(r)
  PROVE  ReadGoesOn(r)'
<1>1. TypeOK /\ ParentOK /\ (~outerUp => ~parentUp) /\ (~parentUp => remote[r] = Absent)
  BY DEF Base, ParentOK
<1>2. /\ Running(r) /\ UNCHANGED <<parentUp, outerUp>>
      /\ HandlersOf(r)' = HandlersOf(r)
  BY <1>1, HandlerLocal DEF Unmoved, config, HandlersOf
<1>3. /\ todo[r] \in Seq(StepType) /\ todo[r] # <<>> /\ Cur(r) = todo[r][1]
      /\ todo[r][1].do \notin Writes
      /\ \A i \in 1 .. Len(Tail(todo[r])) : Tail(todo[r])[i].do \notin Writes
  BY <1>1, <1>2, CurType, NothingWrittenTail DEF TypeOK, Running, ReadGoesOn
<1>4. \A noticing : Notices(todo[r], noticing) =>
        /\ Cur(r).do \in noticing => Cur(r).miss = Forget
        /\ Cur(r).do \notin noticing => Notices(Tail(todo[r]), noticing)
  BY <1>3, NoticesTail
<1>5. /\ \/ Cur(r).do \in Looks
         \/ \E n \in 1 .. Len(Tail(todo[r])) : Tail(todo[r])[n].do \in Looks
         \/ seen[r] = remote[r]
      /\ \/ Cur(r).do \in OfObject
         \/ \E n \in 1 .. Len(Tail(todo[r])) : Tail(todo[r])[n].do \in OfObject
         \/ remote[r] # Absent \/ OnlySettings(HandlersOf(r).read)
  <2>1. Sees(r)
    BY <1>3 DEF ReadGoesOn
  <2>2. QED
    BY <1>3, <2>1, SomeTail DEF Sees
<1>6. ASSUME todo'[r] = Tail(todo[r]), err'[r] = err[r], remote'[r] = remote[r],
             /\ remote[r] = Absent => Cur(r).do \notin OfObject
             /\ ~parentUp => Cur(r).do \notin OfParent
             /\ ~outerUp => Cur(r).do \notin OfOuter
             /\ seen'[r] = remote[r] \/ (seen'[r] = seen[r] /\ Cur(r).do \notin Looks)
             /\ Cur(r).do \in OfObject => remote[r] # Absent
      PROVE  ReadGoesOn(r)'
  <2>1. Sees(r)'
    BY <1>2, <1>5, <1>6 DEF Sees
  <2>2. QED
    BY <1>2, <1>3, <1>4, <1>6, <2>1 DEF ReadGoesOn
<1>7. ASSUME Ends(r, Forget) PROVE ReadGoesOn(r)'
  <2>1. Take(r, Forget)
    BY <1>7 DEF Ends, Crash
  <2>2. todo'[r] = <<>> /\ err'[r] = FALSE /\ id'[r] = FALSE
    BY <1>1, <2>1 DEF Take, Leave, TypeOK, Succeed, Forget, Error, ForgetAndFail, Ignore
  <2>3. \A noticing : Notices(<<>>, noticing)
    BY DEF Notices
  <2>4. QED
    BY <2>2, <2>3 DEF ReadGoesOn
<1>8. CASE AskStep(r)
  <2>1. /\ todo'[r] = Tail(todo[r]) /\ err'[r] = err[r] /\ remote'[r] = remote[r]
        /\ seen' = seen
        /\ \/ Cur(r).do = "ask"
           \/ Cur(r).do = "parent" /\ parentUp
           \/ Cur(r).do = "outer" /\ outerUp
    BY <1>1, <1>8 DEF AskStep, Passes, Advance, At, TypeOK
  <2>2. QED
    BY <1>1, <1>6, <2>1 DEF OfObject, OfParent, OfOuter, Looks
<1>9. CASE FindStep(r)
  <2>1. /\ todo'[r] = Tail(todo[r]) /\ err'[r] = err[r] /\ remote'[r] = remote[r]
        /\ remote[r] # Absent /\ seen'[r] = remote[r]
    BY <1>1, <1>9 DEF FindStep, Passes, Advance, At, TypeOK
  <2>2. QED
    BY <1>1, <1>6, <2>1
<1>10. CASE ObserveStep(r)
  <2>1. /\ todo'[r] = Tail(todo[r]) /\ err'[r] = err[r] /\ remote'[r] = remote[r]
        /\ Cur(r).do = "observe" /\ parentUp /\ seen'[r] = remote[r]
    BY <1>1, <1>10 DEF ObserveStep, Passes, Advance, At, TypeOK
  <2>2. QED
    BY <1>1, <1>6, <2>1 DEF OfObject
<1>11. CASE FetchStep(r)
  <2>1. /\ todo'[r] = Tail(todo[r]) /\ err'[r] = err[r] /\ remote'[r] = remote[r]
        /\ Cur(r).do = "fetch" /\ parentUp /\ seen' = seen
    BY <1>1, <1>11 DEF FetchStep, Passes, Advance, At, TypeOK
  <2>2. QED
    BY <1>1, <1>6, <2>1 DEF OfObject, Looks
<1>12. CASE IdStep(r) \/ LockStep(r) \/ UnlockStep(r)
  <2>1. /\ todo'[r] = Tail(todo[r]) /\ err'[r] = err[r] /\ remote'[r] = remote[r]
        /\ Cur(r).do \in {"setId", "clearId", "lock", "unlock"} /\ seen' = seen
    BY <1>1, <1>12 DEF IdStep, LockStep, UnlockStep, Passes, Advance, At, TypeOK
  <2>2. QED
    BY <1>6, <2>1 DEF OfObject, OfParent, OfOuter, Looks
<1>13. CASE NotFound(r)
  BY <1>4, <1>7, <1>13 DEF NotFound, At, ReadGoesOn, OfObject
<1>14. CASE ParentMissing(r)
  <2>1. /\ Ends(r, Cur(r).miss)
        /\ \/ Cur(r).do = "outer" /\ ~outerUp
           \/ Cur(r).do \in InParent /\ ~parentUp
    BY <1>14 DEF ParentMissing, At
  <2>2. \/ Cur(r).do \in OfOuter /\ ~outerUp
        \/ Cur(r).do \in OfParent /\ ~parentUp
    BY <1>3, <2>1 DEF InParent, OfOuter, OfParent, Writes
  <2>3. QED
    BY <1>4, <1>7, <2>1, <2>2 DEF ReadGoesOn
<1>15. CASE RefuseStep(r) \/ WriteStep(r)
  BY <1>3, <1>15 DEF RefuseStep, Refused, WriteStep, At, Writes
<1>16. CASE CallFails(r) \/ AnswerLost(r) \/ UnlockPanics(r)
  BY <1>16 DEF CallFails, AnswerLost, UnlockPanics
<1>17. QED
  BY <1>8, <1>9, <1>10, <1>11, <1>12, <1>13, <1>14, <1>15, <1>16 DEF Step

(* A handler looks at its own object only.                                     *)
LEMMA HandlerSees ==
  ASSUME TypeOK, NEW r \in R, NEW s \in R \ {r},
         Step(r) \/ LockStep(r) \/ CallFails(r) \/ AnswerLost(r)
  PROVE  seen'[s] = seen[s]
<1>1. CASE LockStep(r) \/ UnlockStep(r) \/ Return(r)
  BY <1>1 DEF LockStep, UnlockStep, Return
<1>2. CASE AskStep(r) \/ FindStep(r) \/ ObserveStep(r) \/ FetchStep(r) \/ WriteStep(r) \/ IdStep(r)
  BY <1>2 DEF AskStep, FindStep, ObserveStep, FetchStep, WriteStep, IdStep, TypeOK
<1>3. CASE NotFound(r) \/ RefuseStep(r) \/ ParentMissing(r) \/ CallFails(r)
  BY <1>3 DEF NotFound, RefuseStep, ParentMissing, CallFails, Ends, Crash
<1>4. CASE AnswerLost(r) \/ UnlockPanics(r)
  BY <1>4 DEF AnswerLost, UnlockPanics, Crash
<1>5. QED
  BY <1>1, <1>2, <1>3, <1>4 DEF Step

(* No step of a handler makes up a mishap.                                     *)
LEMMA HandlerMishaps ==
  ASSUME TypeOK, mishaps = 0, NEW r \in R,
         Step(r) \/ LockStep(r) \/ CallFails(r) \/ AnswerLost(r)
  PROVE  mishaps' = 0
<1>1. CASE LockStep(r) \/ UnlockStep(r) \/ Return(r)
  BY <1>1 DEF LockStep, UnlockStep, Return
<1>2. CASE AskStep(r) \/ FindStep(r) \/ ObserveStep(r) \/ FetchStep(r) \/ WriteStep(r) \/ IdStep(r)
  BY <1>2 DEF AskStep, FindStep, ObserveStep, FetchStep, WriteStep, IdStep, Passes
<1>3. CASE NotFound(r) \/ RefuseStep(r) \/ ParentMissing(r)
  BY <1>3 DEF NotFound, RefuseStep, ParentMissing
<1>4. CASE CallFails(r) \/ AnswerLost(r) \/ UnlockPanics(r)
  BY <1>4 DEF CallFails, AnswerLost, UnlockPanics
<1>5. QED
  BY <1>1, <1>2, <1>3, <1>4 DEF Step

\* A Read fails over nothing but a loss, and clears the ID for it.
LEMMA ForgivenInvariant ==
  ASSUME Base, mishaps = 0, [Next]_vars
  PROVE  /\ mishaps' = 0
         /\ \A r \in R : ForgivesLoss(HandlersOf(r).read) /\ ForgivenOK(r) => ForgivenOK(r)'
<1> DEFINE Kept == \A r \in R :
             ForgivesLoss(HandlersOf(r).read) /\ ForgivenOK(r) => ForgivenOK(r)'
           Same(r) == /\ op'[r] = op[r] /\ todo'[r] = todo[r] /\ err'[r] = err[r]
                      /\ remote'[r] = remote[r] /\ seen'[r] = seen[r] /\ id'[r] = id[r]
                      /\ parentUp' = parentUp /\ outerUp' = outerUp
<1>1. TypeOK /\ ParentOK /\ PhaseOK /\ \A r \in R : HandlersOf(r)' = HandlersOf(r)
  BY Unconfigured DEF Base, HandlersOf
<1>2. \A r \in R : Same(r) => (ForgivenOK(r) => ForgivenOK(r)')
  BY <1>1 DEF ForgivenOK, ReadGoesOn, Sees
<1>3. \A r \in R : op'[r] # "read" => ForgivenOK(r)'
  BY DEF ForgivenOK
<1>4. ASSUME NEW s \in R, Step(s) \/ LockStep(s) \/ CallFails(s) \/ AnswerLost(s)
      PROVE  mishaps' = 0 /\ Kept
  <2>1. CASE Crash
    <3>1. \A r \in R : op'[r] # "read"
      BY <2>1 DEF Crash, Idle
    <3>2. mishaps' = 0
      BY <1>1, <1>4, HandlerMishaps
    <3>3. QED
      BY <1>3, <3>1, <3>2
  <2>2. CASE Return(s)
    <3>1. mishaps' = 0 /\ op'[s] # "read"
      BY <1>1, <2>2 DEF Return, Idle, TypeOK
    <3>2. \A r \in R \ {s} : Same(r)
      BY <1>1, <2>2 DEF Return, TypeOK
    <3>3. QED
      BY <1>2, <1>3, <3>1, <3>2
  <2>3. CASE ~Crash /\ ~Return(s)
    <3>1. /\ Apart(s) /\ UNCHANGED <<op, parentUp, outerUp>>
      BY <1>1, <1>4, <2>3, HandlerLocal DEF Unmoved
    <3>2. \A r \in R \ {s} : Same(r)
      BY <1>1, <1>4, <3>1, HandlerSees DEF Apart, Still
    <3>3. ForgivenOK(s) => ForgivenOK(s)'
      BY <1>4, <2>3, <3>1, ReadStep DEF ForgivenOK
    <3>4. mishaps' = 0
      BY <1>1, <1>4, HandlerMishaps
    <3>5. QED
      BY <1>2, <3>2, <3>3, <3>4
  <2>4. QED
    BY <2>1, <2>2, <2>3
<1>5. ASSUME NEW s \in R, Begin(s) \/ BeginImport(s) PROVE mishaps' = 0 /\ Kept
  <2>1. PICK o \in Operation \ {"read"} : Start(s, o) /\ UNCHANGED world
    <3>1. Begin(s) => Head(plan[s]) \in Operation \ {"read"}
      BY <1>1 DEF Begin, PhaseOK, Plans, Operation
    <3>2. QED
      BY <1>5, <3>1 DEF Begin, BeginImport, Operation
  <2>2. mishaps' = 0 /\ op'[s] # "read" /\ \A r \in R \ {s} : Same(r)
    BY <1>1, <2>1 DEF Start, world, TypeOK
  <2>3. QED
    BY <1>2, <1>3, <2>2
<1>6. CASE Refresh
  <2>1. ASSUME NEW r \in R, ForgivesLoss(HandlersOf(r).read), op'[r] = "read"
        PROVE  ReadGoesOn(r)'
    <3>1. err'[r] = FALSE /\ todo'[r] = HandlersOf(r).read
      BY <1>6, <2>1 DEF Refresh, HandlersOf, Idle
    <3>2. Writing = Writes
      BY DEF Writing, Writes, Makes, Sets, Removes
    <3>3. Sees(r)'
      BY <1>1, <2>1, <3>1 DEF ForgivesLoss, Sees, OnlySettings, OfObject
    <3>4. QED
      BY <2>1, <3>1, <3>2, <3>3 DEF ForgivesLoss, ReadGoesOn
  <2>2. mishaps' = 0
    BY <1>6 DEF Refresh, world
  <2>3. QED
    BY <2>1, <2>2 DEF ForgivenOK
<1>7. CASE Plan
  <2>1. mishaps' = 0 /\ \A r \in R : op'[r] = Idle
    BY <1>7 DEF Plan, Resting, handler
  <2>2. QED
    BY <1>3, <2>1 DEF Idle
<1>8. CASE EndRun \/ UNCHANGED vars \/ \E s \in R : Edit(s)
  BY <1>2, <1>8 DEF EndRun, vars, Edit, world, handler
<1>9. CASE LoseParent \/ \E s \in R : LoseObject(s)
  BY <1>9 DEF LoseParent, LoseObject
<1>10. QED
  BY <1>4, <1>5, <1>6, <1>7, <1>8, <1>9 DEF Next

ForgivenInv ==
    mishaps = 0 /\ \A r \in R : ForgivesLoss(HandlersOf(r).read) => ForgivenOK(r)

(* When nothing fails or disappears any more, no refresh fails, and so every   *)
(* one is followed by a plan: a Read answers a loss with an empty ID, not with *)
(* an error (the Read handlers of vcd/, CODING_GUIDELINES.md).                 *)
THEOREM ReadsForgiveLosses ==
  ASSUME RuleKeeping = DOMAIN Handlers
  PROVE  Spec => LossesAreForgiven
<1>1. Base /\ mishaps = 0 /\ phase = "idle" => ForgivenInv
  BY DEF Base, PhaseOK, ForgivenInv, ForgivenOK, Idle
<1>2. Base /\ ForgivenInv /\ [Next]_vars => ForgivenInv'
  <2> SUFFICES ASSUME Base, ForgivenInv, [Next]_vars PROVE ForgivenInv'
    OBVIOUS
  <2>1. /\ mishaps' = 0
        /\ \A r \in R : ForgivesLoss(HandlersOf(r).read) /\ ForgivenOK(r) => ForgivenOK(r)'
    BY ForgivenInvariant DEF ForgivenInv
  <2>2. QED
    BY <2>1, Unconfigured DEF ForgivenInv, HandlersOf
<1>3. Base /\ ForgivenInv => ReadsSucceed
  BY RuleKeepers DEF Base, ForgivenInv, ForgivenOK, ReadGoesOn, ReadsSucceed
<1>4. QED
  BY <1>1, <1>2, <1>3, BaseCorrect, PTL DEF Spec, LossesAreForgiven
-------------------------------------------------------------------------------
(* One apply is enough.                                                        *)

After(step, there) == step.do \in Makes \cup Sets \/ (there /\ step.do \notin Removes)

\* Whether there is an object at a step can be told from the tail, too.
LEMMA IsThereTail ==
  ASSUME NEW s \in Seq(StepType), s # <<>>, NEW there \in BOOLEAN, NEW n \in 1 .. Len(s)
  PROVE  IsThere(s, n + 1, there) <=> IsThere(Tail(s), n, After(s[1], there))
<1> DEFINE t == Tail(s)
           S(m) == \A i \in m .. n : s[i].do \notin Removes
           T(m) == \A i \in m .. n - 1 : t[i].do \notin Removes
           Made(q, m) == q[m].do \in Makes \cup Sets
<1>1. /\ Len(s) \in Nat /\ Len(s) > 0 /\ Len(t) = Len(s) - 1
      /\ \A i \in 1 .. Len(s) - 1 : t[i] = s[i + 1]
  BY HeadTail
<1>2. ASSUME NEW m \in 1 .. n PROVE S(m + 1) <=> T(m)
  <2>1. ASSUME S(m + 1), NEW i \in m .. n - 1 PROVE t[i].do \notin Removes
    <3>1. i + 1 \in m + 1 .. n /\ i \in 1 .. Len(s) - 1
      BY <1>1
    <3>2. QED
      BY <1>1, <2>1, <3>1
  <2>2. ASSUME T(m), NEW i \in m + 1 .. n PROVE s[i].do \notin Removes
    <3>1. i - 1 \in m .. n - 1 /\ (i - 1) + 1 = i /\ i - 1 \in 1 .. Len(s) - 1
      BY <1>1
    <3>2. QED
      BY <1>1, <2>2, <3>1
  <2>3. QED
    BY <2>1, <2>2
<1>3. S(1) <=> s[1].do \notin Removes /\ T(1)
  <2>1. S(1) <=> s[1].do \notin Removes /\ S(2)
    <3>1. \A i \in 1 .. n : i = 1 \/ i \in 2 .. n
      OBVIOUS
    <3>2. 1 \in 1 .. n /\ \A i \in 2 .. n : i \in 1 .. n
      OBVIOUS
    <3>3. QED
      BY <3>1, <3>2
  <2>2. S(1 + 1) <=> T(1)
    <3>1. 1 \in 1 .. n
      OBVIOUS
    <3>2. QED
      BY <1>2, <3>1
  <2>3. 1 + 1 = 2
    OBVIOUS
  <2>4. QED
    BY <2>1, <2>2, <2>3
<1>4. (\E m \in 1 .. n : Made(s, m) /\ S(m))
        <=> (Made(s, 1) /\ T(1)) \/ \E m \in 1 .. n - 1 : Made(t, m) /\ T(m)
  <2>1. Made(s, 1) => s[1].do \notin Removes
    BY DEF Makes, Sets, Removes
  <2>2. ASSUME NEW m \in 1 .. n, Made(s, m), S(m)
        PROVE  (Made(s, 1) /\ T(1)) \/ \E k \in 1 .. n - 1 : Made(t, k) /\ T(k)
    <3>1. CASE m = 1
      BY <1>3, <2>2, <3>1
    <3>2. CASE m # 1
      <4>1. m - 1 \in 1 .. n - 1 /\ (m - 1) + 1 = m /\ m - 1 \in 1 .. Len(s) - 1
        BY <3>2
      <4>2. Made(t, m - 1) /\ T(m - 1)
        BY <1>1, <1>2, <2>2, <4>1
      <4>3. QED
        BY <4>1, <4>2
    <3>3. QED
      BY <3>1, <3>2
  <2>3. ASSUME NEW m \in 1 .. n - 1, Made(t, m), T(m)
        PROVE  \E k \in 1 .. n : Made(s, k) /\ S(k)
    <3>1. m + 1 \in 1 .. n /\ m \in 1 .. Len(s) - 1 /\ m \in 1 .. n
      OBVIOUS
    <3>2. Made(s, m + 1) /\ S(m + 1)
      BY <1>1, <1>2, <2>3, <3>1
    <3>3. QED
      BY <3>1, <3>2
  <2>4. Made(s, 1) /\ T(1) => 1 \in 1 .. n /\ Made(s, 1) /\ S(1)
    BY <1>3, <2>1
  <2>5. QED
    BY <2>2, <2>3, <2>4
<1>5. IsThere(s, n + 1, there) <=> (there /\ S(1)) \/ \E m \in 1 .. n : Made(s, m) /\ S(m)
  <2>1. (n + 1) - 1 = n
    OBVIOUS
  <2>2. QED
    BY <2>1 DEF IsThere
<1>6. IsThere(t, n, After(s[1], there))
        <=> (After(s[1], there) /\ T(1)) \/ \E m \in 1 .. n - 1 : Made(t, m) /\ T(m)
  BY DEF IsThere
<1>7. QED
  BY <1>3, <1>4, <1>5, <1>6 DEF After

\* What is left of an operation still meets the object where it expects it.
LEMMA GoesThroughTail ==
  ASSUME NEW s \in Seq(StepType), s # <<>>, NEW there \in BOOLEAN, GoesThrough(s, there)
  PROVE  /\ s[1].miss # Ignore => /\ s[1].do \in NeedsObject => there
                                  /\ s[1].do \in Makes => ~there
         /\ GoesThrough(Tail(s), After(s[1], there))
         /\ IsThere(s, Len(s) + 1, there)
              => IsThere(Tail(s), Len(Tail(s)) + 1, After(s[1], there))
<1>1. /\ Len(s) \in Nat /\ Len(s) > 0 /\ Len(Tail(s)) = Len(s) - 1
      /\ \A i \in 1 .. Len(s) - 1 : Tail(s)[i] = s[i + 1]
  BY HeadTail
<1>2. IsThere(s, 1, there) <=> there
  BY DEF IsThere
<1>3. 1 \in 1 .. Len(s)
  BY <1>1
<1>4. ASSUME NEW n \in 1 .. Len(Tail(s)), Tail(s)[n].miss # Ignore
      PROVE  /\ Tail(s)[n].do \in NeedsObject => IsThere(Tail(s), n, After(s[1], there))
             /\ Tail(s)[n].do \in Makes => ~IsThere(Tail(s), n, After(s[1], there))
  <2>1. n \in 1 .. Len(s) /\ n + 1 \in 1 .. Len(s) /\ Tail(s)[n] = s[n + 1]
    BY <1>1
  <2>2. IsThere(s, n + 1, there) <=> IsThere(Tail(s), n, After(s[1], there))
    BY <2>1, IsThereTail
  <2>3. QED
    BY <1>4, <2>1, <2>2 DEF GoesThrough
<1>5. IsThere(s, Len(s) + 1, there)
        => IsThere(Tail(s), Len(Tail(s)) + 1, After(s[1], there))
  <2>1. Len(s) \in 1 .. Len(s) /\ Len(Tail(s)) + 1 = Len(s)
    BY <1>1
  <2>2. QED
    BY <2>1, IsThereTail
<1>6. QED
  BY <1>2, <1>3, <1>4, <1>5 DEF GoesThrough

(* What is left of an operation meets the object where it expects it, and none *)
(* where it makes one; Create and Update leave it there.                       *)
WorkGoesOn(r) ==
    LET there == remote[r] # Absent IN
    /\ ~err[r]
    /\ GoesThrough(todo[r], there)
    /\ op[r] # "delete" => desired[r] # Absent /\ IsThere(todo[r], Len(todo[r]) + 1, there)
    /\ op[r] = "delete" => \A n \in 1 .. Len(todo[r]) : todo[r][n].do \notin Finishes

(* What one step does to an operation when nothing fails any more.             *)
LEMMA WorkStep ==
  ASSUME Base, mishaps = 0, NEW r \in R, WorkGoesOn(r), parentUp, outerUp, ~Crash, ~Return(r),
         Step(r) \/ LockStep(r) \/ CallFails(r) \/ AnswerLost(r)
  PROVE  WorkGoesOn(r)'
<1> DEFINE s == todo[r]
           there == remote[r] # Absent
<1>1. TypeOK /\ ParentOK
  BY DEF Base
<1>2. Running(r) /\ UNCHANGED <<op, desired>>
  BY <1>1, HandlerLocal DEF Unmoved
<1>3. s \in Seq(StepType) /\ s # <<>> /\ Cur(r) = s[1]
  BY <1>1, <1>2, CurType DEF TypeOK, Running
<1>4. /\ Cur(r).miss # Ignore => /\ Cur(r).do \in NeedsObject => there
                                 /\ Cur(r).do \in Makes => ~there
      /\ GoesThrough(Tail(s), After(Cur(r), there))
      /\ IsThere(s, Len(s) + 1, there) => IsThere(Tail(s), Len(Tail(s)) + 1, After(Cur(r), there))
  BY <1>3, GoesThroughTail DEF WorkGoesOn
<1>5. op[r] = "delete" => /\ Cur(r).do \notin Finishes
                         /\ \A n \in 1 .. Len(Tail(s)) : Tail(s)[n].do \notin Finishes
  <2>1. /\ Len(s) \in Nat /\ Len(s) > 0 /\ Len(Tail(s)) = Len(s) - 1
        /\ \A i \in 1 .. Len(s) - 1 : Tail(s)[i] = s[i + 1]
    BY <1>3, HeadTail
  <2>2. 1 \in 1 .. Len(s) /\ \A i \in 1 .. Len(Tail(s)) : i + 1 \in 1 .. Len(s)
    BY <2>1
  <2>3. op[r] = "delete" => \A n \in 1 .. Len(s) : s[n].do \notin Finishes
    BY DEF WorkGoesOn
  <2>4. QED
    BY <1>3, <2>1, <2>2, <2>3
<1>6. ASSUME todo'[r] = Tail(s), err'[r] = err[r],
             (remote'[r] # Absent) = After(Cur(r), there)
      PROVE  WorkGoesOn(r)'
  <2>1. GoesThrough(todo'[r], remote'[r] # Absent)
    BY <1>4, <1>6
  <2>2. op[r] # "delete" => IsThere(todo'[r], Len(todo'[r]) + 1, remote'[r] # Absent)
    BY <1>4, <1>6 DEF WorkGoesOn
  <2>3. QED
    BY <1>2, <1>5, <1>6, <2>1, <2>2 DEF WorkGoesOn
<1>7. CASE AskStep(r) \/ FindStep(r) \/ ObserveStep(r) \/ FetchStep(r) \/ IdStep(r)
           \/ LockStep(r) \/ UnlockStep(r)
  <2>1. CASE LockStep(r) \/ UnlockStep(r)
    <3>1. /\ todo'[r] = Tail(s) /\ err'[r] = err[r] /\ remote'[r] = remote[r]
          /\ Cur(r).do \in {"lock", "unlock"}
      BY <1>1, <2>1 DEF LockStep, UnlockStep, At, TypeOK
    <3>2. QED
      BY <1>6, <3>1 DEF After, Makes, Sets, Removes
  <2>2. CASE AskStep(r) \/ FindStep(r) \/ ObserveStep(r) \/ FetchStep(r) \/ IdStep(r)
    <3>1. Passes(r) /\ remote' = remote
          /\ Cur(r).do \in {"ask", "parent", "outer", "find", "observe", "fetch", "setId",
                            "clearId"}
      BY <2>2 DEF AskStep, FindStep, ObserveStep, FetchStep, IdStep, At
    <3>2. todo'[r] = Tail(s) /\ err'[r] = err[r] /\ remote'[r] = remote[r]
      BY <1>1, <3>1 DEF Passes, Advance, TypeOK
    <3>3. QED
      BY <1>6, <3>1, <3>2 DEF After, Makes, Sets, Removes
  <2>3. QED
    BY <1>7, <2>1, <2>2
<1>8. CASE NotFound(r) \/ RefuseStep(r)
  <2>1. /\ Ends(r, Cur(r).miss)
        /\ \/ Cur(r).do \in NeedsObject /\ ~there
           \/ Cur(r).do \in Makes /\ there
    BY <1>8 DEF NotFound, RefuseStep, Refused, At, NeedsObject, Makes
  <2>2. Ends(r, Ignore)
    BY <1>4, <2>1
  <2>3. Take(r, Ignore) /\ remote' = remote
    BY <2>2 DEF Ends, Crash
  <2>4. todo'[r] = Tail(s) /\ err'[r] = err[r]
    BY <1>1, <2>3 DEF Take, Advance, TypeOK, Error, Forget, ForgetAndFail, Succeed, Ignore
  <2>5. After(Cur(r), there) = there
    BY <2>1 DEF After, Makes, Sets, Removes, NeedsObject
  <2>6. QED
    BY <1>6, <2>3, <2>4, <2>5
<1>9. CASE WriteStep(r)
  <2>1. /\ todo'[r] = Tail(s) /\ err'[r] = err[r] /\ remote'[r] = EffectOf(r)
        /\ Cur(r).do \in Writes /\ ~Refused(r) /\ Running(r)
    BY <1>1, <1>9 DEF WriteStep, Passes, Advance, Effect, At, TypeOK
  <2>2. CASE Cur(r).do \in Finishes
    <3>1. remote'[r] # Absent
      BY <1>5, <2>1, <2>2 DEF EffectOf, Finishes, WorkGoesOn
    <3>2. Cur(r).do = "change" => there
      BY <2>1 DEF Refused, At
    <3>3. After(Cur(r), there)
      BY <2>2, <3>2 DEF After, Finishes, Makes, Sets, Removes
    <3>4. QED
      BY <1>6, <2>1, <3>1, <3>3
  <2>3. CASE Cur(r).do \in Unfinished
    <3>1. remote'[r] # Absent
      BY <2>1, <2>3 DEF EffectOf, Unfinished, Mixed, Absent
    <3>2. Cur(r).do = "changePart" => there
      BY <2>1 DEF Refused, At
    <3>3. After(Cur(r), there)
      BY <2>3, <3>2 DEF After, Unfinished, Makes, Sets, Removes
    <3>4. QED
      BY <1>6, <2>1, <3>1, <3>3
  <2>4. CASE Cur(r).do \in Removes
    <3>1. remote'[r] = Absent /\ After(Cur(r), there) = FALSE
      BY <2>1, <2>4 DEF EffectOf, Removes, Makes, Sets, After
    <3>2. QED
      BY <1>6, <2>1, <3>1
  <2>5. CASE Cur(r).do \in {"powerOff", "powerOn", "parentOff", "parentBack"}
    <3>1. remote'[r] = remote[r] /\ After(Cur(r), there) = there
      BY <2>1, <2>5 DEF EffectOf, Removes, Makes, Sets, After
    <3>2. QED
      BY <1>6, <2>1, <3>1
  <2>6. QED
    BY <2>1, <2>2, <2>3, <2>4, <2>5 DEF Writes, Finishes, Unfinished, Removes
<1>10. CASE ParentMissing(r) \/ CallFails(r) \/ AnswerLost(r) \/ UnlockPanics(r)
  BY <1>10 DEF ParentMissing, CallFails, AnswerLost, UnlockPanics
<1>11. QED
  BY <1>7, <1>8, <1>9, <1>10 DEF Step
(* The object is there, or is settings, which need not be.                     *)
Ready(r) == remote[r] # Absent \/ OnlySettings(HandlersOf(r).read)

(* What Terraform has read is so, what it plans leads from there to what the   *)
(* user asked for, and what is left of the plan leads there from here.         *)
ApplyOK(r) ==
    /\ phase = "refresh" /\ op[r] = Idle /\ saved[r] # "none" => seen[r] = remote[r] /\ Ready(r)
    /\ phase = "apply" =>
         /\ parentUp /\ outerUp
         /\ plan[r] = <<>> => Settled(r)
         /\ plan[r] # <<>> => (desired[r] = Absent <=> plan[r] = <<"delete">>)
         /\ plan[r] = <<"update">> => saved[r] = "saved"
         /\ plan[r] # <<>> /\ op[r] = Idle =>
              IF Head(plan[r]) = "create" THEN remote[r] = Absent ELSE Ready(r)
         /\ op[r] # Idle => WorkGoesOn(r)

(* The rules that a kind keeps for it.                                         *)
Good(r) ==
    /\ TracksObject(HandlersOf(r)) /\ TellsTheTruth(HandlersOf(r))
    /\ ForgivesLoss(HandlersOf(r).read) /\ WorksAtOnce(HandlersOf(r))

\* The plan that is made from what Read has seen leads from there to the goal.
LEMMA PlanReady ==
  ASSUME Base, NEW r \in R, KnownOK(r), ApplyOK(r), Plan
  PROVE  ApplyOK(r)'
<1> SUFFICES ASSUME ~failed PROVE ApplyOK(r)'
  BY DEF Plan, ApplyOK
<1>1. /\ phase = "refresh" /\ op[r] = Idle /\ phase' = "apply" /\ op'[r] = Idle
      /\ parentUp' /\ outerUp' /\ plan'[r] = PlanOf(r)
      /\ UNCHANGED <<kind, desired, remote, saved, seen>>
  BY DEF Plan, Resting, config, handler
<1>2. saved[r] = "none" => remote[r] = Absent
  BY <1>1 DEF KnownOK, Base, PhaseOK, Idle
<1>3. saved[r] # "none" => seen[r] = remote[r] /\ Ready(r)
  BY <1>1 DEF ApplyOK
<1>4. Ready(r)' <=> Ready(r)
  BY <1>1 DEF Ready, HandlersOf
<1>5. Settled(r)' <=> Settled(r)
  BY <1>1 DEF Settled
<1>6. saved[r] \in {"none", "tainted", "saved"}
  BY DEF Base, TypeOK
<1>7. CASE desired[r] = Absent /\ saved[r] = "none"
  BY <1>1, <1>5, <1>7 DEF PlanOf, Settled, ApplyOK
<1>8. CASE desired[r] = Absent /\ saved[r] # "none"
  <2>1. plan'[r] = <<"delete">> /\ plan'[r] # <<>> /\ Head(plan'[r]) = "delete"
    BY <1>1, <1>8 DEF PlanOf
  <2>2. QED
    BY <1>1, <1>3, <1>4, <1>8, <2>1 DEF ApplyOK
<1>9. CASE desired[r] # Absent /\ saved[r] = "none"
  <2>1. plan'[r] = <<"create">> /\ plan'[r] # <<>> /\ Head(plan'[r]) = "create"
        /\ plan'[r] # <<"delete">> /\ plan'[r] # <<"update">>
    BY <1>1, <1>9 DEF PlanOf
  <2>2. QED
    BY <1>1, <1>2, <1>9, <2>1 DEF ApplyOK
<1>10. CASE desired[r] # Absent /\ saved[r] # "none"
  <2>1. \/ plan'[r] = <<>> /\ saved[r] = "saved" /\ desired[r] = seen[r]
        \/ plan'[r] = <<"update">> /\ saved[r] = "saved"
        \/ plan'[r] = <<"delete", "create">>
    BY <1>1, <1>10 DEF PlanOf
  <2>2. CASE plan'[r] = <<>> /\ saved[r] = "saved" /\ desired[r] = seen[r]
    BY <1>1, <1>3, <1>5, <1>10, <2>2 DEF ApplyOK, Settled
  <2>3. CASE plan'[r] = <<"update">> /\ saved[r] = "saved"
    <3>1. plan'[r] # <<>> /\ Head(plan'[r]) = "update" /\ plan'[r] # <<"delete">>
      BY <2>3
    <3>2. QED
      BY <1>1, <1>3, <1>4, <1>10, <2>3, <3>1 DEF ApplyOK
  <2>4. CASE plan'[r] = <<"delete", "create">>
    <3>1. plan'[r] # <<>> /\ Head(plan'[r]) = "delete" /\ plan'[r] # <<"delete">>
          /\ plan'[r] # <<"update">>
      BY <2>4
    <3>2. QED
      BY <1>1, <1>3, <1>4, <1>10, <2>4, <3>1 DEF ApplyOK
  <2>5. QED
    BY <2>1, <2>2, <2>3, <2>4
<1>11. QED
  BY <1>7, <1>8, <1>9, <1>10

\* An operation that returns has done its part of the plan.
LEMMA ReturnSettles ==
  ASSUME Base, NEW r \in R, DeleteOK(r), WorkOK(r), KnownOK(r), ForgivenOK(r), ApplyOK(r),
         Return(r)
  PROVE  ApplyOK(r)'
<1>1. /\ op[r] # Idle /\ todo[r] = <<>> /\ op'[r] = Idle /\ saved'[r] = SavedAfter(r)
      /\ plan'[r] = IF err[r] \/ plan[r] = <<>> THEN <<>> ELSE Tail(plan[r])
      /\ UNCHANGED <<kind, phase, desired, remote, seen, parentUp, outerUp>>
      /\ id[r] \in BOOLEAN /\ saved[r] \in {"none", "tainted", "saved"}
  BY DEF Return, Base, TypeOK, config
<1>2. Ready(r)' <=> Ready(r)
  BY <1>1 DEF Ready, HandlersOf
<1>3. CASE phase = "refresh"
  <2>1. op[r] = "read" /\ ReadGoesOn(r)
    BY <1>1, <1>3 DEF Base, PhaseOK, ForgivenOK
  <2>2. saved'[r] # "none" => id[r]
    BY <1>1, <2>1 DEF SavedAfter, ReadGoesOn
  <2>3. Sees(r) => seen[r] = remote[r] /\ Ready(r)
    BY <1>1 DEF Sees, Ready
  <2>4. QED
    BY <1>1, <1>2, <1>3, <2>1, <2>2, <2>3 DEF ReadGoesOn, ApplyOK
<1>4. CASE phase = "apply"
  <2>1. /\ plan[r] # <<>> /\ op[r] = Head(plan[r]) /\ plan[r] \in Plans
        /\ WorkGoesOn(r) /\ ~err[r] /\ parentUp /\ outerUp
        /\ desired[r] = Absent <=> plan[r] = <<"delete">>
        /\ plan[r] = <<"update">> => saved[r] = "saved"
    BY <1>1, <1>4 DEF Base, PhaseOK, ApplyOK, WorkGoesOn
  <2>2. ~Reaches(<<>>, 1, Removes, Makes) /\ ~Reaches(<<>>, 1, Finishes, Makes)
    BY DEF Reaches
  <2>3. CASE plan[r] = <<"create">> \/ plan[r] = <<"update">>
    <3>1. /\ op[r] \in {"create", "update"} /\ plan'[r] = <<>> /\ plan[r] # <<"delete">>
          /\ op[r] = "update" => saved[r] = "saved"
      <4>1. CASE plan[r] = <<"create">>
        BY <1>1, <2>1, <4>1
      <4>2. CASE plan[r] = <<"update">>
        BY <1>1, <2>1, <4>2
      <4>3. QED
        BY <2>3, <4>1, <4>2
    <3>2. remote[r] # Absent
      BY <1>1, <2>1, <3>1 DEF WorkGoesOn, IsThere
    <3>3. remote[r] = desired[r]
      BY <1>1, <2>1, <2>2, <3>1, <3>2 DEF WorkOK, Fails
    <3>4. id[r]
      BY <1>1, <3>1, <3>2 DEF KnownOK
    <3>5. saved'[r] = "saved"
      BY <1>1, <2>1, <3>1, <3>4 DEF SavedAfter
    <3>6. Settled(r)'
      BY <1>1, <3>2, <3>3, <3>5 DEF Settled
    <3>7. op'[r] = Idle /\ phase' = "apply" /\ parentUp' /\ outerUp'
      BY <1>1, <1>4, <2>1
    <3>8. plan'[r] # <<"update">>
      BY <3>1
    <3>9. QED
      BY <3>1, <3>6, <3>7, <3>8 DEF ApplyOK
  <2>4. CASE plan[r] = <<"delete">> \/ plan[r] = <<"delete", "create">>
    <3>1. op[r] = "delete"
      BY <2>1, <2>4
    <3>2. remote[r] = Absent /\ saved'[r] = "none"
      BY <1>1, <2>1, <2>2, <3>1 DEF DeleteOK, Fails, SavedAfter
    <3>3. CASE plan[r] = <<"delete">>
      <4>1. plan'[r] = <<>> /\ desired'[r] = Absent
        BY <1>1, <2>1, <3>3
      <4>2. Settled(r)'
        BY <3>2, <4>1 DEF Settled
      <4>3. op'[r] = Idle /\ phase' = "apply" /\ parentUp' /\ outerUp'
        BY <1>1, <1>4, <2>1
      <4>4. plan'[r] # <<"update">>
        BY <4>1
      <4>5. QED
        BY <4>1, <4>2, <4>3, <4>4 DEF ApplyOK
    <3>4. CASE plan[r] = <<"delete", "create">>
      <4>1. /\ plan'[r] = <<"create">> /\ plan'[r] # <<>> /\ Head(plan'[r]) = "create"
            /\ plan'[r] # <<"delete">> /\ plan'[r] # <<"update">>
            /\ desired'[r] # Absent /\ remote'[r] = Absent
        BY <1>1, <2>1, <3>2, <3>4
      <4>2. QED
        BY <1>1, <1>4, <2>1, <4>1 DEF ApplyOK
    <3>5. QED
      BY <2>4, <3>3, <3>4
  <2>5. QED
    BY <2>1, <2>3, <2>4 DEF Plans
<1>5. QED
  BY <1>1, <1>3, <1>4 DEF ApplyOK

\* The next operation of the plan begins where its handler can go through.
LEMMA BeginWorks ==
  ASSUME Base, NEW r \in R, Good(r), ApplyOK(r), Begin(r)
  PROVE  ApplyOK(r)'
<1>1. /\ phase = "apply" /\ op[r] = Idle /\ plan[r] # <<>> /\ Start(r, Head(plan[r]))
      /\ UNCHANGED <<kind, phase, plan, saved, desired, remote, seen, parentUp, outerUp>>
      /\ plan[r] \in Plans
  BY DEF Begin, world, terraform, config, Base, PhaseOK
<1>2. PICK o \in {"create", "update", "delete"} : o = Head(plan[r])
  BY <1>1 DEF Plans
<1>3. op'[r] = o /\ todo'[r] = HandlersOf(r)[o] /\ err'[r] = FALSE
  BY <1>1, <1>2 DEF Start, HandlersOf, Base, TypeOK
<1>4. /\ desired[r] = Absent <=> plan[r] = <<"delete">>
      /\ IF o = "create" THEN remote[r] = Absent ELSE Ready(r)
      /\ o = "update" => HandlersOf(r).update # <<>>
  BY <1>1, <1>2 DEF ApplyOK, Base, PhaseOK, HandlersOf
<1>5. o # "delete" => desired[r] # Absent
  BY <1>1, <1>2, <1>4 DEF Plans
<1>6. Ready(r) => (remote[r] # Absent) \in {TRUE, ~OnlySettings(HandlersOf(r).read)}
  BY DEF Ready
<1>7. WorkGoesOn(r)'
  <2>1. CASE o = "create"
    BY <1>1, <1>3, <1>4, <1>5, <2>1 DEF Good, WorksAtOnce, LeavesObject, WorkGoesOn
  <2>2. CASE o = "update"
    <3>1. LeavesObject(HandlersOf(r).update, remote[r] # Absent)
      BY <1>4, <1>6, <2>2 DEF Good, WorksAtOnce
    <3>2. QED
      BY <1>1, <1>3, <1>5, <2>2, <3>1 DEF LeavesObject, WorkGoesOn
  <2>3. CASE o = "delete"
    <3>1. /\ GoesThrough(HandlersOf(r).delete, remote[r] # Absent)
          /\ \A n \in 1 .. Len(HandlersOf(r).delete) : HandlersOf(r).delete[n].do \notin Finishes
      BY <1>4, <1>6, <2>3 DEF Good, WorksAtOnce
    <3>2. QED
      BY <1>1, <1>3, <2>3, <3>1 DEF WorkGoesOn
  <2>4. QED
    BY <1>2, <2>1, <2>2, <2>3
<1>8. op'[r] # Idle
  BY <1>2, <1>3 DEF Idle
<1>9. Settled(r)' <=> Settled(r)
  BY <1>1 DEF Settled
<1>10. QED
  BY <1>1, <1>7, <1>8, <1>9 DEF ApplyOK

\* Each step of a refresh or an apply keeps what a resource needs to be settled.
LEMMA ApplyInvariant ==
  ASSUME Base, [Next]_vars, mishaps = 0, ~crashed', NEW r \in R, Good(r),
         DeleteOK(r), WorkOK(r), KnownOK(r), ForgivenOK(r), ApplyOK(r)
  PROVE  ApplyOK(r)'
<1> DEFINE Same == /\ op'[r] = op[r] /\ todo'[r] = todo[r] /\ err'[r] = err[r]
                   /\ remote'[r] = remote[r] /\ seen'[r] = seen[r]
                   /\ saved'[r] = saved[r] /\ desired'[r] = desired[r] /\ plan'[r] = plan[r]
                   /\ parentUp' = parentUp /\ outerUp' = outerUp /\ phase' = phase
<1>1. TypeOK /\ ParentOK /\ PhaseOK /\ HandlersOf(r)' = HandlersOf(r) /\ ~Crash
  BY Unconfigured DEF Base, HandlersOf, Crash
<1>2. Same => ApplyOK(r)'
  <2> SUFFICES ASSUME Same PROVE ApplyOK(r)'
    OBVIOUS
  <2>1. (Ready(r)' <=> Ready(r)) /\ (Settled(r)' <=> Settled(r))
    BY <1>1 DEF Ready, Settled
  <2>2. WorkGoesOn(r)' <=> WorkGoesOn(r)
    BY DEF WorkGoesOn
  <2>3. QED
    BY <2>1, <2>2 DEF ApplyOK
<1>3. ASSUME NEW s \in R, Step(s) \/ LockStep(s) \/ CallFails(s) \/ AnswerLost(s), ~Return(s)
      PROVE  ApplyOK(r)'
  <2>1. /\ Running(s) /\ Apart(s) /\ UNCHANGED <<op, parentUp, outerUp, saved, desired, phase, plan>>
    BY <1>1, <1>3, HandlerLocal DEF Unmoved, terraform
  <2>2. CASE s # r
    BY <1>1, <1>2, <1>3, <2>1, <2>2, HandlerSees DEF Apart, Still
  <2>3. CASE s = r
    <3>1. op[r] # Idle
      BY <2>1, <2>3, InState
    <3>2. phase = "apply" => WorkGoesOn(r)'
      BY <1>1, <1>3, <2>3, <3>1, WorkStep DEF ApplyOK
    <3>3. phase = "apply" => plan[r] # <<>>
      BY <1>1, <3>1 DEF PhaseOK
    <3>4. QED
      BY <2>1, <3>1, <3>2, <3>3 DEF ApplyOK
  <2>4. QED
    BY <2>2, <2>3
<1>4. ASSUME NEW s \in R, Return(s) PROVE ApplyOK(r)'
  <2>1. CASE s = r
    BY <1>4, <2>1, ReturnSettles
  <2>2. CASE s # r
    BY <1>1, <1>2, <1>4, <2>2 DEF Return, TypeOK
  <2>3. QED
    BY <2>1, <2>2
<1>5. ASSUME NEW s \in R, Begin(s) PROVE ApplyOK(r)'
  <2>1. CASE s = r
    BY <1>5, <2>1, BeginWorks
  <2>2. CASE s # r
    BY <1>1, <1>2, <1>5, <2>2 DEF Begin, Start, world, terraform, TypeOK
  <2>3. QED
    BY <2>1, <2>2
<1>6. CASE Refresh
  <2>1. phase' = "refresh" /\ saved' = saved /\ (op'[r] = Idle => saved[r] = "none")
    BY <1>6 DEF Refresh, world, Idle
  <2>2. QED
    BY <2>1 DEF ApplyOK
<1>7. CASE Plan
  BY <1>7, PlanReady
<1>8. CASE EndRun \/ (\E s \in R : BeginImport(s)) \/ \E s \in R : Edit(s)
  <2>1. phase' \in {"idle", "import"}
    BY <1>8 DEF EndRun, BeginImport, Edit, terraform
  <2>2. QED
    BY <2>1 DEF ApplyOK
<1>9. CASE LoseParent \/ \E s \in R : LoseObject(s)
  BY <1>9 DEF LoseParent, LoseObject
<1>10. CASE UNCHANGED vars
  BY <1>2, <1>10 DEF vars, world, terraform, handler
<1>11. QED
  BY <1>3, <1>4, <1>5, <1>6, <1>7, <1>8, <1>9, <1>10 DEF Next

SettleInv ==
    mishaps = 0 /\ (crashed \/ \A r \in R : Good(r) => ForgivenOK(r) /\ ApplyOK(r))

(* Once nothing fails or disappears any more, one refresh and one apply repair *)
(* whatever the failures and losses have left behind: no operation fails, and  *)
(* each resource is what the user asked for as soon as its own part of the     *)
(* plan is done (the handlers of vcd/, run by Terraform).                      *)
THEOREM OneApplySettles ==
  ASSUME RuleKeeping = DOMAIN Handlers
  PROVE  Spec => ApplySettles
<1> DEFINE All == Base /\ TrackInv /\ HonestInv
<1>1. Base /\ mishaps = 0 /\ phase = "idle" => SettleInv
  BY DEF Base, PhaseOK, SettleInv, ForgivenOK, ApplyOK, Idle
<1>2. All /\ SettleInv /\ [Next]_vars => SettleInv'
  <2> SUFFICES ASSUME All, SettleInv, [Next]_vars PROVE SettleInv'
    OBVIOUS
  <2>1. /\ mishaps' = 0
        /\ \A r \in R : ForgivesLoss(HandlersOf(r).read) /\ ForgivenOK(r) => ForgivenOK(r)'
    BY ForgivenInvariant DEF SettleInv
  <2>2. ASSUME ~crashed', NEW r \in R, Good(r) PROVE ForgivenOK(r)' /\ ApplyOK(r)'
    <3>1. ~crashed
      BY <2>2, CrashedStays
    <3>2. ForgivenOK(r) /\ ApplyOK(r) /\ DeleteOK(r) /\ KnownOK(r) /\ WorkOK(r)
      BY <2>2, <3>1 DEF SettleInv, TrackInv, HonestInv, Good
    <3>3. QED
      BY <2>1, <2>2, <3>2, ApplyInvariant DEF SettleInv, Good
  <2>3. \A r \in R : Good(r)' <=> Good(r)
    BY Unconfigured DEF Good, HandlersOf
  <2>4. R' = R
    BY Unconfigured
  <2>5. QED
    BY <2>1, <2>2, <2>3, <2>4 DEF SettleInv
<1>3. All /\ SettleInv => SettlesAtOnce
  <2> SUFFICES ASSUME All, SettleInv, NEW r \in R, kind[r] \notin Unsettling, ~crashed
               PROVE  /\ op[r] \in {"create", "update", "delete"} => ~err[r]
                      /\ phase = "apply" /\ op[r] = Idle /\ plan[r] = <<>> => Settled(r)
    BY DEF SettlesAtOnce
  <2>1. Good(r)
    BY RuleKeepers DEF Base, Good, Unsettling
  <2>2. ForgivenOK(r) /\ ApplyOK(r)
    BY <2>1 DEF SettleInv
  <2>3. op[r] \in {"create", "update", "delete"} => phase = "apply"
    BY DEF Base, TypeOK, PhaseOK, Idle
  <2>4. QED
    BY <2>2, <2>3 DEF ApplyOK, WorkGoesOn, Idle
<1>4. Spec => []TrackInv /\ []HonestInv /\ LossesAreForgiven
  BY TracksAlways, HonestAlways, ReadsForgiveLosses
<1>5. QED
  BY <1>1, <1>2, <1>3, <1>4, BaseCorrect, PTL DEF Spec, ApplySettles, LossesAreForgiven
===============================================================================
