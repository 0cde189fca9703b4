--------------------------- MODULE CatalogSyncProofs ---------------------------
(* What the lists of synchronisation tasks keep and report, for every set of   *)
(* tasks and without any bound.                                                *)
EXTENDS CatalogSync, TLAPS

\* What the steps need to know of the shape of the variables.
ShapeOK ==
    /\ store \in BOOLEAN
    /\ task \in [Task -> Status]
    /\ file \in {NoFile, Broken} \cup SUBSET Task
    /\ state \subseteq Task /\ d \subseteq Task /\ coll \subseteq Task /\ seen \subseteq Task
    /\ part \in {First} \cup SUBSET Task
    /\ op = "none" => pc = "create"
    /\ part # First =>
        \/ pc \in {"sync_read", "list_read"} /\ store /\ file \notin {NoFile, Broken}
        \/ pc \in {"list_skim", "last_skim"}

\* A broken file stops every handler before it reads the list, and so before it
\* writes it.
BrokenInv ==
    file = Broken => store /\ ~ok /\ pc \in {"create", "fetch", "sync_read", "list_read"}

\* With store_tasks, what is due is in whatever the handler will write next.
KeptInv ==
    /\ due \subseteq Running /\ mine \subseteq Running
    /\ store =>
        /\ file # Broken => due \subseteq Stored
        /\ op # "none" /\ pc # "launch" => mine \subseteq due
        /\ pc = "launch" => due \cup mine \subseteq coll
        /\ pc \in {"list_skim", "last_skim"} => due \subseteq coll
        /\ pc = "keep" => due \subseteq d
        /\ part # First => due \subseteq part
        /\ op = "none" /\ ok /\ tracked => due \cup mine \subseteq state

\* As long as no task has clashed, the handler has in hand all listed tasks that
\* run or have failed.
Open == Listed \cap (Running \cup Failed)
ToldInv ==
    /\ ~store /\ op # "none" /\ pc # "keep" => d = state
    /\ ~clashed =>
        /\ part = First
        /\ store /\ pc = "launch" => Open \subseteq coll
        /\ pc \in {"list_skim", "last_skim"} => Open \subseteq coll
        /\ pc = "keep" => Open \subseteq d

Inv == ShapeOK /\ BrokenInv /\ KeptInv /\ ToldInv

\* No handler has run, nothing is listed and nothing is due.
LEMMA InitInv == Init => Inv
  BY MarkAssumption DEF Init, Inv, ShapeOK, BrokenInv, KeptInv, ToldInv, Stored, Running, Status,
                        Open, Listed

\* A task that is launched is one that no list has.
LEMMA NewTaskIsNew ==
    ASSUME Unused # {}
    PROVE  NewTask \in Task /\ task[NewTask] = "gone" /\ NewTask \notin Mentioned
  BY DEF NewTask, Unused

\* A task that starts leaves the others and the lists as they are.
LEMMA NewTaskRuns ==
    ASSUME ShapeOK, Unused # {}, task' = [task EXCEPT ![NewTask] = "running"],
           UNCHANGED <<store, state, file>>
    PROVE  /\ task' \in [Task -> Status]
           /\ Running' = Running \cup {NewTask} /\ Open' = Open
  <1>1. NewTask \in Task /\ task[NewTask] = "gone" /\ NewTask \notin Mentioned
    BY NewTaskIsNew
  <1>2. task' \in [Task -> Status]
    BY DEF ShapeOK, Status
  <1>3. Running' = Running \cup {NewTask} /\ Failed' = Failed
    BY <1>1 DEF ShapeOK, Running, Failed
  <1>4. NewTask \notin Listed /\ Listed' = Listed
    BY <1>1 DEF Mentioned, Listed, Stored
  <1> QED  BY <1>2, <1>3, <1>4 DEF Open

\* A handler that ends in an error leaves the lists in order.
LEMMA ErrorInv ==
    ASSUME Inv, op # "none", SkimError, UNCHANGED <<store, sync_on_refresh, task, file, mine, due>>
    PROVE  Inv'
  <1>1. CASE IgnoresError
    BY <1>1 DEF SkimError, IgnoresError, Goto, Inv, ShapeOK, BrokenInv, KeptInv, ToldInv, Stored,
                Running,
                Failed, Open, Listed, terraform
  <1>2. CASE ~IgnoresError
    BY <1>2 DEF SkimError, End, Inv, ShapeOK, BrokenInv, KeptInv, ToldInv, Stored, Running
  <1> QED  BY <1>1, <1>2

\* So does one whose write of the file has failed, whatever is left of it.
LEMMA WriteFailsInv ==
    ASSUME Inv, op # "none", Writes, file' \in {file, Broken, Written}, SkimError,
           UNCHANGED <<store, sync_on_refresh, task, mine, due>>
    PROVE  Inv'
  <1>1. /\ End(FALSE) /\ store /\ pc \in {"keep", "launch"}
    BY DEF SkimError, IgnoresError, Writes
  <1>2. due \subseteq Written /\ Written \subseteq Task
    BY <1>1 DEF Written, Inv, ShapeOK, KeptInv
  <1>3. op' = "none" /\ ok' = FALSE /\ part' = First /\ pc' = "create" /\ clashed' = FALSE
    BY <1>1 DEF End
  <1>4. file' # Broken => due \subseteq Stored'
    BY <1>1, <1>2, MarkAssumption DEF Stored, Inv, KeptInv
  <1> QED
    BY <1>1, <1>2, <1>3, <1>4
       DEF End, Inv, ShapeOK, BrokenInv, KeptInv, ToldInv, Running

\* So does a skim that fails or is done again.
LEMMA SkimInv ==
    ASSUME Inv, op # "none", pc \in {"sync_read", "list_read", "list_skim", "last_skim"},
           pc \in {"sync_read", "list_read"} => store /\ file \notin {NoFile, Broken},
           NEW tasks \in SUBSET Task, store => due \subseteq tasks, Skim(tasks),
           UNCHANGED <<store, sync_on_refresh, task, mine, due>>
    PROVE  Inv'
  <1>1. CASE SkimFails(tasks)
    BY <1>1, ErrorInv DEF SkimFails
  <1>2. CASE SkimRepeats(tasks)
    BY <1>2, MarkAssumption
       DEF SkimRepeats, Again, Alive, Now, Goto, Inv, ShapeOK, BrokenInv, KeptInv, ToldInv,
           Stored, Running,
           terraform
  <1> QED  BY <1>1, <1>2 DEF Skim

\* A skim that succeeds keeps what is due and, without a clash, all that is open.
LEMMA SkimKeeps ==
    ASSUME Inv, NEW tasks \in SUBSET Task, SkimSucceeds(tasks)
    PROVE  /\ Alive(tasks) \subseteq Task
           /\ store /\ due \subseteq tasks => due \subseteq Alive(tasks)
           /\ ~clashed /\ Open \subseteq tasks => Open \subseteq Alive(tasks)
  <1>1. Alive(tasks) \subseteq Task
    BY DEF Alive, Running
  <1>2. ASSUME store, due \subseteq tasks PROVE due \subseteq Alive(tasks)
    BY <1>2 DEF Alive, Now, Inv, KeptInv
  <1>3. ASSUME ~clashed, Open \subseteq tasks PROVE Open \subseteq Alive(tasks)
    BY <1>3 DEF SkimSucceeds, Failing, Alive, Now, Inv, ToldInv, Open
  <1> QED  BY <1>1, <1>2, <1>3

\* The steps of Read keep the invariant.
LEMMA ReadInv ==
    ASSUME Inv, op # "none",
           \/ pc = "sync_read" /\ readTaskIdCollection("launch")
           \/ pc = "list_read" /\ readTaskIdCollection("list_skim"),
           UNCHANGED <<store, sync_on_refresh, task, mine, due>>
    PROVE  Inv'
  <1> PICK step \in {"launch", "list_skim"} : readTaskIdCollection(step)
    OBVIOUS
  <1>1. CASE ~store
    BY <1>1 DEF readTaskIdCollection, Goto, Inv, ShapeOK, BrokenInv, KeptInv, ToldInv, Running,
                Failed, Open,
                Listed, Stored, terraform
  <1>2. CASE store /\ file = NoFile
    BY <1>2, MarkAssumption DEF readTaskIdCollection, Goto, Inv, ShapeOK, BrokenInv, KeptInv,
                                ToldInv, Running, Failed, Open,
                Listed, Stored, terraform
  <1>3. CASE store /\ file \notin {NoFile, Broken}
    <2>1. file \in SUBSET Task /\ due \subseteq file /\ Open \subseteq file
      BY <1>3 DEF Inv, ShapeOK, BrokenInv, KeptInv, Stored, Open, Listed
    <2>2. CASE Skim(file)
      BY <1>3, <2>1, <2>2, SkimInv
    <2>3. CASE /\ SkimSucceeds(file) /\ coll' = Alive(file) /\ d' = Alive(file)
               /\ Goto(step) /\ UNCHANGED file
      <3>1. /\ Alive(file) \subseteq Task /\ due \subseteq Alive(file)
            /\ ~clashed => Open \subseteq Alive(file)
        BY <1>3, <2>1, <2>3, SkimKeeps
      <3>2. Open' = Open /\ Running' = Running /\ Stored' = Stored
        BY <2>3 DEF Goto, terraform, Open, Listed, Stored, Running, Failed
      <3> QED
        BY <1>3, <2>3, <3>1, <3>2
           DEF SkimSucceeds, Goto, Inv, ShapeOK, BrokenInv, KeptInv, ToldInv, terraform
    <2> QED  BY <1>3, <2>2, <2>3 DEF readTaskIdCollection, ReadFile
  <1>4. CASE store /\ file = Broken
    BY <1>4, MarkAssumption, ErrorInv DEF readTaskIdCollection
  <1> QED  BY <1>1, <1>2, <1>3, <1>4 DEF Inv, ShapeOK

\* Every step keeps the invariant.
LEMMA StepInv == Inv /\ [Next]_vars => Inv'
  <1> SUFFICES ASSUME Inv, [Next]_vars PROVE Inv'
    OBVIOUS
  <1>1. ASSUME NEW t \in Task, TaskEnds(t) PROVE Inv'
    <2>1. task' \in [Task -> Status] /\ \A u \in Task \ {t} : task'[u] = task[u]
      BY <1>1 DEF TaskEnds, Inv, ShapeOK, Status
    <2>2. Running \ {t} \subseteq Running' /\ Running' \cup Failed' \subseteq Running \cup Failed
      BY <1>1, <2>1 DEF TaskEnds, Inv, ShapeOK, Running, Failed
    <2>3. Open' \subseteq Open /\ Stored' = Stored
      BY <1>1, <2>2 DEF TaskEnds, Open, Listed, Stored, conf, terraform
    <2> QED
      BY <1>1, <2>1, <2>2, <2>3
         DEF TaskEnds, Inv, ShapeOK, BrokenInv, KeptInv, ToldInv, conf, terraform
  <1>2. ASSUME NEW t \in Task, TaskExpires(t) PROVE Inv'
    <2>1. task' \in [Task -> Status] /\ Running' = Running /\ Failed' \subseteq Failed
      BY <1>2 DEF TaskExpires, Inv, ShapeOK, Status, Running, Failed
    <2>2. Open' \subseteq Open /\ Stored' = Stored
      BY <1>2, <2>1 DEF TaskExpires, Open, Listed, Stored, conf, terraform
    <2> QED
      BY <1>2, <2>1, <2>2
         DEF TaskExpires, Inv, ShapeOK, BrokenInv, KeptInv, ToldInv, conf, terraform, hand
  <1>3. CASE BeginCreate \/ BeginRead \/ BeginUpdate
    <2> PICK handler \in {"create", "read", "update"}, step \in {"create", "fetch", "sync_read"} :
            Begin(handler, step)
      BY <1>3 DEF BeginCreate, BeginRead, BeginUpdate
    <2> QED
      BY DEF Begin, Inv, ShapeOK, BrokenInv, KeptInv, ToldInv, Running, Failed, Open, Listed,
             Stored,
             conf, terraform
  <1>4. CASE resourceVcdSubscribedCatalogDelete
    BY <1>4, MarkAssumption DEF resourceVcdSubscribedCatalogDelete, Inv, ShapeOK, BrokenInv,
                                KeptInv, ToldInv, Running, Failed,
                Open, Listed, Stored, conf
  <1>5. CASE StepFails
    BY <1>5, ErrorInv, WriteFailsInv DEF StepFails, conf
  <1>6. CASE resourceVcdSubscribedCatalogCreate
    <2>1. task' \in [Task -> Status] /\ Running' = Running \cup {NewTask} /\ Open' = Open
      BY <1>6, NewTaskRuns DEF resourceVcdSubscribedCatalogCreate, Inv, conf
    <2> QED
      BY <1>6, <2>1
         DEF resourceVcdSubscribedCatalogCreate, At, Inv, ShapeOK, BrokenInv, KeptInv, ToldInv,
             Stored, conf, hand
  <1>7. CASE Launch
    <2>1. task' \in [Task -> Status] /\ Running' = Running \cup {NewTask} /\ Open' = Open
      BY <1>7, NewTaskRuns DEF Launch, Inv, conf, terraform
    <2>2. NewTask \in Task
      BY <1>7, NewTaskIsNew DEF Launch
    <2> QED
      BY <1>7, <2>1, <2>2
         DEF Launch, At, Inv, ShapeOK, BrokenInv, KeptInv, ToldInv, Stored, conf, terraform
  <1>8. CASE SyncRead
    BY <1>8, ReadInv DEF SyncRead, At, conf
  <1>9. CASE SyncStore
    BY <1>9, MarkAssumption
       DEF SyncStore, At, Goto, Inv, ShapeOK, BrokenInv, KeptInv, ToldInv, Running, Stored, conf,
           terraform
  <1>10. CASE Fetch
    BY <1>10 DEF Fetch, At, Inv, ShapeOK, BrokenInv, KeptInv, ToldInv, Running, Stored, conf,
                 terraform
  <1>11. CASE ListRead
    BY <1>11, ReadInv DEF ListRead, At, conf
  <1>12. CASE ListSkim
    <2>1. coll \in SUBSET Task /\ (store => due \subseteq coll) /\ (~clashed => Open \subseteq coll)
      BY <1>12 DEF ListSkim, At, Inv, ShapeOK, BrokenInv, KeptInv, ToldInv
    <2>2. CASE Skim(coll)
      BY <1>12, <2>1, <2>2, SkimInv DEF ListSkim, At, conf
    <2>3. CASE ~Skim(coll)
      <3>1. /\ Alive(coll) \subseteq Task /\ (store => due \subseteq Alive(coll))
            /\ ~clashed => Open \subseteq Alive(coll)
        BY <1>12, <2>1, <2>3, SkimKeeps DEF ListSkim
      <3>2. Open' = Open /\ Running' = Running /\ Stored' = Stored
        BY <1>12, <2>3 DEF ListSkim, Goto, terraform, conf, Open, Listed, Stored, Running, Failed
      <3> QED
        BY <1>12, <2>1, <2>3, <3>1, <3>2
           DEF ListSkim, At, SkimSucceeds, Goto, Inv, ShapeOK, BrokenInv, KeptInv, ToldInv,
               terraform, conf
    <2> QED  BY <2>2, <2>3
  <1>13. CASE LastSkim
    <2>1. /\ Found \in SUBSET Task /\ (store => due \subseteq Found)
          /\ ~clashed => Open \subseteq Found
      BY <1>13 DEF LastSkim, Found, At, Inv, ShapeOK, BrokenInv, KeptInv, ToldInv
    <2>2. CASE Skim(Found)
      BY <1>13, <2>1, <2>2, SkimInv DEF LastSkim, At, conf
    <2>3. CASE ~Skim(Found)
      <3>1. /\ Alive(Found) \subseteq Task /\ (store => due \subseteq Alive(Found))
            /\ ~clashed => Open \subseteq Alive(Found)
        BY <1>13, <2>1, <2>3, SkimKeeps DEF LastSkim
      <3>2. Open' = Open /\ Running' = Running /\ Stored' = Stored
        BY <1>13, <2>3 DEF LastSkim, Goto, terraform, conf, Open, Listed, Stored, Running, Failed
      <3> QED
        BY <1>13, <2>3, <3>1, <3>2
           DEF LastSkim, At, SkimSucceeds, Goto, Inv, ShapeOK, BrokenInv, KeptInv, ToldInv,
               terraform, conf
    <2> QED  BY <2>2, <2>3
  <1>14. CASE Keep
    BY <1>14, MarkAssumption
       DEF Keep, At, End, Inv, ShapeOK, BrokenInv, KeptInv, ToldInv, Running, Stored, conf
  <1>15. CASE UNCHANGED vars
    BY <1>15 DEF vars, conf, terraform, hand, bounds, Inv, ShapeOK, BrokenInv, KeptInv, ToldInv,
                 Running, Failed,
                 Open, Listed, Stored
  <1> QED
    BY <1>1, <1>2, <1>3, <1>4, <1>5, <1>6, <1>7, <1>8, <1>9, <1>10, <1>11, <1>12, <1>13,
       <1>14, <1>15
       DEF Next, HandlerStep

\* The invariant holds in every state of runSubscribedCatalogSyncOperations and Read.
THEOREM Invariant == Spec => []Inv
  BY InitInv, StepInv, PTL DEF Spec
-----------------------------------------------------------------------------
\* A task that was launched and stored stays in the file as long as it runs, or a
\* write of the file has failed and every handler fails; and a handler that succeeds
\* leaves its tasks in running_tasks.
THEOREM RunningTasksAreKeptHolds == Spec => []RunningTasksAreKept
  <1>1. Inv => RunningTasksAreKept
    BY DEF Inv, BrokenInv, KeptInv, RunningTasksAreKept
  <1> QED  BY Invariant, <1>1, PTL

\* No step of a handler drops a failed task from its list without ending in an error,
\* but for the one that a clash hides.
THEOREM FailureIsReportedHolds == Spec => FailureIsReported
  <1>1. Inv /\ [Next]_vars =>
            [op # "none" =>
                \A t \in Failed : t \in Listed \ Listed' => clashed \/ (op' = "none" /\ ~ok')]_vars
    <2> SUFFICES ASSUME Inv, Next, op # "none", ~clashed, ~(op' = "none" /\ ~ok'),
                        NEW t \in Failed, t \in Listed \ Listed'
                 PROVE  FALSE
      OBVIOUS
    <2>1. t \in Open
      BY DEF Open
    <2>2. ASSUME SkimError, UNCHANGED <<store, file>> PROVE FALSE
      BY <2>1, <2>2 DEF SkimError, Goto, End, terraform, Listed, Stored, Inv, ToldInv
    <2>3. ASSUME NEW tasks, Skim(tasks), UNCHANGED <<store, file>> PROVE FALSE
      BY <2>2, <2>3 DEF Skim, SkimFails, SkimRepeats, Goto, terraform, Listed, Stored
    <2>4. ASSUME NEW step, Goto(step), UNCHANGED <<store, file>> PROVE FALSE
      BY <2>4 DEF Goto, terraform, Listed, Stored
    <2>5. ASSUME UNCHANGED <<store, state, file>> PROVE FALSE
      BY <2>5 DEF Listed, Stored
    <2>6. ASSUME NEW step, readTaskIdCollection(step), UNCHANGED store PROVE FALSE
      BY <2>2, <2>3, <2>4, <2>6
         DEF readTaskIdCollection, ReadFile, Skim, SkimFails, SkimRepeats
    <2>7. CASE Keep
      BY <2>1, <2>7, MarkAssumption
         DEF Keep, At, End, conf, Listed, Stored, Inv, ShapeOK, ToldInv
    <2>8. CASE SyncStore
      BY <2>1, <2>8, MarkAssumption
         DEF SyncStore, At, Goto, conf, terraform, Listed, Stored, Inv, ShapeOK, ToldInv
    <2>9. CASE ListSkim
      BY <2>3, <2>4, <2>9 DEF ListSkim, conf, Skim, SkimFails, SkimRepeats
    <2>10. CASE LastSkim
      BY <2>3, <2>4, <2>10 DEF LastSkim, conf, Skim, SkimFails, SkimRepeats
    <2>11. CASE SyncRead \/ ListRead
      BY <2>6, <2>11 DEF SyncRead, ListRead, conf
    <2>12. CASE StepFails
      <3>1. CASE Writes
        BY <2>12, <3>1 DEF StepFails, SkimError, IgnoresError, Writes, End
      <3>2. CASE ~Writes
        BY <2>2, <2>12, <3>2 DEF StepFails, conf
      <3> QED  BY <3>1, <3>2
    <2>13. CASE resourceVcdSubscribedCatalogCreate \/ Fetch \/ Launch
      BY <2>5, <2>13 DEF resourceVcdSubscribedCatalogCreate, Fetch, Launch, conf, terraform
    <2>14. CASE \E u \in Task : TaskEnds(u) \/ TaskExpires(u)
      BY <2>5, <2>14 DEF TaskEnds, TaskExpires, conf, terraform
    <2> QED
      BY <2>7, <2>8, <2>9, <2>10, <2>11, <2>12, <2>13, <2>14
         DEF Next, HandlerStep, BeginCreate, BeginRead, BeginUpdate, Begin,
             resourceVcdSubscribedCatalogDelete
  <1> QED  BY Invariant, <1>1, PTL DEF Spec, FailureIsReported
===============================================================================
