----------------------------- MODULE CatalogSync -----------------------------
(***************************************************************************)
(* The synchronisation tasks of a subscribed catalog                       *)
(* (resource_vcd_subscribed_catalog.go).  Update and Read launch tasks in  *)
(* Cloud Director, remember them in the attribute running_tasks and, with  *)
(* store_tasks, in a file, and at every later call skim the ones that have *)
(* ended from the list.  A task that has failed makes the skim fail, but   *)
(* for one kind of failure, a clash with another transaction, for which    *)
(* the skim is done a second time.                                         *)
(*                                                                         *)
(* A collection is the set of its running tasks.  Its failed tasks are     *)
(* left out: skimTaskCollection returns no collection when a task has      *)
(* failed and so the list is empty wherever it is read.  A pass of the     *)
(* skim is one step, although it asks for the tasks one by one.            *)
(***************************************************************************)
EXTENDS Naturals, FiniteSets

CONSTANTS Task,        \* task IDs; one that nobody knows any more is used again
          NoFile,      \* there is no file of tasks
          Broken,      \* the file is empty or cut off, no JSON can be read from it
          First,       \* marks the first pass of a skim
          MaxRunning,  \* bound of the model: tasks that may run when a handler ends,
          MaxEdits,    \*   updates and deletions,
          MaxMishaps,  \*   calls and file operations that fail,
          MaxFailures  \*   tasks that fail

ASSUME MarkAssumption ==
    /\ \A tasks \in SUBSET Task : tasks # NoFile /\ tasks # Broken /\ tasks # First
    /\ NoFile # Broken
ASSUME BoundAssumption ==
    MaxRunning \in Nat /\ MaxEdits \in Nat /\ MaxMishaps \in Nat /\ MaxFailures \in Nat

VARIABLES store, sync_on_refresh, \* attributes of the resource
          batches,        \* how many launches the configuration asks for
          task,           \* task[t] in Cloud Director
          tracked, state, \* Terraform's state: the catalog is in it, its running_tasks
          file,           \* the file of tasks
          op, pc,         \* the running handler and its next step
          ok,             \* the last handler has returned no error
          d,              \* running_tasks in the handler's hand
          coll,           \* taskIdCollection.Running, taskList
          fetched,        \* Read has fetched the catalog
          part,           \* what the second pass of a skim works on
          seen,           \* the tasks of the catalog when Read has fetched it
          left,           \* launches still to make
          mine,           \* running tasks that the last handler has launched
          due,            \* running tasks that were launched and stored
          clashed,        \* this handler has met a clash
          edits, mishaps, failures \* steps taken, of those that are bounded

conf == <<store, sync_on_refresh, batches>>
terraform == <<tracked, state, ok>>
hand == <<d, coll, part, seen, left, mine, clashed, fetched>>
bounds == <<edits, mishaps, failures>>
vars == <<conf, task, terraform, file, op, pc, hand, due, bounds>>

\* A task that has succeeded and one that Cloud Director does not know are left
\* out of a list alike.
Status == {"gone", "running", "error", "clash"}
Step == {"create", "sync_read", "launch", "fetch", "list_read", "list_skim",
         "last_skim", "keep"}

TypeOK ==
    /\ store \in BOOLEAN /\ sync_on_refresh \in BOOLEAN /\ batches \in Nat
    /\ task \in [Task -> Status]
    /\ tracked \in BOOLEAN /\ state \subseteq Task /\ ok \in BOOLEAN
    /\ file \in {NoFile, Broken} \cup SUBSET Task
    /\ op \in {"none", "create", "read", "update"} /\ pc \in Step
    /\ d \subseteq Task /\ coll \subseteq Task /\ seen \subseteq Task
    /\ part \in {First} \cup SUBSET Task
    /\ left \in Nat /\ mine \subseteq Task /\ due \subseteq Task
    /\ clashed \in BOOLEAN /\ fetched \in BOOLEAN
    /\ edits \in Nat /\ mishaps \in Nat /\ failures \in Nat

Init ==
    /\ store \in BOOLEAN /\ sync_on_refresh \in BOOLEAN
    /\ batches \in 1 .. (IF sync_on_refresh THEN 1 ELSE 2)
    /\ task = [t \in Task |-> "gone"]
    /\ tracked = FALSE /\ state = {} /\ ok = TRUE
    /\ file = NoFile
    /\ op = "none" /\ pc = "create"
    /\ d = {} /\ coll = {} /\ part = First /\ seen = {} /\ left = 0 /\ mine = {} /\ due = {}
    /\ clashed = FALSE /\ fetched = FALSE
    /\ edits = 0 /\ mishaps = 0 /\ failures = 0

Running == {t \in Task : task[t] = "running"}
Failed == {t \in Task : task[t] = "error"}
Clashed == {t \in Task : task[t] = "clash"}
-----------------------------------------------------------------------------
(* Cloud Director. *)

\* What the program has in any list; all other tasks have IDs to give.
Stored == IF file \in {NoFile, Broken} THEN {} ELSE file
Mentioned == state \cup d \cup coll \cup seen \cup Stored
Unused == {t \in Task : task[t] = "gone" /\ t \notin Mentioned}
NewTask == CHOOSE t \in Unused : TRUE

TaskEnds(t) ==
    /\ task[t] = "running"
    /\ \/ task' = [task EXCEPT ![t] = "gone"] /\ UNCHANGED failures
       \/ /\ failures < MaxFailures /\ failures' = failures + 1
          /\ \E s \in {"error", "clash"} : task' = [task EXCEPT ![t] = s]
    /\ mine' = mine \ {t} /\ due' = due \ {t}
    /\ UNCHANGED <<conf, terraform, file, op, pc, d, coll, part, seen, left, clashed, fetched,
                   edits, mishaps>>

\* Cloud Director forgets old tasks, and the skim then leaves them out.
TaskExpires(t) ==
    /\ task[t] \in {"error", "clash"}
    /\ task' = [task EXCEPT ![t] = "gone"]
    /\ UNCHANGED <<conf, terraform, file, op, pc, hand, due, bounds>>
-----------------------------------------------------------------------------
(* Handlers, as Terraform calls them. *)

\* How many tasks a handler starts at most.
Starts(handler) ==
    (IF handler = "create" THEN 1 ELSE 0) + (IF handler = "update" THEN batches ELSE 0)
    + (IF sync_on_refresh THEN batches ELSE 0)

Begin(handler, step) ==
    /\ op = "none" /\ Cardinality(Running) + Starts(handler) <= MaxRunning
    /\ Cardinality(Unused) >= Starts(handler)
    /\ op' = handler /\ pc' = step
    /\ d' = state
    /\ mine' = {}
    /\ left' = IF handler = "update" THEN batches ELSE 0
    /\ UNCHANGED <<conf, task, terraform, file, coll, part, seen, clashed, fetched, due,
                   mishaps, failures>>

BeginCreate == ~tracked /\ Begin("create", "create") /\ UNCHANGED edits
BeginRead == tracked /\ Begin("read", "fetch") /\ UNCHANGED edits
BeginUpdate ==
    /\ tracked /\ ok /\ edits < MaxEdits /\ edits' = edits + 1
    /\ Begin("update", "sync_read")

At(step) == op # "none" /\ pc = step

Goto(step) == pc' = step /\ UNCHANGED <<op, terraform, seen, left, fetched>>

\* Read keeps the attributes only when it succeeds, Create and Update always.
End(success) ==
    /\ op' = "none"
    /\ ok' = success
    /\ state' = IF success \/ op # "read" THEN d ELSE state
    /\ d' = {} /\ coll' = {} /\ part' = First /\ seen' = {} /\ left' = 0
    /\ clashed' = FALSE /\ fetched' = FALSE
    /\ pc' = "create"
    /\ UNCHANGED tracked

Mishap == mishaps < MaxMishaps /\ mishaps' = mishaps + 1

\* The error of this skim is not looked at.
IgnoresError == pc = "list_skim" /\ sync_on_refresh

SkimError ==
    IF IgnoresError THEN Goto("last_skim") /\ part' = First /\ UNCHANGED <<d, coll, clashed>>
    ELSE End(FALSE)

\* The steps that write the file, and the list they write.
Writes == store /\ (pc = "keep" \/ (pc = "launch" /\ left = 0))
Written == IF pc = "keep" THEN d ELSE coll

\* A call or a file operation fails, and the handler returns the error.  A write
\* cuts the old file off before it writes the new one: when it fails, the old list
\* may be lost.
StepFails ==
    /\ op # "none" /\ pc # "create"
    /\ Mishap
    /\ file' \in {file} \cup (IF Writes THEN {Broken, Written} ELSE {})
    /\ SkimError
    /\ UNCHANGED <<conf, task, mine, due, edits, failures>>

\* Creation starts a task of its own, which no list has.
resourceVcdSubscribedCatalogCreate ==
    /\ At("create") /\ Unused # {}
    /\ task' = [task EXCEPT ![NewTask] = "running"]
    /\ tracked' = TRUE
    /\ pc' = "fetch"
    /\ UNCHANGED <<conf, state, ok, file, op, hand, due, bounds>>

\* The file goes also when the deletion has failed.
resourceVcdSubscribedCatalogDelete ==
    /\ op = "none" /\ tracked /\ ok /\ edits < MaxEdits /\ edits' = edits + 1
    /\ \/ tracked' = FALSE /\ state' = {} /\ UNCHANGED <<ok, mishaps>>
       \/ Mishap /\ ok' = FALSE /\ UNCHANGED <<tracked, state>>
    /\ file' = NoFile
    /\ due' = {} /\ mine' = {}
    /\ UNCHANGED <<conf, task, op, pc, d, coll, part, seen, left, clashed, fetched, failures>>
-----------------------------------------------------------------------------
(* skimTaskCollection: processTasks, once or twice. *)

Now(tasks) == IF part = First THEN tasks ELSE part
Alive(tasks) == Now(tasks) \cap Running
Failing(tasks) == Now(tasks) \cap (Failed \cup Clashed)
Again(tasks) == part = First /\ tasks \cap Clashed # {}

\* Mutant of SkimSucceeds: failed tasks are left out like the others.
SkimSucceeds_Always(tasks) == ~Again(tasks) /\ part' = First /\ UNCHANGED clashed

SkimSucceeds(tasks) == Failing(tasks) = {} /\ part' = First /\ UNCHANGED clashed

\* The second pass works on what the first has found running: what it has found
\* failed is not mentioned again.
SkimRepeats(tasks) ==
    /\ Again(tasks)
    /\ part' = Alive(tasks)
    /\ clashed' = TRUE
    /\ Goto(pc) /\ UNCHANGED <<d, coll, file>>

SkimFails(tasks) ==
    /\ Failing(tasks) # {} /\ ~Again(tasks)
    /\ SkimError
    /\ UNCHANGED file

Skim(tasks) == SkimRepeats(tasks) \/ SkimFails(tasks)

\* From the file, skimmed.
ReadFile(step) ==
    \/ /\ SkimSucceeds(file)
       /\ coll' = Alive(file) /\ d' = Alive(file)
       /\ Goto(step) /\ UNCHANGED file
    \/ Skim(file)

\* Mutant of readTaskIdCollection: a file that is not there is an error.
readTaskIdCollection_NeedsFile(step) ==
    \/ ~store /\ coll' = d /\ Goto(step) /\ UNCHANGED <<d, part, clashed, file>>
    \/ store /\ file \in {NoFile, Broken} /\ SkimError /\ UNCHANGED file
    \/ store /\ file \notin {NoFile, Broken} /\ ReadFile(step)

\* From the attribute, or from the file if there is one; a broken one is an error.
readTaskIdCollection(step) ==
    \/ ~store /\ coll' = d /\ Goto(step) /\ UNCHANGED <<d, part, clashed, file>>
    \/ store /\ file = NoFile /\ coll' = {} /\ Goto(step) /\ UNCHANGED <<d, part, clashed, file>>
    \/ store /\ file = Broken /\ SkimError /\ UNCHANGED file
    \/ store /\ file \notin {NoFile, Broken} /\ ReadFile(step)
-----------------------------------------------------------------------------
(* runSubscribedCatalogSyncOperations. *)

SyncRead ==
    /\ At("sync_read")
    /\ readTaskIdCollection("launch")
    /\ UNCHANGED <<conf, task, mine, due, bounds>>

\* Mutant of Launch: the list starts anew.
Launch_ForgetsOthers ==
    /\ At("launch") /\ left > 0 /\ Unused # {}
    /\ left' = left - 1
    /\ task' = [task EXCEPT ![NewTask] = "running"]
    /\ coll' = {NewTask}
    /\ mine' = mine \cup {NewTask}
    /\ UNCHANGED <<conf, terraform, file, op, pc, d, part, seen, clashed, fetched, due, bounds>>

Launch ==
    /\ At("launch") /\ left > 0 /\ Unused # {}
    /\ left' = left - 1
    /\ task' = [task EXCEPT ![NewTask] = "running"]
    /\ coll' = coll \cup {NewTask}
    /\ mine' = mine \cup {NewTask}
    /\ UNCHANGED <<conf, terraform, file, op, pc, d, part, seen, clashed, fetched, due, bounds>>

\* The list is stored after the last launch, in the file only.
SyncStore ==
    /\ At("launch") /\ left = 0
    /\ IF store THEN file' = coll /\ due' = due \cup mine ELSE UNCHANGED <<file, due>>
    /\ Goto(IF fetched THEN "list_read" ELSE "fetch")
    /\ UNCHANGED <<conf, task, d, coll, part, mine, clashed, bounds>>
-----------------------------------------------------------------------------
(* resourceVcdSubscribedCatalogRead. *)

\* Whether Create or Update have synchronised already is asked of the context
\* under another key than they have set, and so with sync_on_refresh it is done
\* again.
Fetch ==
    /\ At("fetch")
    /\ seen' = Running
    /\ fetched' = TRUE
    /\ pc' = IF sync_on_refresh THEN "sync_read" ELSE "list_read"
    /\ left' = IF sync_on_refresh THEN batches ELSE 0
    /\ UNCHANGED <<conf, task, terraform, file, op, d, coll, part, mine, clashed, due, bounds>>

ListRead ==
    /\ At("list_read")
    /\ readTaskIdCollection("list_skim")
    /\ UNCHANGED <<conf, task, mine, due, bounds>>

\* With sync_on_refresh the list is skimmed again at once.
ListSkim ==
    /\ At("list_skim")
    /\ \/ /\ SkimSucceeds(coll)
          /\ IF sync_on_refresh THEN Goto("last_skim") /\ UNCHANGED d
             ELSE Goto("keep") /\ d' = Alive(coll)
          /\ UNCHANGED <<coll, file>>
       \/ Skim(coll)
    /\ UNCHANGED <<conf, task, mine, due, bounds>>

\* The tasks of the catalog are added, which only this skim works on.
Found == coll \cup seen

LastSkim ==
    /\ At("last_skim")
    /\ \/ /\ SkimSucceeds(Found)
          /\ Goto("keep") /\ d' = Alive(Found)
          /\ UNCHANGED <<coll, file>>
       \/ Skim(Found)
    /\ UNCHANGED <<conf, task, mine, due, bounds>>

\* running_tasks is set, then the file written.
Keep ==
    /\ At("keep")
    /\ file' = IF store THEN d ELSE file
    /\ End(TRUE)
    /\ UNCHANGED <<conf, task, mine, due, bounds>>
-----------------------------------------------------------------------------
HandlerStep ==
    \/ resourceVcdSubscribedCatalogCreate \/ Fetch \/ SyncRead \/ Launch \/ SyncStore
    \/ ListRead \/ ListSkim \/ LastSkim \/ Keep

Next ==
    \/ \E t \in Task : TaskEnds(t) \/ TaskExpires(t)
    \/ BeginCreate \/ BeginRead \/ BeginUpdate \/ resourceVcdSubscribedCatalogDelete
    \/ HandlerStep \/ StepFails

Spec == Init /\ [][Next]_vars

\* Tasks end and are forgotten in the end, handlers go on, and Terraform is run
\* again and again.
Fairness ==
    /\ \A t \in Task : WF_vars(TaskEnds(t)) /\ WF_vars(TaskExpires(t))
    /\ WF_vars(BeginCreate) /\ WF_vars(BeginRead) /\ WF_vars(HandlerStep)

FairSpec == Spec /\ Fairness
-----------------------------------------------------------------------------
\* With store_tasks, a task that was launched and stored is in the file as long as
\* it runs, at every point of every handler, unless a write of the file has failed;
\* that is never passed over, every handler fails from then on.  And a handler that
\* succeeds leaves all tasks it has launched, and all older ones, in running_tasks.
\* (Without store_tasks it does not; see README.md.)
RunningTasksAreKept ==
    store =>
        /\ file # Broken => due \subseteq Stored
        /\ file = Broken => ~ok
        /\ op = "none" /\ ok /\ tracked => due \cup mine \subseteq state

\* No step of a handler drops a failed task from its list, but for one that ends
\* the handler with an error; unless a task has failed with a clash in a skim of
\* the same handler, whose second pass hides the others.
Listed == IF store THEN Stored ELSE state
FailureIsReported ==
    [][op # "none" =>
          \A t \in Failed : t \in Listed \ Listed' => clashed \/ (op' = "none" /\ ~ok')]_vars

\* A task that fails makes every refresh fail, but only until Cloud Director has
\* forgotten it: then Terraform works again, whatever call has failed at whatever
\* step.  Only a failed write of the file makes every later refresh fail.
RefreshRecovers == <>[](ok \/ file = Broken)
===============================================================================
