---------------------------- MODULE MetadataFilter ----------------------------
(***************************************************************************)
(* Metadata of objects (vcd/metadata.go) under ignore_metadata_changes.    *)
(* Which entries are ignored is a field of the API client that all         *)
(* handlers of the provider share.  A Read takes the filter away from the  *)
(* client, under the lock "metadata", to fetch all entries for the         *)
(* deprecated attribute, puts it back, and then fetches the entries again  *)
(* without the lock.  So what one handler does with its own object depends *)
(* on what the handlers of other objects are doing.                        *)
(*                                                                         *)
(* An entry is its key.  Terraform refreshes all objects, plans, and       *)
(* updates those whose metadata_entry differs, concurrently, again and     *)
(* again; an Update that fails leaves the planned value in the state.      *)
(***************************************************************************)
EXTENDS Naturals, FiniteSets

CONSTANTS Obj,         \* the objects with metadata, one resource each
          Own,         \* keys that no filter matches
          Ignored,     \* keys that ignore_metadata_changes matches
          Wishes,      \* Wishes[o]: what the user may configure as its metadata_entry
          NoOne,       \* nobody holds the lock
          MaxEdits,    \* bound of the model: changes of the configuration,
          MaxMishaps,  \*   calls that fail,
          MaxOutside,  \*   entries that somebody else adds or removes,
          MaxOverlaps  \*   steps that meet the client without its filter

ASSUME KeyAssumption ==
    Own \cap Ignored = {} /\ \A o \in Obj : Wishes[o] \subseteq SUBSET (Own \cup Ignored)
ASSUME NoOneAssumption == NoOne \notin Obj
ASSUME BoundAssumption ==
    MaxEdits \in Nat /\ MaxMishaps \in Nat /\ MaxOutside \in Nat /\ MaxOverlaps \in Nat

VARIABLES action,   \* conflict_action
          wanted,   \* wanted[o]: metadata_entry of the configuration
          vcd,      \* vcd[o]: the entries of the object
          state,    \* state[o]: metadata_entry in Terraform's state
          phase, failed, \* what Terraform does; a handler of this run has failed
          todo,     \* the objects this phase has still to start
          op, pc,   \* per object: the running handler and its next step
          old,      \* old[o]: the keys an Update has still to delete
          filter,   \* the client has its filter
          kept,     \* kept[o]: what SetMetadataToIgnore(nil) has returned
          lock,     \* who holds the lock "metadata"
          edits, mishaps, outside, overlaps, \* steps taken, of those that are bounded
          raced,    \* raced[o]: a step of o without the lock has met no filter
          unmerged, \* unmerged[o]: since entries were merged last, an Update has ended
                    \*   before it, or somebody else has removed an entry
          asked     \* asked[o]: the keys the user has ever configured

world == <<action, wanted, asked, edits, outside>>
run == <<phase, failed, todo>>
client == <<filter, kept, lock>>
cloud == <<vcd, unmerged>>
vars == <<world, run, client, cloud, state, op, pc, old, mishaps, overlaps, raced>>

Key == Own \cup Ignored
Step == {"delete", "merge", "open", "window", "check", "get"}

TypeOK ==
    /\ action \in {"error", "warn", "none"}
    /\ wanted \in [Obj -> SUBSET Key] /\ vcd \in [Obj -> SUBSET Key]
    /\ asked \in [Obj -> SUBSET Key] /\ state \in [Obj -> SUBSET Key]
    /\ old \in [Obj -> SUBSET Key]
    /\ phase \in {"idle", "refresh", "apply"} /\ failed \in BOOLEAN /\ todo \subseteq Obj
    /\ op \in [Obj -> {"none", "read", "update"}] /\ pc \in [Obj -> Step]
    /\ raced \in [Obj -> BOOLEAN] /\ unmerged \in [Obj -> BOOLEAN]
    /\ filter \in BOOLEAN /\ kept \in [Obj -> BOOLEAN] /\ lock \in Obj \cup {NoOne}
    /\ edits \in Nat /\ mishaps \in Nat /\ outside \in Nat /\ overlaps \in Nat

Init ==
    /\ action \in {"error", "warn", "none"}
    /\ wanted \in {w \in [Obj -> SUBSET Key] : \A o \in Obj : w[o] \in Wishes[o]}
    /\ asked = wanted
    /\ vcd \in [Obj -> SUBSET Ignored]
    /\ state = [o \in Obj |-> {}]
    /\ phase = "idle" /\ failed = FALSE /\ todo = {}
    /\ op = [o \in Obj |-> "none"] /\ pc = [o \in Obj |-> "open"]
    /\ old = [o \in Obj |-> {}]
    /\ filter = TRUE
    /\ kept = [o \in Obj |-> TRUE]
    /\ lock = NoOne
    /\ edits = 0 /\ mishaps = 0 /\ outside = 0 /\ overlaps = 0
    /\ raced = [o \in Obj |-> FALSE] /\ unmerged = [o \in Obj |-> FALSE]
-----------------------------------------------------------------------------
(* The user, somebody else, and Terraform. *)

Resting == todo = {} /\ \A o \in Obj : op[o] = "none"

Edit(o) ==
    /\ phase = "idle" /\ edits < MaxEdits
    /\ edits' = edits + 1
    /\ \E w \in Wishes[o] \ {wanted[o]} :
          /\ wanted' = [wanted EXCEPT ![o] = w]
          /\ asked' = [asked EXCEPT ![o] = @ \cup w]
    /\ UNCHANGED <<action, outside, run, client, cloud, state, op, pc, old, mishaps, overlaps,
                   raced>>

\* Entries are added and removed outside Terraform.
Outside(o) ==
    /\ outside < MaxOutside
    /\ outside' = outside + 1
    /\ \E k \in Key :
          /\ vcd' = [vcd EXCEPT ![o] = IF k \in @ THEN @ \ {k} ELSE @ \cup {k}]
          /\ unmerged' = [unmerged EXCEPT ![o] = @ \/ k \in vcd[o]]
    /\ UNCHANGED <<action, wanted, asked, edits, run, client, state, op, pc, old, mishaps, overlaps,
                   raced>>

Refresh ==
    /\ phase = "idle"
    /\ phase' = "refresh" /\ failed' = FALSE /\ todo' = Obj
    /\ UNCHANGED <<world, client, cloud, state, op, pc, old, mishaps, overlaps, raced>>

\* A refresh without an error is followed by the updates.
Plan ==
    /\ phase = "refresh" /\ Resting
    /\ IF failed THEN phase' = "idle" /\ UNCHANGED todo
       ELSE phase' = "apply" /\ todo' = {o \in Obj : state[o] # wanted[o]}
    /\ UNCHANGED <<failed, world, client, cloud, state, op, pc, old, mishaps, overlaps, raced>>

EndRun ==
    /\ phase = "apply" /\ Resting
    /\ phase' = "idle"
    /\ UNCHANGED <<failed, todo, world, client, cloud, state, op, pc, old, mishaps, overlaps,
                   raced>>

BeginRead(o) ==
    /\ phase = "refresh" /\ o \in todo
    /\ op' = [op EXCEPT ![o] = "read"]
    /\ pc' = [pc EXCEPT ![o] = "open"]
    /\ UNCHANGED old

\* createOrUpdateMetadataEntryInVcd: the keys that are in the state and no longer
\* in the configuration are deleted one by one, the others merged.
BeginUpdate(o) ==
    /\ phase = "apply" /\ o \in todo
    /\ op' = [op EXCEPT ![o] = "update"]
    /\ pc' = [pc EXCEPT ![o] = "delete"]
    /\ old' = [old EXCEPT ![o] = state[o] \ wanted[o]]

Begin(o) ==
    /\ BeginRead(o) \/ BeginUpdate(o)
    /\ todo' = todo \ {o}
    /\ UNCHANGED <<phase, failed, world, client, cloud, state, mishaps, overlaps, raced>>
-----------------------------------------------------------------------------
(* Steps of a handler. *)

At(o, step) == op[o] # "none" /\ pc[o] = step

Goto(o, step) == pc' = [pc EXCEPT ![o] = step] /\ UNCHANGED <<op, state, failed>>

\* The handler returns, and what it has of metadata_entry goes to the state.
End(o, value, error) ==
    /\ op' = [op EXCEPT ![o] = "none"]
    /\ state' = [state EXCEPT ![o] = value]
    /\ failed' = (failed \/ error)
    /\ UNCHANGED pc

\* What d.Get returns: the plan in Update, the state in Read.
InHand(o) == IF op[o] = "update" THEN wanted[o] ELSE state[o]

Fails(o) ==
    /\ mishaps < MaxMishaps
    /\ mishaps' = mishaps + 1
    /\ End(o, InHand(o), TRUE)

\* A step without the lock that finds the filter gone.
Overlaps(o) ==
    IF filter THEN UNCHANGED <<overlaps, raced>>
    ELSE /\ overlaps < MaxOverlaps
         /\ overlaps' = overlaps + 1
         /\ raced' = [raced EXCEPT ![o] = TRUE]

\* The library refuses to delete an entry that the filter matches.
DeleteOld(o) ==
    /\ At(o, "delete")
    /\ IF old[o] = {} THEN Goto(o, "merge") /\ UNCHANGED <<vcd, old, mishaps, overlaps, raced>>
       ELSE \E k \in old[o] :
              /\ old' = [old EXCEPT ![o] = @ \ {k}]
              /\ Overlaps(o)
              /\ IF filter /\ k \in Ignored
                 THEN End(o, wanted[o], TRUE) /\ UNCHANGED <<vcd, mishaps>>
                 ELSE \/ Fails(o) /\ UNCHANGED vcd
                      \/ /\ vcd' = [vcd EXCEPT ![o] = @ \ {k}]
                         /\ \/ Goto(o, "delete") /\ UNCHANGED mishaps
                            \/ Fails(o)
    /\ unmerged' = [unmerged EXCEPT ![o] = @ \/ op'[o] = "none"]
    /\ UNCHANGED <<phase, todo, world, client>>

\* The library leaves out the entries that the filter matches.
MergeNew(o) ==
    /\ Overlaps(o)
    /\ \/ Fails(o) /\ UNCHANGED vcd
       \/ /\ vcd' = [vcd EXCEPT ![o] = @ \cup (IF filter THEN wanted[o] \ Ignored ELSE wanted[o])]
          /\ \/ Goto(o, "open") /\ UNCHANGED mishaps
             \/ Fails(o)

\* Mutant of Merge: an Update is done when the old entries are deleted.
Merge_Skipped(o) ==
    /\ At(o, "merge")
    /\ Goto(o, "open")
    /\ UNCHANGED <<phase, todo, world, client, cloud, old, mishaps, overlaps, raced>>

Merge(o) ==
    /\ At(o, "merge")
    /\ IF wanted[o] = {} THEN Goto(o, "open") /\ UNCHANGED <<vcd, mishaps, overlaps, raced>>
       ELSE MergeNew(o)
    /\ unmerged' = [unmerged EXCEPT ![o] = op'[o] = "none"]
    /\ UNCHANGED <<phase, todo, world, client, old>>

\* Mutant of RemoveFilter: without the lock.
RemoveFilter_Unlocked(o) ==
    /\ At(o, "open")
    /\ kept' = [kept EXCEPT ![o] = filter]
    /\ filter' = FALSE
    /\ lock' = o
    /\ Goto(o, "window")
    /\ UNCHANGED <<phase, todo, world, cloud, old, mishaps, overlaps, raced>>

RemoveFilter(o) ==
    /\ At(o, "open") /\ lock = NoOne
    /\ lock' = o
    /\ kept' = [kept EXCEPT ![o] = filter]
    /\ filter' = FALSE
    /\ Goto(o, "window")
    /\ UNCHANGED <<phase, todo, world, cloud, old, mishaps, overlaps, raced>>

\* Mutant of GetAll: the filter comes back only with an answer.
GetAll_KeepsFilterOff(o) ==
    /\ At(o, "window")
    /\ lock' = NoOne
    /\ \/ Fails(o) /\ UNCHANGED filter
       \/ filter' = kept[o] /\ Goto(o, "check") /\ UNCHANGED mishaps
    /\ UNCHANGED <<phase, todo, world, kept, cloud, old, overlaps, raced>>

\* The fetch of all entries, for the deprecated attribute.  The filter is back
\* before the error is looked at.
GetAll(o) ==
    /\ At(o, "window")
    /\ filter' = kept[o]
    /\ lock' = NoOne
    /\ \/ Fails(o)
       \/ Goto(o, "check") /\ UNCHANGED mishaps
    /\ UNCHANGED <<phase, todo, world, kept, cloud, old, overlaps, raced>>

Conflict(o) == filter /\ InHand(o) \cap Ignored # {}

\* A warning ends the handler as well, without the entries.
checkIgnoredMetadataConflicts(o) ==
    /\ At(o, "check")
    /\ IF InHand(o) = {} THEN UNCHANGED <<overlaps, raced>> ELSE Overlaps(o)
    /\ IF Conflict(o) /\ action # "none"
       THEN End(o, InHand(o), action = "error")
       ELSE Goto(o, "get")
    /\ UNCHANGED <<phase, todo, world, client, cloud, old, mishaps>>

\* Mutant of Visible: the entries that were fetched without the filter.
Visible_All(o) == vcd[o]

Visible(o) == IF filter THEN vcd[o] \ Ignored ELSE vcd[o]

\* setMetadataEntryInState: an empty list leaves the state as it is.
GetFiltered(o) ==
    /\ At(o, "get")
    /\ Overlaps(o)
    /\ \/ Fails(o)
       \/ /\ End(o, IF Visible(o) = {} THEN InHand(o) ELSE Visible(o), FALSE)
          /\ UNCHANGED mishaps
    /\ UNCHANGED <<phase, todo, world, client, cloud, old>>

HandlerStep(o) ==
    \/ DeleteOld(o) \/ Merge(o) \/ GetAll(o)
    \/ checkIgnoredMetadataConflicts(o) \/ GetFiltered(o)

Terraform == Refresh \/ Plan \/ EndRun \/ \E o \in Obj : Begin(o)

Next ==
    \/ \E o \in Obj : Edit(o) \/ Outside(o) \/ RemoveFilter(o) \/ HandlerStep(o)
    \/ Terraform

Spec == Init /\ [][Next]_vars

\* The user applies again and again; calls are answered or fail; a waiter gets the
\* lock that nobody else takes.
Fairness ==
    /\ WF_vars(Terraform)
    /\ \A o \in Obj : WF_vars(RemoveFilter(o) \/ HandlerStep(o))

FairSpec == Spec /\ Fairness
-----------------------------------------------------------------------------
\* The client has its filter whenever nobody is fetching all entries, also after
\* a fetch has failed: no handler puts back a filter that another one had taken
\* away.
FilterRestored == (\A o \in Obj : ~At(o, "window")) => filter

\* An ignored entry that the user has never configured is in the state of an object
\* only when a step of that object without the lock has met, at some time, the
\* window of another handler.
LeaksNeedARace == \A o \in Obj : (state[o] \cap Ignored) \ asked[o] # {} => raced[o]

\* The documentation calls ignored entries safe from removal.  One is lost from
\* Cloud Director only after two such meetings: one that has put it into the state,
\* and one at the time of the deletion.
Loses(o) ==
    /\ At(o, "delete") /\ outside' = outside
    /\ ((vcd[o] \ vcd'[o]) \cap Ignored) \ asked[o] # {}

LossNeedsTwoRaces == [][\A o \in Obj : Loses(o) => raced[o] /\ lock # NoOne]_vars

\* What the next refreshes do not repair.  A state with an ignored entry: Read reports
\* the conflict instead of reading, and with "error" nothing is applied any more.
Masked(o) ==
    \E p \in Obj : /\ state[p] \cap Ignored # {}
                   /\ action = "error" \/ (action = "warn" /\ p = o)

\* And an object of which nothing is visible: Read leaves the state as it is, and
\* the state is the plan of an Update that has failed, or of a time before somebody
\* else has removed the last entry.
Blank(o) == unmerged[o] /\ state[o] = wanted[o] /\ vcd[o] \subseteq Ignored

\* Applying again gets every object the entries it should have, and no more, from
\* wherever a failure, a race or somebody else has left it: except in these two
\* cases.  Without a failed Update and without a removal there is no such object.
EntriesConverge ==
    <>[]\A o \in Obj : Masked(o) \/ Blank(o) \/ vcd[o] \ Ignored = wanted[o] \ Ignored
===============================================================================
