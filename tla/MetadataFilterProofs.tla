------------------------- MODULE MetadataFilterProofs -------------------------
(* What the lock of the metadata filter guarantees, for every set of objects,  *)
(* of keys and of wishes, and without any bound.                               *)
EXTENDS MetadataFilter, TLAPS

\* What the steps need to know of the shape of the variables.
ShapeOK ==
    /\ filter \in BOOLEAN /\ kept \in [Obj -> BOOLEAN] /\ raced \in [Obj -> BOOLEAN]
    /\ op \in [Obj -> {"none", "read", "update"}] /\ pc \in [Obj -> Step]
    /\ lock \in Obj \cup {NoOne}
    /\ DOMAIN vcd = Obj /\ DOMAIN state = Obj /\ DOMAIN old = Obj
    /\ DOMAIN wanted = Obj /\ DOMAIN asked = Obj
    /\ outside \in Nat

\* The filter is away exactly while somebody holds the lock, and who holds it has
\* the filter to put back.
LockInv ==
    /\ \A o \in Obj : At(o, "window") <=> lock = o
    /\ filter <=> lock = NoOne
    /\ \A o \in Obj : At(o, "window") => kept[o]

Foreign(o, keys) == (keys \cap Ignored) \ asked[o] # {}

\* What an object has in hand of other people's ignored entries, it has from a race.
RaceInv ==
    \A o \in Obj :
        /\ wanted[o] \subseteq asked[o]
        /\ Foreign(o, state[o]) => raced[o]
        /\ Foreign(o, old[o]) => raced[o]

\* No second handler starts on an object.
RestInv ==
    /\ \A o \in todo : op[o] = "none"
    /\ phase = "idle" => \A o \in Obj : op[o] = "none"
    /\ todo \subseteq Obj

Inv == ShapeOK /\ LockInv /\ RaceInv /\ RestInv

\* The filter is in place, the lock is free and no handler runs.
LEMMA InitInv == Init => Inv
  BY NoOneAssumption DEF Init, Inv, ShapeOK, LockInv, RaceInv, RestInv, Foreign, At, Step, Key

\* A step of Terraform or the user keeps what the handlers and the client have.
LEMMA StutterInv ==
    ASSUME ShapeOK, LockInv, RaceInv,
           UNCHANGED <<client, wanted, asked, state, old, op, pc, raced>>,
           DOMAIN vcd' = Obj, outside' \in Nat
    PROVE  ShapeOK' /\ LockInv' /\ RaceInv'
  BY DEF ShapeOK, LockInv, RaceInv, Foreign, At, client

\* A step outside the window that goes on or returns, and leaves the client alone.
GoesOn(o) == \E step \in Step \ {"window"} : Goto(o, step)
Returns(o) == \E value, error : End(o, value, error)

\* Without the lock a handler leaves the lock, the filter and the other objects alone.
LEMMA OutsideTheWindow ==
    ASSUME Inv, NEW o \in Obj, NEW step, step # "window", At(o, step),
           GoesOn(o) \/ Returns(o), UNCHANGED <<client, phase, todo>>
    PROVE  /\ LockInv' /\ RestInv'
           /\ op' \in [Obj -> {"none", "read", "update"}] /\ pc' \in [Obj -> Step]
           /\ DOMAIN state' = Obj /\ \A p \in Obj \ {o} : state'[p] = state[p]
  <1>1. op' \in [Obj -> {"none", "read", "update"}] /\ pc' \in [Obj -> Step] /\ DOMAIN state' = Obj
    BY DEF Inv, ShapeOK, GoesOn, Returns, Goto, End
  <1>2. At(o, "window")' <=> At(o, "window")
    BY DEF Inv, ShapeOK, GoesOn, Returns, Goto, End, At
  <1>3. \A p \in Obj \ {o} : At(p, "window")' <=> At(p, "window")
    BY DEF Inv, ShapeOK, GoesOn, Returns, Goto, End, At
  <1>4. LockInv'
    BY <1>2, <1>3 DEF Inv, LockInv, client
  <1>5. RestInv'
    BY DEF Inv, ShapeOK, RestInv, GoesOn, Returns, Goto, End
  <1>6. \A p \in Obj \ {o} : state'[p] = state[p]
    BY DEF Inv, ShapeOK, GoesOn, Returns, Goto, End
  <1> QED  BY <1>1, <1>4, <1>5, <1>6

\* What a handler returns, and what it has still to delete, come with the mark of
\* their race.
LEMMA RaceKept ==
    ASSUME Inv, NEW o \in Obj, UNCHANGED <<wanted, asked>>,
           raced' \in [Obj -> BOOLEAN], \A p \in Obj : raced[p] => raced'[p],
           \A p \in Obj : old'[p] \subseteq old[p],
           \A p \in Obj \ {o} : state'[p] = state[p],
           Foreign(o, state'[o]) => raced'[o]
    PROVE  RaceInv'
  BY DEF Inv, ShapeOK, RaceInv, Foreign

\* Every step keeps the invariant.
LEMMA StepInv == Inv /\ [Next]_vars => Inv'
  <1> SUFFICES ASSUME Inv, [Next]_vars PROVE Inv'
    OBVIOUS
  <1>1. ASSUME NEW o \in Obj, Edit(o) PROVE Inv'
    BY <1>1 DEF Inv, Edit, ShapeOK, LockInv, RaceInv, RestInv, Foreign, At, client, cloud, run
  <1>2. ASSUME NEW o \in Obj, Outside(o) PROVE Inv'
    BY <1>2 DEF Inv, Outside, ShapeOK, LockInv, RaceInv, RestInv, Foreign, At, client, run
  <1>3. ASSUME NEW o \in Obj, Begin(o) PROVE Inv'
    BY <1>3 DEF Inv, Begin, BeginRead, BeginUpdate, ShapeOK, LockInv, RaceInv, RestInv, Foreign, At,
                client, cloud, world, Step
  <1>4. ASSUME NEW o \in Obj, RemoveFilter(o) PROVE Inv'
    BY <1>4, NoOneAssumption
       DEF Inv, RemoveFilter, Goto, ShapeOK, LockInv, RaceInv, RestInv, Foreign, At, world, cloud,
           Step
  <1>5. ASSUME NEW o \in Obj, DeleteOld(o) PROVE Inv'
    <2>1. GoesOn(o) \/ Returns(o)
      BY <1>5 DEF DeleteOld, Fails, GoesOn, Returns, Step
    <2>2. PICK step : step # "window" /\ At(o, step) /\ UNCHANGED <<client, phase, todo>>
      BY <1>5 DEF DeleteOld
    <2>3. /\ LockInv' /\ RestInv'
          /\ op' \in [Obj -> {"none", "read", "update"}] /\ pc' \in [Obj -> Step]
          /\ DOMAIN state' = Obj /\ \A p \in Obj \ {o} : state'[p] = state[p]
      BY <2>1, <2>2, OutsideTheWindow
    <2>4. /\ UNCHANGED <<wanted, asked, outside>> /\ raced' \in [Obj -> BOOLEAN]
          /\ \A p \in Obj : raced[p] => raced'[p]
      BY <1>5 DEF DeleteOld, Overlaps, Inv, ShapeOK, world
    <2>5. DOMAIN old' = Obj /\ DOMAIN vcd' = Obj /\ \A p \in Obj : old'[p] \subseteq old[p]
      <3>1. \/ UNCHANGED <<old, vcd>>
            \/ \E k : old' = [old EXCEPT ![o] = @ \ {k}]
                    /\ (vcd' = vcd \/ vcd' = [vcd EXCEPT ![o] = @ \ {k}])
        BY <1>5 DEF DeleteOld
      <3>2. DOMAIN old = Obj /\ DOMAIN vcd = Obj
        BY DEF Inv, ShapeOK
      <3>3. QED
        BY <3>1, <3>2
    <2>6. Foreign(o, state'[o]) => raced'[o]
      BY <1>5 DEF DeleteOld, Goto, End, Fails, InHand, Overlaps, Inv, ShapeOK, RaceInv, Foreign
    <2>7. RaceInv'
      BY <2>3, <2>4, <2>5, <2>6, RaceKept
    <2> QED
      BY <2>2, <2>3, <2>4, <2>5, <2>7 DEF Inv, ShapeOK, client
  <1>6. ASSUME NEW o \in Obj, Merge(o) PROVE Inv'
    <2>1. GoesOn(o) \/ Returns(o)
      BY <1>6 DEF Merge, MergeNew, Fails, GoesOn, Returns, Step
    <2>2. PICK step : step # "window" /\ At(o, step) /\ UNCHANGED <<client, phase, todo>>
      BY <1>6 DEF Merge, MergeNew
    <2>3. /\ LockInv' /\ RestInv'
          /\ op' \in [Obj -> {"none", "read", "update"}] /\ pc' \in [Obj -> Step]
          /\ DOMAIN state' = Obj /\ \A p \in Obj \ {o} : state'[p] = state[p]
      BY <2>1, <2>2, OutsideTheWindow
    <2>4. /\ UNCHANGED <<wanted, asked, outside>> /\ raced' \in [Obj -> BOOLEAN]
          /\ \A p \in Obj : raced[p] => raced'[p]
      BY <1>6 DEF Merge, MergeNew, Overlaps, Inv, ShapeOK, world
    <2>5. DOMAIN old' = Obj /\ DOMAIN vcd' = Obj /\ \A p \in Obj : old'[p] \subseteq old[p]
      BY <1>6 DEF Merge, MergeNew, Inv, ShapeOK
    <2>6. Foreign(o, state'[o]) => raced'[o]
      BY <1>6 DEF Merge, MergeNew, Goto, End, Fails, InHand, Overlaps, Inv, ShapeOK,
                  RaceInv, Foreign
    <2>7. RaceInv'
      BY <2>3, <2>4, <2>5, <2>6, RaceKept
    <2> QED
      BY <2>2, <2>3, <2>4, <2>5, <2>7 DEF Inv, ShapeOK, client
  <1>7. ASSUME NEW o \in Obj, GetAll(o) PROVE Inv'
    BY <1>7, NoOneAssumption
       DEF Inv, GetAll, Goto, End, Fails, InHand, ShapeOK, LockInv, RaceInv, RestInv, Foreign, At,
           world, cloud, Step
  <1>8. ASSUME NEW o \in Obj, checkIgnoredMetadataConflicts(o) PROVE Inv'
    <2>1. GoesOn(o) \/ Returns(o)
      BY <1>8 DEF checkIgnoredMetadataConflicts, Fails, GoesOn, Returns, Step
    <2>2. PICK step : step # "window" /\ At(o, step) /\ UNCHANGED <<client, phase, todo>>
      BY <1>8 DEF checkIgnoredMetadataConflicts
    <2>3. /\ LockInv' /\ RestInv'
          /\ op' \in [Obj -> {"none", "read", "update"}] /\ pc' \in [Obj -> Step]
          /\ DOMAIN state' = Obj /\ \A p \in Obj \ {o} : state'[p] = state[p]
      BY <2>1, <2>2, OutsideTheWindow
    <2>4. /\ UNCHANGED <<wanted, asked, outside>> /\ raced' \in [Obj -> BOOLEAN]
          /\ \A p \in Obj : raced[p] => raced'[p]
      BY <1>8 DEF checkIgnoredMetadataConflicts, Overlaps, Inv, ShapeOK, world
    <2>5. DOMAIN old' = Obj /\ DOMAIN vcd' = Obj /\ \A p \in Obj : old'[p] \subseteq old[p]
      BY <1>8 DEF checkIgnoredMetadataConflicts, Inv, ShapeOK, cloud
    <2>6. Foreign(o, state'[o]) => raced'[o]
      BY <1>8 DEF checkIgnoredMetadataConflicts, Goto, End, Fails, InHand, Overlaps, Inv, ShapeOK,
                  RaceInv, Foreign
    <2>7. RaceInv'
      BY <2>3, <2>4, <2>5, <2>6, RaceKept
    <2> QED
      BY <2>2, <2>3, <2>4, <2>5, <2>7 DEF Inv, ShapeOK, client
  <1>9. ASSUME NEW o \in Obj, GetFiltered(o) PROVE Inv'
    <2>1. GoesOn(o) \/ Returns(o)
      BY <1>9 DEF GetFiltered, Fails, GoesOn, Returns, Step
    <2>2. PICK step : step # "window" /\ At(o, step) /\ UNCHANGED <<client, phase, todo>>
      BY <1>9 DEF GetFiltered
    <2>3. /\ LockInv' /\ RestInv'
          /\ op' \in [Obj -> {"none", "read", "update"}] /\ pc' \in [Obj -> Step]
          /\ DOMAIN state' = Obj /\ \A p \in Obj \ {o} : state'[p] = state[p]
      BY <2>1, <2>2, OutsideTheWindow
    <2>4. /\ UNCHANGED <<wanted, asked, outside>> /\ raced' \in [Obj -> BOOLEAN]
          /\ \A p \in Obj : raced[p] => raced'[p]
      BY <1>9 DEF GetFiltered, Overlaps, Inv, ShapeOK, world
    <2>5. DOMAIN old' = Obj /\ DOMAIN vcd' = Obj /\ \A p \in Obj : old'[p] \subseteq old[p]
      BY <1>9 DEF GetFiltered, Inv, ShapeOK, cloud
    <2>6. Foreign(o, state'[o]) => raced'[o]
      BY <1>9 DEF GetFiltered, Goto, End, Fails, InHand, Overlaps, Inv, ShapeOK,
                  RaceInv, Foreign, Visible
    <2>7. RaceInv'
      BY <2>3, <2>4, <2>5, <2>6, RaceKept
    <2> QED
      BY <2>2, <2>3, <2>4, <2>5, <2>7 DEF Inv, ShapeOK, client
  <1>10. CASE Refresh \/ Plan \/ EndRun \/ UNCHANGED vars
    <2>1. ShapeOK' /\ LockInv' /\ RaceInv'
      BY <1>10, StutterInv DEF Refresh, Plan, EndRun, vars, world, client, cloud, Inv, ShapeOK
    <2>2. RestInv'
      BY <1>10 DEF Refresh, Plan, EndRun, Resting, vars, run, Inv, RestInv
    <2> QED  BY <2>1, <2>2 DEF Inv
  <1> QED
    BY <1>1, <1>2, <1>3, <1>4, <1>5, <1>6, <1>7, <1>8, <1>9, <1>10
       DEF Next, Terraform, HandlerStep

\* The invariant holds in every state of the handlers that share the client.
THEOREM Invariant == Spec => []Inv
  BY InitInv, StepInv, PTL DEF Spec

\* Outside the window of a handler that fetches all entries, the client has its
\* filter.
THEOREM FilterRestoredHolds == Spec => []FilterRestored
  <1>1. Inv => FilterRestored
    BY DEF Inv, ShapeOK, LockInv, FilterRestored
  <1> QED  BY <1>1, Invariant, PTL

\* An ignored entry that the user never configured comes into the state by a race
\* only.
THEOREM LeaksNeedARaceHolds == Spec => []LeaksNeedARace
  <1>1. Inv => LeaksNeedARace
    BY DEF Inv, RaceInv, Foreign, LeaksNeedARace
  <1> QED  BY <1>1, Invariant, PTL

\* What a deletion takes from Cloud Director was in the hand of the update, and is
\* ignored only while the filter is away.
LEMMA OnlyDeletionsLose ==
    ASSUME Inv, Next, NEW o \in Obj, Loses(o)
    PROVE  /\ Foreign(o, old[o])
           /\ ~filter
  <1> USE DEF Loses
  <1>1. ASSUME NEW p \in Obj, Edit(p) \/ Begin(p) \/ RemoveFilter(p) \/ GetAll(p)
                              \/ checkIgnoredMetadataConflicts(p) \/ GetFiltered(p)
        PROVE FALSE
    BY <1>1 DEF Edit, Begin, RemoveFilter, GetAll, checkIgnoredMetadataConflicts, GetFiltered,
                cloud
  <1>2. ASSUME NEW p \in Obj, Merge(p) PROVE FALSE
    BY <1>2 DEF Merge, MergeNew, Inv, ShapeOK
  <1>3. ASSUME NEW p \in Obj, Outside(p) PROVE FALSE
    BY <1>3 DEF Outside, Inv, ShapeOK
  <1>4. ASSUME NEW p \in Obj, DeleteOld(p) PROVE Foreign(o, old[o]) /\ ~filter
    <2>1. p = o
      BY <1>4 DEF DeleteOld, Inv, ShapeOK
    <2>2. PICK k \in old[o] : /\ vcd' = [vcd EXCEPT ![o] = @ \ {k}]
                              /\ ~(filter /\ k \in Ignored)
      BY <1>4, <2>1 DEF DeleteOld
    <2>3. k \in Ignored /\ k \notin asked[o]
      BY <2>2 DEF Inv, ShapeOK
    <2> QED  BY <2>2, <2>3 DEF Foreign
  <1> QED
    BY <1>1, <1>2, <1>3, <1>4 DEF Next, Terraform, HandlerStep, Refresh, Plan, EndRun, cloud

\* A deletion that loses a foreign ignored entry needs a race at the time of the
\* fetch and another one at the time of the deletion.
THEOREM LossNeedsTwoRacesHolds == Spec => LossNeedsTwoRaces
  <1>1. Inv /\ [Next]_vars => [\A o \in Obj : Loses(o) => raced[o] /\ lock # NoOne]_vars
    <2> SUFFICES ASSUME Inv, Next, NEW o \in Obj, Loses(o)
                 PROVE  raced[o] /\ lock # NoOne
      OBVIOUS
    <2>1. Foreign(o, old[o]) /\ ~filter
      BY OnlyDeletionsLose
    <2> QED  BY <2>1 DEF Inv, LockInv, RaceInv
  <1> QED  BY <1>1, Invariant, PTL DEF Spec, LossNeedsTwoRaces
===============================================================================
