--------------------------- MODULE DiskUpdateProofs ---------------------------
(***************************************************************************)
(* The locks of DiskUpdate do what the comment of the code says, for every *)
(* number of disks and VMs: updates that share a VM exclude each other,    *)
(* and the global lock leaves no circle of waiting updates.  And an update *)
(* brings its disk back to where it was, or leaves it detached.            *)
(***************************************************************************)
EXTENDS DiskUpdate, TLAPS

\* The steps at which VM locks may be held.
Locking(d) == pc[d] = "lock" \/ Working(d) \/ pc[d] = "unlock"

\* Every update holds the locks that its step says, and no others.
LocksOfStep ==
    /\ \A d \in Disk : todo[d] \subseteq vms[d] /\ (pc[d] = "global" => todo[d] = vms[d])
    /\ \A d \in Disk : \A v \in vms[d] :
          /\ Working(d) => holder[v] = d
          /\ pc[d] = "lock" /\ v \notin todo[d] => holder[v] = d
          /\ pc[d] = "unlock" /\ v \in todo[d] => holder[v] = d
    /\ \A d \in Disk : \A v \in VM : holder[v] = d =>
          /\ v \in vms[d]
          /\ Locking(d)
          /\ pc[d] = "lock" => v \notin todo[d]
          /\ pc[d] = "unlock" => v \in todo[d]
    /\ \A d \in Disk : Locking(d) /\ Several(vms[d]) => holder[Global] = d

IInv == TypeOK /\ LocksOfStep

\* No update has begun: no lock is held.
LEMMA InitInv == Init => IInv
BY DistinctAssumption, BoundsAssumption, SMT
DEF Init, IInv, TypeOK, LocksOfStep, Locking, Working, Key, Slot, Step, Nowhere

\* The types of the control state.
Control == pc \in [Disk -> Step] /\ todo \in [Disk -> SUBSET VM]

\* Where an update goes next is a step of the program.
LEMMA GotoType ==
  ASSUME Control, NEW d \in Disk, NEW step \in Step, NEW left \in SUBSET VM, Goto(d, step, left)
  PROVE  Control'
BY SMT DEF Control, Goto

\* So are the types kept when a call fails,
LEMMA FailsType ==
  ASSUME TypeOK, NEW d \in Disk, Fails(d)
  PROVE  Control' /\ outcome' \in [Disk -> {"none", "ok", "failed"}] /\ faults' \in 0 .. Faults
<1>1. Control'
  BY GotoType DEF Fails, TypeOK, Control, Step
<1>2. outcome' \in [Disk -> {"none", "ok", "failed"}]
  BY SMT DEF Fails, TypeOK
<1>3. faults' \in 0 .. Faults
  BY BoundsAssumption, SMT DEF Fails, TypeOK
<1> QED
  BY <1>1, <1>2, <1>3

\* or when the update itself gives up.
LEMMA RefusedType ==
  ASSUME TypeOK, NEW d \in Disk, Refused(d)
  PROVE  Control' /\ outcome' \in [Disk -> {"none", "ok", "failed"}] /\ faults' \in 0 .. Faults
<1>1. Control'
  BY GotoType DEF Refused, TypeOK, Control, Step
<1>2. outcome' \in [Disk -> {"none", "ok", "failed"}]
  BY SMT DEF Refused, TypeOK
<1>3. faults' \in 0 .. Faults
  BY SMT DEF Refused, TypeOK
<1> QED
  BY <1>1, <1>2, <1>3

\* Each step of an update keeps the types.
LEMMA UpdateType ==
  ASSUME NEW f \in [Disk -> [VM -> Slot]], NEW d \in Disk, NEW v \in VM, NEW s \in Slot,
         NEW g, g = [f EXCEPT ![d][v] = s] \/ g = f
  PROVE  g \in [Disk -> [VM -> Slot]]
<1>1. [f[d] EXCEPT ![v] = s] \in [VM -> Slot]
  OBVIOUS
<1> QED
  BY <1>1

\* The type invariant is inductive.
LEMMA TypeInductive == TypeOK /\ [Next]_vars => TypeOK'
<1> SUFFICES ASSUME TypeOK, [Next]_vars PROVE TypeOK'
  OBVIOUS
<1>0. Control
  BY DEF TypeOK, Control
<1> USE DEF TypeOK, Stay, locals, bounds
<1>1. ASSUME NEW d \in Disk, Start(d) PROVE TypeOK'
  <2>1. On(d) \in SUBSET VM
    BY DEF On
  <2>2. Control'
    BY <1>1, <1>0, GotoType, <2>1 DEF Start, Step
  <2> QED
    <3>1. vms' \in [Disk -> SUBSET VM]
      BY <1>1, <2>1 DEF Start
    <3>2. touched' \in [Disk -> BOOLEAN]
      BY <1>1 DEF Start
    <3>3. UNCHANGED <<attached, holder, seen, at, outcome, changed, faults, vmSteps>>
      BY <1>1 DEF Start
    <3> QED
      BY <2>2, <3>1, <3>2, <3>3, Zenon DEF Control
<1>2. ASSUME NEW d \in Disk, LockGlobal(d) PROVE TypeOK'
  <2>1. Control'
    BY <1>2, <1>0, GotoType DEF LockGlobal, Step
  <2> QED
    BY <1>2, <2>1, SMT DEF LockGlobal, Control, Key
<1>3. ASSUME NEW d \in Disk, LoopEnds(d) PROVE TypeOK'
  <2>1. Control'
    BY <1>3, <1>0, SMT DEF LoopEnds, Step, Control, Goto
  <2> QED
    BY <1>3, <2>1, SMT DEF LoopEnds, Control
<1>4. ASSUME NEW d \in Disk, NEW v \in VM, LockVm(d, v) PROVE TypeOK'
  <2>1. Control'
    BY <1>4, <1>0, GotoType, todo[d] \ {v} \in SUBSET VM DEF LockVm
  <2> QED
    BY <1>4, <2>1, SMT DEF LockVm, Control, Key
<1>5. ASSUME NEW d \in Disk, NEW v \in VM, FetchVm(d, v) PROVE TypeOK'
  <2>1. Control'
    BY <1>5, <1>0, GotoType, FailsType, RefusedType, todo[d] \ {v} \in SUBSET VM DEF FetchVm, Step
  <2>2. outcome' \in [Disk -> {"none", "ok", "failed"}] /\ faults' \in 0 .. Faults
    BY <1>5, FailsType, RefusedType DEF FetchVm
  <2> QED
    <3>1. seen' \in [Disk -> [VM -> Slot]]
      <4>1. seen' = [seen EXCEPT ![d][v] = attached[d][v]] \/ seen' = seen
        BY <1>5 DEF FetchVm
      <4> QED
        BY <4>1, attached[d][v] \in Slot, UpdateType, Zenon
    <3>2. UNCHANGED <<attached, holder, vms, at, changed, touched, vmSteps>>
      BY <1>5 DEF FetchVm, Fails, Refused
    <3> QED
      BY <2>1, <2>2, <3>1, <3>2, Zenon DEF Control
<1>6. ASSUME NEW d \in Disk, NEW v \in VM, DetachVm(d, v) PROVE TypeOK'
  <2>1. Control'
    BY <1>6, <1>0, GotoType, FailsType, RefusedType, todo[d] \ {v} \in SUBSET VM DEF DetachVm, Step
  <2>2. outcome' \in [Disk -> {"none", "ok", "failed"}] /\ faults' \in 0 .. Faults
    BY <1>6, FailsType, RefusedType DEF DetachVm
  <2> QED
    <3>1. at' \in [Disk -> VM]
      BY <1>6, SMT DEF DetachVm
    <3>2. UNCHANGED <<attached, holder, vms, seen, changed, touched, vmSteps>>
      BY <1>6 DEF DetachVm, Fails, Refused
    <3> QED
      BY <2>1, <2>2, <3>1, <3>2, Zenon DEF Control
<1>7. ASSUME NEW d \in Disk, NEW v \in VM, AttachVm(d, v) PROVE TypeOK'
  <2>1. Control'
    BY <1>7, <1>0, GotoType, FailsType, RefusedType, todo[d] \ {v} \in SUBSET VM DEF AttachVm, Step
  <2>2. outcome' \in [Disk -> {"none", "ok", "failed"}] /\ faults' \in 0 .. Faults
    BY <1>7, FailsType, RefusedType DEF AttachVm
  <2> QED
    <3>1. at' \in [Disk -> VM]
      <4>1. at' = [at EXCEPT ![d] = v] \/ at' = at
        BY <1>7 DEF AttachVm
      <4> QED
        BY <4>1
    <3>2. UNCHANGED <<attached, holder, vms, seen, changed, touched, vmSteps>>
      BY <1>7 DEF AttachVm, Fails, Refused
    <3> QED
      BY <2>1, <2>2, <3>1, <3>2, Zenon DEF Control
<1>8. ASSUME NEW d \in Disk, NEW v \in VM, UnlockVm(d, v) PROVE TypeOK'
  <2>1. Control'
    BY <1>8, <1>0, GotoType, todo[d] \ {v} \in SUBSET VM DEF UnlockVm
  <2> QED
    BY <1>8, <2>1, SMT DEF UnlockVm, Control, Key
<1>9. ASSUME NEW d \in Disk, Detached(d) PROVE TypeOK'
  <2>1. Control'
    BY <1>9, <1>0, GotoType, FailsType, RefusedType DEF Detached, Step
  <2>2. outcome' \in [Disk -> {"none", "ok", "failed"}] /\ faults' \in 0 .. Faults
    BY <1>9, FailsType, RefusedType DEF Detached
  <2> QED
    <3>1. attached' \in [Disk -> [VM -> Slot]]
      <4>1. attached' = [attached EXCEPT ![d][at[d]] = NoSlot] \/ attached' = attached
        BY <1>9 DEF Detached
      <4> QED
        BY <4>1, at[d] \in VM, NoSlot \in Slot, UpdateType, Zenon DEF Slot
    <3>2. UNCHANGED <<holder, vms, seen, at, changed, touched, vmSteps>>
      BY <1>9 DEF Detached, Slot, Fails, Refused
    <3> QED
      BY <2>1, <2>2, <3>1, <3>2, Zenon DEF Control
<1>10. ASSUME NEW d \in Disk, UpdateDisk(d) PROVE TypeOK'
  <2>1. Control'
    BY <1>10, <1>0, GotoType, FailsType, RefusedType DEF UpdateDisk, Step
  <2>2. outcome' \in [Disk -> {"none", "ok", "failed"}] /\ faults' \in 0 .. Faults
    BY <1>10, FailsType, RefusedType DEF UpdateDisk
  <2> QED
    <3>1. changed' \in [Disk -> BOOLEAN]
      BY <1>10, Zenon DEF UpdateDisk
    <3>2. UNCHANGED <<attached, holder, vms, seen, at, touched, vmSteps>>
      BY <1>10 DEF UpdateDisk, Fails, Refused
    <3> QED
      BY <2>1, <2>2, <3>1, <3>2, Zenon DEF Control
<1>11. ASSUME NEW d \in Disk, Attached(d) PROVE TypeOK'
  <2>1. Control'
    BY <1>11, <1>0, GotoType, FailsType, RefusedType DEF Attached, Step
  <2>2. outcome' \in [Disk -> {"none", "ok", "failed"}] /\ faults' \in 0 .. Faults
    BY <1>11, FailsType, RefusedType DEF Attached
  <2> QED
    <3>1. attached' \in [Disk -> [VM -> Slot]]
      <4>1. attached' = [attached EXCEPT ![d][at[d]] = seen[d][at[d]]] \/ attached' = attached
        BY <1>11 DEF Attached
      <4> QED
        BY <4>1, at[d] \in VM, seen[d][at[d]] \in Slot, UpdateType, Zenon
    <3>2. UNCHANGED <<holder, vms, seen, at, changed, touched, vmSteps>>
      BY <1>11 DEF Attached, Fails, Refused
    <3> QED
      BY <2>1, <2>2, <3>1, <3>2, Zenon DEF Control
<1>12. ASSUME NEW d \in Disk, Finish(d) PROVE TypeOK'
  <2>1. Control'
    BY <1>12, <1>0, GotoType, FailsType, RefusedType DEF Finish, Step
  <2>2. outcome' \in [Disk -> {"none", "ok", "failed"}] /\ faults' \in 0 .. Faults
    BY <1>12, FailsType, RefusedType DEF Finish
  <2> QED
    BY <1>12, <2>1, <2>2, SMT DEF Finish, Control, Slot
<1>13. ASSUME NEW d \in Disk, UnlockGlobal(d) PROVE TypeOK'
  <2>1. Control'
    BY <1>13, <1>0, GotoType DEF UnlockGlobal, Step
  <2> QED
    BY <1>13, <2>1, SMT DEF UnlockGlobal, Control, Key
<1>14. ASSUME NEW d \in Disk, NEW v \in VM, VmMoves(d, v) PROVE TypeOK'
  BY <1>14, BoundsAssumption, SMT DEF VmMoves
<1>15. CASE UNCHANGED vars
  BY <1>15, SMT DEF vars
<1> QED
  BY <1>1, <1>2, <1>3, <1>4, <1>5, <1>6, <1>7, <1>8, <1>9, <1>10, <1>11, <1>12,
     <1>13, <1>14, <1>15 DEF Next, UpdateStep

\* What an update does under its locks: it stays there, or it goes on to the
\* unlocks with every lock still to be released.
Proceeds(d) ==
    /\ Working(d)
    /\ \/ \E step \in {"fetch", "detach", "detaching", "update", "attach", "attaching", "finish"},
             left \in SUBSET vms[d] : Goto(d, step, left)
       \/ Goto(d, "unlock", vms[d])
    /\ UNCHANGED <<holder, vms>>

\* A step that only goes on leaves the locks as they should be at the next one.
LEMMA ProceedsKeepsLocks ==
  ASSUME TypeOK, LocksOfStep, NEW d \in Disk, Proceeds(d)
  PROVE  LocksOfStep'
<1>1. \/ Working(d)' /\ todo[d]' \subseteq vms[d]
      \/ pc'[d] = "unlock" /\ todo'[d] = vms[d]
  BY SMT DEF TypeOK, Proceeds, Goto, Working
<1>2. \A e \in Disk \ {d} : pc'[e] = pc[e] /\ todo'[e] = todo[e]
  BY SMT DEF TypeOK, Proceeds, Goto
<1>3. holder' = holder /\ vms' = vms /\ Working(d)
  BY DEF Proceeds
<1>4. \A e \in Disk : todo'[e] \subseteq vms'[e] /\ (pc'[e] = "global" => todo'[e] = vms'[e])
  BY <1>1, <1>2, <1>3 DEF LocksOfStep, Working
<1> USE DEF LocksOfStep, Locking, Working
<1>5. \A e \in Disk \ {d} : (Locking(e))' = Locking(e) /\ (Working(e))' = Working(e)
  BY <1>2
<1>6. (Locking(d))' /\ Locking(d) /\ pc[d] # "lock" /\ pc'[d] # "lock"
  BY <1>1, <1>3
<1> HIDE DEF Locking, Working
<1>7. \A e \in Disk : \A v \in vms'[e] :
          /\ (Working(e))' => holder'[v] = e
          /\ pc'[e] = "lock" /\ v \notin todo'[e] => holder'[v] = e
          /\ pc'[e] = "unlock" /\ v \in todo'[e] => holder'[v] = e
  BY <1>1, <1>2, <1>3, <1>5, <1>6, SMT
<1>8. \A e \in Disk : \A v \in VM : holder'[v] = e =>
          /\ v \in vms'[e]
          /\ (Locking(e))'
          /\ pc'[e] = "lock" => v \notin todo'[e]
          /\ pc'[e] = "unlock" => v \in todo'[e]
  BY <1>1, <1>2, <1>3, <1>5, <1>6, SMT DEF Working
<1>9. \A e \in Disk : (Locking(e))' /\ Several(vms'[e]) => holder'[Global] = e
  BY <1>3, <1>5, <1>6, SMT
<1> QED
  BY <1>4, <1>7, <1>8, <1>9 DEF Several

\* Every step of the work between the locks does no more than go on.
LEMMA WorkProceeds ==
  ASSUME TypeOK, LocksOfStep, NEW d \in Disk,
         \/ \E v \in VM : FetchVm(d, v) \/ DetachVm(d, v) \/ AttachVm(d, v)
         \/ Detached(d) \/ UpdateDisk(d) \/ Attached(d) \/ Finish(d)
  PROVE  Proceeds(d)
<1> USE DEF TypeOK, LocksOfStep, Proceeds, Working, Stay, Fails, Refused, locals, bounds
<1>1. CASE \E v \in VM : FetchVm(d, v)
  BY <1>1 DEF FetchVm
<1>2. CASE \E v \in VM : DetachVm(d, v)
  BY <1>2 DEF DetachVm
<1>3. CASE \E v \in VM : AttachVm(d, v)
  BY <1>3 DEF AttachVm
<1>4. CASE Detached(d)
  BY <1>4 DEF Detached
<1>5. CASE UpdateDisk(d)
  BY <1>5 DEF UpdateDisk
<1>6. CASE Attached(d)
  BY <1>6 DEF Attached
<1>7. CASE Finish(d)
  BY <1>7 DEF Finish
<1> QED
  BY <1>1, <1>2, <1>3, <1>4, <1>5, <1>6, <1>7

\* The locks that are held are those of the step, in every state.
LEMMA LocksInductive == IInv /\ [Next]_vars => LocksOfStep'
<1> SUFFICES ASSUME TypeOK, LocksOfStep, [Next]_vars PROVE LocksOfStep'
  BY DEF IInv
<1> USE DistinctAssumption
    DEF TypeOK, Key, LocksOfStep, Locking, Working, Goto, Stay, locals, bounds
<1>1. ASSUME NEW d \in Disk, Start(d) PROVE LocksOfStep'
  BY <1>1, SMT DEF Start, On, Several
<1>2. ASSUME NEW d \in Disk, LockGlobal(d) PROVE LocksOfStep'
  <2>1. pc' = [pc EXCEPT ![d] = "lock"] /\ todo' = [todo EXCEPT ![d] = todo[d]] /\ vms' = vms
    BY <1>2 DEF LockGlobal
  <2>2. holder'[Global] = d /\ holder[Global] = Free /\ \A v \in VM : holder'[v] = holder[v]
    BY <1>2, SMT DEF LockGlobal
  <2>3. pc[d] = "global"
    BY <1>2 DEF LockGlobal
  <2>4. /\ \A e \in Disk : todo'[e] = todo[e]
        /\ \A e \in Disk \ {d} : pc'[e] = pc[e]
        /\ pc'[d] = "lock"
    BY <2>1
  <2>5. \A v \in VM : holder[v] # d
    BY <2>3
  <2>6. \A e \in Disk : \A v \in VM : holder'[v] = e =>
          /\ v \in vms'[e]
          /\ (Locking(e))'
          /\ pc'[e] = "lock" => v \notin todo'[e]
          /\ pc'[e] = "unlock" => v \in todo'[e]
    BY <2>1, <2>2, <2>4, <2>5, SMT
  <2>7. \A e \in Disk : (Locking(e))' /\ Several(vms[e]) => holder'[Global] = e
    BY <2>1, <2>2, <2>4, SMT
  <2>8. \A e \in Disk : \A v \in vms[e] :
          /\ (Working(e))' => holder'[v] = e
          /\ pc'[e] = "lock" /\ v \notin todo'[e] => holder'[v] = e
          /\ pc'[e] = "unlock" /\ v \in todo'[e] => holder'[v] = e
    BY <2>1, <2>2, <2>3, <2>4, SMT
  <2> QED
    BY <2>1, <2>4, <2>6, <2>7, <2>8 DEF Several
<1>3. ASSUME NEW d \in Disk, LoopEnds(d) PROVE LocksOfStep'
  BY <1>3, SMT DEF LoopEnds
<1>4. ASSUME NEW d \in Disk, NEW v \in VM, LockVm(d, v) PROVE LocksOfStep'
  BY <1>4, SMT DEF LockVm
<1>5. ASSUME NEW d \in Disk, Proceeds(d) PROVE LocksOfStep'
  BY <1>5, ProceedsKeepsLocks
<1>6. ASSUME NEW d \in Disk, NEW v \in VM, UnlockVm(d, v) PROVE LocksOfStep'
  BY <1>6, SMT DEF UnlockVm
<1>7. ASSUME NEW d \in Disk, UnlockGlobal(d) PROVE LocksOfStep'
  <2>1. pc' = [pc EXCEPT ![d] = "done"] /\ todo' = [todo EXCEPT ![d] = {}] /\ vms' = vms
    BY <1>7 DEF UnlockGlobal
  <2>2. \A v \in VM : holder'[v] = holder[v]
    BY <1>7, SMT DEF UnlockGlobal
  <2>3. \A e \in Disk \ {d} : holder[Global] = e => holder'[Global] = e
    BY <1>7, SMT DEF UnlockGlobal
  <2>4. /\ pc[d] = "unlock" /\ pc'[d] = "done" /\ todo[d] = {} /\ todo'[d] = {}
        /\ \A e \in Disk \ {d} : pc'[e] = pc[e] /\ todo'[e] = todo[e]
    BY <1>7, <2>1 DEF UnlockGlobal
  <2>5. \A v \in VM : holder[v] # d
    BY <2>4
  <2>6. \A e \in Disk : \A v \in VM : holder'[v] = e =>
          /\ v \in vms'[e]
          /\ (Locking(e))'
          /\ pc'[e] = "lock" => v \notin todo'[e]
          /\ pc'[e] = "unlock" => v \in todo'[e]
    BY <2>1, <2>2, <2>4, <2>5, SMT
  <2>7. \A e \in Disk : (Locking(e))' /\ Several(vms[e]) => holder'[Global] = e
    BY <2>1, <2>3, <2>4, SMT
  <2>8. \A e \in Disk : \A v \in vms[e] :
          /\ (Working(e))' => holder'[v] = e
          /\ pc'[e] = "lock" /\ v \notin todo'[e] => holder'[v] = e
          /\ pc'[e] = "unlock" /\ v \in todo'[e] => holder'[v] = e
    BY <2>1, <2>2, <2>4, SMT
  <2> QED
    BY <2>1, <2>4, <2>6, <2>7, <2>8 DEF Several
<1>8. ASSUME NEW d \in Disk, NEW v \in VM, VmMoves(d, v) PROVE LocksOfStep'
  BY <1>8, SMT DEF VmMoves
<1>9. CASE UNCHANGED vars
  BY <1>9, SMT DEF vars, Several
<1> QED
  BY <1>1, <1>2, <1>3, <1>4, <1>5, <1>6, <1>7, <1>8, <1>9, WorkProceeds
  DEF Next, UpdateStep

\* The state of DiskUpdate is always well typed, and locks are held as the steps say.
THEOREM InductiveInvariant == Spec => []IInv
<1>1. IInv /\ [Next]_vars => IInv'
  BY TypeInductive, LocksInductive DEF IInv
<1> QED
  BY InitInv, <1>1, PTL DEF Spec

\* Two independent disks are never updated at the same time on one VM
\* (lockVmsForIndependentDisks).
THEOREM OneUpdate == Spec => []OneUpdatePerVm
<1>1. IInv => OneUpdatePerVm
  BY SMT DEF IInv, TypeOK, LocksOfStep, OneUpdatePerVm, Working
<1> QED
  BY InductiveInvariant, <1>1, PTL

\* What KeyedLock asks of those who use it: an update never asks for a lock that it
\* holds, gives back only what it holds, and has given everything back when it ends.
LockProtocol ==
    \A d \in Disk :
        /\ pc[d] = "global" => holder[Global] # d
        /\ pc[d] = "lock" => \A v \in todo[d] : holder[v] # d
        /\ pc[d] = "unlock" => \A v \in todo[d] : holder[v] = d
        /\ pc[d] = "done" => \A k \in Key : holder[k] # d

\* The global lock is held from before the first VM lock to after the last.
GlobalOK == \A d \in Disk : holder[Global] = d => Locking(d)

\* Who holds the global lock is between its first lock and its last unlock.
LEMMA GlobalInductive == IInv /\ GlobalOK /\ [Next]_vars => GlobalOK'
<1> SUFFICES ASSUME IInv, GlobalOK, [Next]_vars PROVE GlobalOK'
  OBVIOUS
<1> USE DistinctAssumption DEF IInv, TypeOK, GlobalOK, Locking, Key
<1>1. ASSUME NEW d \in Disk, LockGlobal(d) PROVE GlobalOK'
  BY <1>1 DEF LockGlobal, Goto, Working, locals
<1>2. ASSUME NEW d \in Disk, UnlockGlobal(d) PROVE GlobalOK'
  BY <1>2 DEF UnlockGlobal, Goto, Working, locals
<1>3. ASSUME NEW d \in Disk, Start(d) \/ LoopEnds(d) PROVE GlobalOK'
  BY <1>3 DEF Start, LoopEnds, Goto, Working, locals
<1>4. ASSUME NEW d \in Disk, NEW v \in VM, LockVm(d, v) \/ UnlockVm(d, v) PROVE GlobalOK'
  BY <1>4 DEF LockVm, UnlockVm, Stay, Goto, Working, locals
<1>5. ASSUME NEW d \in Disk, Proceeds(d) PROVE GlobalOK'
  BY <1>5 DEF Proceeds, Goto, Working
<1>6. CASE UNCHANGED <<holder, pc>>
  BY <1>6 DEF Working
<1> QED
  BY <1>1, <1>2, <1>3, <1>4, <1>5, <1>6, WorkProceeds DEF Next, UpdateStep, VmMoves, vars

\* Every update keeps to the protocol of the locks, on every path through it, errors
\* included (the deferred unlocks of resourceVcdIndependentDiskUpdate).
THEOREM LocksAskedAndGivenBack == Spec => []LockProtocol
<1>1. Init => GlobalOK
  BY DistinctAssumption DEF Init, GlobalOK, Key
<1>2. IInv /\ GlobalOK => LockProtocol
  BY DEF IInv, TypeOK, LocksOfStep, GlobalOK, LockProtocol, Locking, Working, Key
<1> QED
  BY <1>1, <1>2, GlobalInductive, InductiveInvariant, PTL DEF Spec
\* What the global lock is for: at most one update waits for a VM while it holds
\* another.
HoldsAndWaits(d) ==
    pc[d] = "lock" /\ \E u, v \in vms[d] : holder[u] = d /\ v \in todo[d]

OneHoldsAndWaits ==
    \A d, e \in Disk : HoldsAndWaits(d) /\ HoldsAndWaits(e) => d = e

\* Two updates that each hold a VM and want another would both have the global lock.
LEMMA HoldsAndWaitsOnce == IInv => OneHoldsAndWaits
<1> SUFFICES ASSUME IInv, NEW d \in Disk, NEW e \in Disk, HoldsAndWaits(d), HoldsAndWaits(e)
             PROVE d = e
  BY DEF OneHoldsAndWaits
<1>1. ASSUME NEW c \in Disk, HoldsAndWaits(c) PROVE holder[Global] = c
  <2>1. PICK u \in vms[c], v \in vms[c] : holder[u] = c /\ v \in todo[c]
    BY <1>1 DEF HoldsAndWaits
  <2>2. u \in VM /\ u \notin todo[c]
    BY <1>1, <2>1 DEF HoldsAndWaits, IInv, TypeOK, LocksOfStep
  <2> QED
    BY <1>1, <2>1, <2>2 DEF HoldsAndWaits, IInv, LocksOfStep, Locking, Several
<1> QED
  BY <1>1

\* An update that holds a lock and wants one is at the VM locks, and holds the global
\* lock too.
LEMMA HolderThatWants ==
  ASSUME IInv, GlobalOK, NEW d \in Disk, NEW e \in Disk, NEW k \in Wants(d), holder[k] = e,
         NEW m \in Wants(e)
  PROVE  pc[e] = "lock" /\ m \in todo[e] /\ (k \in VM => HoldsAndWaits(e) /\ k \notin todo[e])
<1> USE DEF IInv, TypeOK, Wants
<1>1. pc[e] \in {"global", "lock"}
  OBVIOUS
<1>2. k = Global \/ k \in VM
  OBVIOUS
<1>3. Locking(e)
  BY <1>2 DEF LocksOfStep, GlobalOK
<1>4. pc[e] = "lock" /\ m \in todo[e]
  BY <1>1, <1>3 DEF Locking, Working
<1>5. ASSUME k \in VM PROVE HoldsAndWaits(e) /\ k \notin todo[e]
  BY <1>4, <1>5 DEF LocksOfStep, HoldsAndWaits
<1> QED
  BY <1>4, <1>5

\* The deadlock described in resourceVcdIndependentDiskUpdate cannot happen, among any
\* number of updates and however their VMs overlap (lockIndependentDiskOpsGlobally).
THEOREM NoDeadlockHolds == Spec => []NoDeadlock
<1>1. Init => GlobalOK
  BY DistinctAssumption DEF Init, GlobalOK, Key
<1>2. IInv /\ GlobalOK => NoDeadlock
  <2> SUFFICES ASSUME IInv, GlobalOK, NEW ds \in (SUBSET Disk) \ {{}},
                      \A d \in ds : \E k \in Wants(d) : holder[k] \in ds
               PROVE  FALSE
    BY DEF NoDeadlock
  <2>1. PICK d \in ds : TRUE
    OBVIOUS
  <2>2. PICK k \in Wants(d) : holder[k] \in ds
    OBVIOUS
  <2>3. PICK l \in Wants(holder[k]) : holder[l] \in ds
    BY <2>2
  <2>4. l \in todo[holder[k]] /\ l \in VM
    BY <2>2, <2>3, HolderThatWants DEF IInv, TypeOK
  <2>5. PICK m \in Wants(holder[l]) : holder[m] \in ds
    BY <2>3
  <2>6. HoldsAndWaits(holder[l]) /\ m \in todo[holder[l]] /\ m \in VM
    BY <2>2, <2>3, <2>4, <2>5, HolderThatWants DEF IInv, TypeOK
  <2>7. PICK n \in Wants(holder[m]) : holder[n] \in ds
    BY <2>5
  <2>8. HoldsAndWaits(holder[m]) /\ m \notin todo[holder[m]]
    BY <2>3, <2>5, <2>6, <2>7, HolderThatWants
  <2> QED
    BY <2>3, <2>5, <2>6, <2>8, HoldsAndWaitsOnce DEF OneHoldsAndWaits
<1> QED
  BY <1>1, <1>2, GlobalInductive, InductiveInvariant, PTL DEF Spec
-----------------------------------------------------------------------------
(* Where the disks are. *)

\* The disk is in all VMs of s, in its old slots.
InPlace(d, s) == \A v \in s : seen[d][v] # NoSlot /\ attached[d][v] = seen[d][v]

\* What the steps of an update know of its own disk.
ControlOK(d) ==
    /\ pc[d] = "idle" => seen[d] = Nowhere
    /\ outcome[d] # "none" => pc[d] \in {"unlock", "done"}
    /\ pc[d] = "attaching" => at[d] \in vms[d]
    /\ pc[d] \in {"attach", "attaching", "finish"} \/ outcome[d] = "ok" => changed[d]

\* Where it is, as long as no VM resource moves it: only where it was found; in all
\* of these VMs until the first loop of detachVms has noted its slots; and back in
\* those that the loop of attachBackVms has done.
PlaceOK(d) ==
    /\ \A v \in VM : attached[d][v] # NoSlot =>
           v \in vms[d] /\ (seen[d][v] # NoSlot => attached[d][v] = seen[d][v])
    /\ pc[d] \in {"global", "lock", "fetch"} => \A v \in vms[d] : attached[d][v] # NoSlot
    /\ pc[d] = "fetch" => InPlace(d, vms[d] \ todo[d])
    /\ pc[d] \in {"detach", "detaching", "update", "attach", "attaching"} =>
           \A v \in vms[d] : seen[d][v] # NoSlot
    /\ pc[d] = "attach" => InPlace(d, vms[d] \ todo[d])
    /\ pc[d] = "attaching" => InPlace(d, vms[d] \ (todo[d] \cup {at[d]}))
    /\ pc[d] = "finish" \/ outcome[d] = "ok" => InPlace(d, vms[d])

DiskOK(d) == ControlOK(d) /\ (~touched[d] /\ pc[d] # "idle" => PlaceOK(d))

DisksOK == \A d \in Disk : DiskOK(d)

\* No disk has moved in the initial states.
LEMMA InitDisks == Init => DisksOK
BY DEF Init, DisksOK, DiskOK, ControlOK

\* An update keeps its hands off the other disks.
LEMMA OthersUnchanged ==
  ASSUME TypeOK, NEW d \in Disk, UpdateStep(d) \/ (\E v \in VM : VmMoves(d, v)),
         NEW e \in Disk, e # d
  PROVE  /\ attached'[e] = attached[e] /\ pc'[e] = pc[e] /\ vms'[e] = vms[e]
         /\ todo'[e] = todo[e] /\ seen'[e] = seen[e] /\ at'[e] = at[e]
         /\ outcome'[e] = outcome[e] /\ changed'[e] = changed[e] /\ touched'[e] = touched[e]
<1> USE DEF TypeOK, Goto, Stay, Fails, Refused, locals, bounds
<1>1. CASE Start(d)
  BY <1>1 DEF Start
<1>2. CASE LockGlobal(d) \/ LoopEnds(d) \/ UnlockGlobal(d)
  BY <1>2 DEF LockGlobal, LoopEnds, UnlockGlobal
<1>3. CASE \E v \in VM : LockVm(d, v) \/ UnlockVm(d, v)
  BY <1>3 DEF LockVm, UnlockVm
<1>4. CASE \E v \in VM : FetchVm(d, v)
  BY <1>4 DEF FetchVm
<1>5. CASE \E v \in VM : DetachVm(d, v)
  BY <1>5 DEF DetachVm
<1>6. CASE \E v \in VM : AttachVm(d, v)
  BY <1>6 DEF AttachVm
<1>7. CASE Detached(d)
  BY <1>7 DEF Detached
<1>8. CASE UpdateDisk(d)
  BY <1>8 DEF UpdateDisk
<1>9. CASE Attached(d)
  BY <1>9 DEF Attached
<1>10. CASE Finish(d)
  BY <1>10 DEF Finish
<1>11. CASE \E v \in VM : VmMoves(d, v)
  BY <1>11 DEF VmMoves
<1> QED
  BY <1>1, <1>2, <1>3, <1>4, <1>5, <1>6, <1>7, <1>8, <1>9, <1>10, <1>11 DEF UpdateStep

\* What is known of a disk rests on the variables of its own update alone.
LEMMA OthersKeep ==
  ASSUME NEW e \in Disk, DiskOK(e),
         /\ attached'[e] = attached[e] /\ pc'[e] = pc[e] /\ vms'[e] = vms[e]
         /\ todo'[e] = todo[e] /\ seen'[e] = seen[e] /\ at'[e] = at[e]
         /\ outcome'[e] = outcome[e] /\ changed'[e] = changed[e] /\ touched'[e] = touched[e]
  PROVE  DiskOK(e)'
BY DEF DiskOK, ControlOK, PlaceOK, InPlace

\* A step that fails leaves the disk where it is.
LEMMA FailureKeeps ==
  ASSUME TypeOK, NEW d \in Disk, DiskOK(d), Working(d), Fails(d) \/ Refused(d),
         UNCHANGED <<attached, vms, seen, changed, touched>>
  PROVE  DiskOK(d)'
<1>1. pc'[d] = "unlock" /\ outcome'[d] = "failed"
  BY DEF Fails, Refused, Goto, TypeOK
<1>2. pc[d] # "idle"
  BY DEF Working
<1> QED
  BY <1>1, <1>2 DEF DiskOK, ControlOK, PlaceOK

\* A step of an update keeps its own disk where its step says it is.
LEMMA OwnSteps ==
  ASSUME TypeOK, LocksOfStep, NEW d \in Disk, DiskOK(d), UpdateStep(d)
  PROVE  DiskOK(d)'
<1> USE DEF TypeOK, Goto, Stay, locals, bounds
<1>1. CASE Start(d)
  <2>1. /\ pc'[d] \in {"global", "lock"} /\ vms'[d] = On(d)
        /\ UNCHANGED <<attached, seen, at, outcome, changed>>
    BY <1>1 DEF Start
  <2>2. outcome[d] = "none" /\ \A v \in VM : seen[d][v] = NoSlot
    BY <1>1 DEF Start, DiskOK, ControlOK, Nowhere
  <2> QED
    BY <2>1, <2>2 DEF DiskOK, ControlOK, PlaceOK, On
<1>2. CASE LockGlobal(d) \/ UnlockGlobal(d) \/ (\E v \in VM : LockVm(d, v) \/ UnlockVm(d, v))
  BY <1>2 DEF LockGlobal, UnlockGlobal, LockVm, UnlockVm, DiskOK, ControlOK, PlaceOK, InPlace
<1>3. CASE LoopEnds(d)
  <2>1. /\ UNCHANGED <<attached, vms, seen, at, outcome, changed, touched>>
        /\ todo[d] = {} /\ todo'[d] = vms[d]
        /\ \/ pc[d] = "lock" /\ pc'[d] = "fetch"
           \/ pc[d] = "fetch" /\ pc'[d] = "detach"
           \/ pc[d] = "detach" /\ pc'[d] = "update"
           \/ pc[d] = "attach" /\ pc'[d] = "finish"
    BY <1>3 DEF LoopEnds
  <2> QED
    BY <2>1 DEF DiskOK, ControlOK, PlaceOK, InPlace
<1>4. ASSUME NEW v \in VM, FetchVm(d, v) PROVE DiskOK(d)'
  <2>1. CASE Fails(d) /\ UNCHANGED <<seen, vmSteps>>
    BY <1>4, <2>1, FailureKeeps DEF FetchVm, Working
  <2>2. CASE ~(Fails(d) /\ UNCHANGED <<seen, vmSteps>>)
    <3>1. /\ UNCHANGED <<attached, vms, at, outcome, changed, touched>>
          /\ pc[d] = "fetch" /\ pc'[d] = "fetch" /\ todo'[d] = todo[d] \ {v}
          /\ seen'[d][v] = attached[d][v] /\ \A u \in VM \ {v} : seen'[d][u] = seen[d][u]
      BY <1>4, <2>2 DEF FetchVm
    <3>2. ControlOK(d)'
      BY <3>1 DEF DiskOK, ControlOK
    <3>3. ASSUME ~touched[d] PROVE PlaceOK(d)'
      <4>1. PlaceOK(d) /\ outcome[d] = "none"
        BY <3>1, <3>3 DEF DiskOK, ControlOK
      <4>2. \A u \in vms[d] : u \in VM /\ attached[d][u] # NoSlot
        BY <3>1, <4>1 DEF PlaceOK
      <4>3. InPlace(d, vms[d] \ todo[d])
        BY <3>1, <4>1 DEF PlaceOK
      <4>4. InPlace(d, vms[d] \ todo[d])'
        BY <3>1, <4>2, <4>3 DEF InPlace
      <4>5. \A u \in VM : attached[d][u] # NoSlot =>
                u \in vms[d] /\ (seen'[d][u] # NoSlot => attached[d][u] = seen'[d][u])
        BY <3>1, <4>1 DEF PlaceOK
      <4> QED
        BY <3>1, <4>1, <4>2, <4>4, <4>5 DEF PlaceOK
    <3> QED
      BY <3>1, <3>2, <3>3 DEF DiskOK
  <2> QED
    BY <2>1, <2>2
<1>5. ASSUME NEW v \in VM, DetachVm(d, v) PROVE DiskOK(d)'
  <2>1. CASE Fails(d) \/ Refused(d)
    BY <1>5, <2>1, FailureKeeps DEF DetachVm, Working
  <2>2. CASE ~(Fails(d) \/ Refused(d))
    <3>1. /\ UNCHANGED <<attached, vms, seen, outcome, changed, touched>>
          /\ pc[d] = "detach" /\ pc'[d] = "detaching"
      BY <1>5, <2>2 DEF DetachVm
    <3> QED
      BY <3>1 DEF DiskOK, ControlOK, PlaceOK
  <2> QED
    BY <2>1, <2>2
<1>6. ASSUME NEW v \in VM, AttachVm(d, v) PROVE DiskOK(d)'
  <2>1. CASE Fails(d)
    BY <1>6, <2>1, FailureKeeps DEF AttachVm, Working
  <2>2. CASE ~Fails(d)
    <3>1. /\ UNCHANGED <<attached, vms, seen, outcome, changed, touched>>
          /\ pc[d] = "attach" /\ pc'[d] = "attaching"
          /\ todo'[d] = todo[d] \ {v} /\ at'[d] = v /\ v \in todo[d]
      BY <1>6, <2>2 DEF AttachVm
    <3>2. v \in vms[d]
      BY <1>6, <3>1 DEF LocksOfStep
    <3> QED
      BY <3>1, <3>2 DEF DiskOK, ControlOK, PlaceOK, InPlace
  <2> QED
    BY <2>1, <2>2
<1>7. CASE Detached(d)
  <2>1. CASE Fails(d) /\ UNCHANGED attached
    BY <1>7, <2>1, FailureKeeps DEF Detached, Working
  <2>2. CASE ~(Fails(d) /\ UNCHANGED attached)
    <3>1. /\ UNCHANGED <<vms, seen, outcome, changed, touched>>
          /\ pc[d] = "detaching" /\ pc'[d] = "detach"
          /\ attached'[d][at[d]] = NoSlot
          /\ \A u \in VM \ {at[d]} : attached'[d][u] = attached[d][u]
      BY <1>7, <2>2 DEF Detached
    <3> QED
      BY <3>1 DEF DiskOK, ControlOK, PlaceOK
  <2> QED
    BY <2>1, <2>2
<1>8. CASE UpdateDisk(d)
  <2>1. CASE (Fails(d) \/ Refused(d)) /\ UNCHANGED changed
    BY <1>8, <2>1, FailureKeeps DEF UpdateDisk, Working
  <2>2. CASE ~((Fails(d) \/ Refused(d)) /\ UNCHANGED changed)
    <3>1. /\ UNCHANGED <<attached, vms, seen, outcome, touched>>
          /\ pc[d] = "update" /\ pc'[d] = "attach" /\ todo'[d] = vms[d] /\ changed'[d]
      BY <1>8, <2>2 DEF UpdateDisk
    <3> QED
      BY <3>1 DEF DiskOK, ControlOK, PlaceOK, InPlace
  <2> QED
    BY <2>1, <2>2
<1>9. CASE Attached(d)
  <2>1. CASE (Fails(d) \/ Refused(d)) /\ UNCHANGED attached
    BY <1>9, <2>1, FailureKeeps DEF Attached, Working
  <2>2. CASE ~((Fails(d) \/ Refused(d)) /\ UNCHANGED attached)
    <3>1. /\ UNCHANGED <<vms, seen, outcome, changed, touched>>
          /\ pc[d] = "attaching" /\ pc'[d] = "attach" /\ todo'[d] = todo[d]
          /\ attached'[d][at[d]] = seen[d][at[d]]
          /\ \A u \in VM \ {at[d]} : attached'[d][u] = attached[d][u]
      BY <1>9, <2>2 DEF Attached
    <3>2. ControlOK(d)'
      BY <3>1 DEF DiskOK, ControlOK
    <3>3. ASSUME ~touched[d] PROVE PlaceOK(d)'
      <4>1. PlaceOK(d) /\ outcome[d] = "none" /\ at[d] \in vms[d]
        BY <3>1, <3>3 DEF DiskOK, ControlOK
      <4>2. /\ \A v \in vms[d] : seen[d][v] # NoSlot
            /\ \A v \in vms[d] \ (todo[d] \cup {at[d]}) : attached[d][v] = seen[d][v]
        BY <3>1, <4>1 DEF PlaceOK, InPlace
      <4>3. InPlace(d, vms[d] \ todo[d])'
        BY <3>1, <4>2 DEF InPlace
      <4>4. \A v \in VM : attached'[d][v] # NoSlot =>
                v \in vms[d] /\ (seen[d][v] # NoSlot => attached'[d][v] = seen[d][v])
        BY <3>1, <4>1 DEF PlaceOK
      <4> QED
        BY <3>1, <4>1, <4>2, <4>3, <4>4 DEF PlaceOK
    <3> QED
      BY <3>1, <3>2, <3>3 DEF DiskOK
  <2> QED
    BY <2>1, <2>2
<1>10. CASE Finish(d)
  <2>1. CASE Fails(d)
    BY <1>10, <2>1, FailureKeeps DEF Finish, Working
  <2>2. CASE ~Fails(d)
    <3>1. /\ UNCHANGED <<attached, vms, seen, changed, touched>>
          /\ pc[d] = "finish" /\ pc'[d] = "unlock"
      BY <1>10, <2>2 DEF Finish
    <3> QED
      BY <3>1 DEF DiskOK, ControlOK, PlaceOK, InPlace
  <2> QED
    BY <2>1, <2>2
<1> QED
  BY <1>1, <1>2, <1>3, <1>4, <1>5, <1>6, <1>7, <1>8, <1>9, <1>10 DEF UpdateStep

\* The disks are where the steps of their updates say, in every state.
LEMMA DisksInductive == IInv /\ DisksOK /\ [Next]_vars => DisksOK'
<1> SUFFICES ASSUME TypeOK, LocksOfStep, DisksOK, [Next]_vars PROVE DisksOK'
  BY DEF IInv
<1>1. ASSUME NEW d \in Disk, UpdateStep(d) PROVE DisksOK'
  <2>1. DiskOK(d)'
    BY <1>1, OwnSteps DEF DisksOK
  <2>2. \A e \in Disk : e # d => DiskOK(e)'
    BY <1>1, OthersUnchanged, OthersKeep DEF DisksOK
  <2> QED
    BY <2>1, <2>2 DEF DisksOK
<1>2. ASSUME NEW d \in Disk, NEW v \in VM, VmMoves(d, v) PROVE DisksOK'
  <2>1. touched'[d] /\ UNCHANGED <<pc, seen, outcome, at, vms, changed>>
    BY <1>2 DEF VmMoves, TypeOK
  <2>2. DiskOK(d)'
    BY <2>1 DEF DisksOK, DiskOK, ControlOK
  <2>3. \A e \in Disk : e # d => DiskOK(e)'
    BY <1>2, OthersUnchanged, OthersKeep DEF DisksOK
  <2> QED
    BY <2>2, <2>3 DEF DisksOK
<1>3. CASE UNCHANGED vars
  BY <1>3, OthersKeep DEF vars, DisksOK
<1> QED
  BY <1>1, <1>2, <1>3 DEF Next

\* What is known of every disk, at every step of its update.
THEOREM DisksInvariant == Spec => []DisksOK
<1> QED
  BY InitDisks, DisksInductive, InductiveInvariant, PTL DEF Spec

\* A successful update leaves the disk in the slots it has found it in, whatever the
\* updates of other disks do (attachBackVms).
THEOREM SuccessRestoresHolds == Spec => []SuccessRestores
<1>1. IInv /\ DisksOK => SuccessRestores
  <2> SUFFICES ASSUME TypeOK, NEW d \in Disk, DiskOK(d), outcome[d] = "ok", ~touched[d]
               PROVE  changed[d] /\ On(d) = vms[d] /\ \A v \in vms[d] : attached[d][v] = seen[d][v]
    BY DEF SuccessRestores, DisksOK, IInv
  <2>1. ControlOK(d) /\ PlaceOK(d)
    BY DEF DiskOK, ControlOK
  <2> QED
    BY <2>1 DEF ControlOK, PlaceOK, InPlace, On, TypeOK
<1> QED
  BY <1>1, InductiveInvariant, DisksInvariant, PTL

\* A failed update, at whatever step, has at most detached the disk (the error exits
\* of resourceVcdIndependentDiskUpdate).
THEOREM FailureOnlyDetachesHolds == Spec => []FailureOnlyDetaches
<1>1. IInv /\ DisksOK => FailureOnlyDetaches
  BY DEF FailureOnlyDetaches, DisksOK, IInv, DiskOK, ControlOK, PlaceOK, On
<1> QED
  BY <1>1, InductiveInvariant, DisksInvariant, PTL
=============================================================================
