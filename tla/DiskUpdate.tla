------------------------------ MODULE DiskUpdate ------------------------------
(***************************************************************************)
(* resourceVcdIndependentDiskUpdate (vcd/resource_vcd_independent_disk.go) *)
(* for several disks at once, as Terraform applies them.  VCD changes only *)
(* a disk that no VM has attached, so an update detaches the disk from     *)
(* every VM, changes it, and attaches it back.  It holds a lock per VM     *)
(* meanwhile and, if it needs more than one of them, the global lock.      *)
(*                                                                         *)
(* The locks are those of MutexKV in the form it implements (KeyedLock).   *)
(* A slot is a pair of bus and unit number; slots are named by the disk    *)
(* that has them at first.  attachDetachIndependentDisks of the VM         *)
(* resource attaches and detaches disks without taking these locks.        *)
(***************************************************************************)
EXTENDS Naturals

CONSTANTS Disk, VM,
          NoSlot, Free, Global,
          Faults,  \* bound of the model: failed calls
          VmSteps  \* bound of the model: disks attached or detached by VM resources

ASSUME DistinctAssumption == NoSlot \notin Disk /\ Free \notin Disk /\ Global \notin VM
ASSUME BoundsAssumption == Faults \in Nat /\ VmSteps \in Nat

VARIABLES attached, \* attached[d][v]: the slot of v that has d, or NoSlot
          holder,   \* holder[k]: the disk whose update holds key k, or Free
          pc,
          vms,      \* vms[d]: diskAttachedVmsHrefs
          todo,     \* todo[d]: what the current loop over vms[d] has left
          seen,     \* seen[d][v]: slot of d in the VM fetched by detachVms
          at,       \* at[d]: the VM of the task that d waits for
          outcome,  \* "none", "ok", "failed"
          changed,  \* changed[d]: disk.Update has been done
          touched,  \* touched[d]: a VM resource moved d since vms[d] was read
          faults, vmSteps

vars == <<attached, holder, pc, vms, todo, seen, at, outcome, changed, touched,
          faults, vmSteps>>

Key == VM \cup {Global}
Slot == Disk \cup {NoSlot}
Nowhere == [v \in VM |-> NoSlot]
Step == {"idle", "global", "lock", "fetch", "detach", "detaching", "update",
         "attach", "attaching", "finish", "unlock", "done"}

TypeOK ==
    /\ attached \in [Disk -> [VM -> Slot]]
    /\ holder \in [Key -> Disk \cup {Free}]
    /\ pc \in [Disk -> Step]
    /\ vms \in [Disk -> SUBSET VM]
    /\ todo \in [Disk -> SUBSET VM]
    /\ seen \in [Disk -> [VM -> Slot]]
    /\ at \in [Disk -> VM]
    /\ outcome \in [Disk -> {"none", "ok", "failed"}]
    /\ changed \in [Disk -> BOOLEAN]
    /\ touched \in [Disk -> BOOLEAN]
    /\ faults \in 0 .. Faults
    /\ vmSteps \in 0 .. VmSteps

Init ==
    /\ \E has \in [Disk -> SUBSET VM] :
          attached = [d \in Disk |-> [v \in VM |-> IF v \in has[d] THEN d ELSE NoSlot]]
    /\ holder = [k \in Key |-> Free]
    /\ pc = [d \in Disk |-> "idle"]
    /\ vms = [d \in Disk |-> {}]
    /\ todo = [d \in Disk |-> {}]
    /\ seen = [d \in Disk |-> Nowhere]
    /\ \E v \in VM : at = [d \in Disk |-> v]
    /\ outcome = [d \in Disk |-> "none"]
    /\ changed = [d \in Disk |-> FALSE]
    /\ touched = [d \in Disk |-> FALSE]
    /\ faults = 0
    /\ vmSteps = 0

On(d) == {v \in VM : attached[d][v] # NoSlot}
TakenIn(v, s) == \E d \in Disk : attached[d][v] = s
\* len(hrefs) > 1: VCD lists a VM once.
Several(s) == \E u, v \in s : u # v

Goto(d, step, left) == pc' = [pc EXCEPT ![d] = step] /\ todo' = [todo EXCEPT ![d] = left]
Stay(d, v) == Goto(d, pc[d], todo[d] \ {v})

locals == <<vms, seen, at, outcome, changed, touched>>
bounds == <<faults, vmSteps>>

\* A failed call: the function returns its error, and the deferred unlocks run.
Fails(d) ==
    /\ faults < Faults /\ faults' = faults + 1
    /\ outcome' = [outcome EXCEPT ![d] = "failed"]
    /\ Goto(d, "unlock", vms[d])
-----------------------------------------------------------------------------
\* Mutant of Start: the global lock is left out.
Start_NoGlobal(d) ==
    /\ pc[d] = "idle"
    /\ vms' = [vms EXCEPT ![d] = On(d)]
    /\ touched' = [touched EXCEPT ![d] = FALSE]
    /\ Goto(d, "lock", On(d))
    /\ UNCHANGED <<attached, holder, seen, at, outcome, changed, bounds>>

\* GetAttachedVmsHrefs, before any lock is taken.
Start(d) ==
    /\ pc[d] = "idle"
    /\ vms' = [vms EXCEPT ![d] = On(d)]
    /\ touched' = [touched EXCEPT ![d] = FALSE]
    /\ Goto(d, IF Several(On(d)) THEN "global" ELSE "lock", On(d))
    /\ UNCHANGED <<attached, holder, seen, at, outcome, changed, bounds>>

LockGlobal(d) ==
    /\ pc[d] = "global" /\ holder[Global] = Free
    /\ holder' = [holder EXCEPT ![Global] = d]
    /\ Goto(d, "lock", todo[d])
    /\ UNCHANGED <<attached, locals, bounds>>

LockVm(d, v) ==
    /\ pc[d] = "lock" /\ v \in todo[d] /\ holder[v] = Free
    /\ holder' = [holder EXCEPT ![v] = d]
    /\ Stay(d, v)
    /\ UNCHANGED <<attached, locals, bounds>>

\* The loops of lockVms..., detachVms (two of them) and attachBackVms end.
LoopEnds(d) ==
    /\ todo[d] = {}
    /\ \E next \in {<<"lock", "fetch">>, <<"fetch", "detach">>,
                    <<"detach", "update">>, <<"attach", "finish">>} :
          pc[d] = next[1] /\ Goto(d, next[2], vms[d])
    /\ UNCHANGED <<attached, holder, locals, bounds>>

\* First loop of detachVms: the VM is read; an IDE disk in a running VM fails here.
FetchVm(d, v) ==
    /\ pc[d] = "fetch" /\ v \in todo[d]
    /\ \/ /\ seen' = [seen EXCEPT ![d][v] = attached[d][v]]
          /\ Stay(d, v)
          /\ UNCHANGED <<outcome, bounds>>
       \/ Fails(d) /\ UNCHANGED <<seen, vmSteps>>
    /\ UNCHANGED <<attached, holder, vms, at, changed, touched>>

\* Second loop: a VM that had no such disk when it was read is an error, and so is
\* a call that VCD refuses or that fails.
Refused(d) ==
    /\ outcome' = [outcome EXCEPT ![d] = "failed"]
    /\ Goto(d, "unlock", vms[d])
    /\ UNCHANGED faults

DetachVm(d, v) ==
    /\ pc[d] = "detach" /\ v \in todo[d]
    /\ \/ /\ seen[d][v] # NoSlot /\ attached[d][v] # NoSlot
          /\ at' = [at EXCEPT ![d] = v]
          /\ Goto(d, "detaching", todo[d] \ {v})
          /\ UNCHANGED <<outcome, faults>>
       \/ /\ seen[d][v] = NoSlot \/ attached[d][v] = NoSlot
          /\ Refused(d)
          /\ UNCHANGED at
       \/ Fails(d) /\ UNCHANGED at
    /\ UNCHANGED <<attached, holder, vms, seen, changed, touched, vmSteps>>

\* The detach task ends.
Detached(d) ==
    /\ pc[d] = "detaching"
    /\ \/ /\ attached' = [attached EXCEPT ![d][at[d]] = NoSlot]
          /\ Goto(d, "detach", todo[d])
          /\ UNCHANGED <<outcome, faults>>
       \/ Fails(d) /\ UNCHANGED attached
    /\ UNCHANGED <<holder, vms, seen, at, changed, touched, vmSteps>>

\* Refresh, disk.Update and its task; VCD refuses to change an attached disk.
UpdateDisk(d) ==
    /\ pc[d] = "update"
    /\ \/ /\ On(d) = {}
          /\ changed' = [changed EXCEPT ![d] = TRUE]
          /\ Goto(d, "attach", vms[d])
          /\ UNCHANGED <<outcome, faults>>
       \/ /\ On(d) # {}
          /\ Refused(d)
          /\ UNCHANGED changed
       \/ Fails(d) /\ UNCHANGED changed
    /\ UNCHANGED <<attached, holder, vms, seen, at, touched, vmSteps>>

CanAttach(d, v, s) == attached[d][v] = NoSlot /\ ~TakenIn(v, s)

AttachVm(d, v) ==
    /\ pc[d] = "attach" /\ v \in todo[d]
    /\ \/ /\ at' = [at EXCEPT ![d] = v]
          /\ Goto(d, "attaching", todo[d] \ {v})
          /\ UNCHANGED <<outcome, faults>>
       \/ Fails(d) /\ UNCHANGED at
    /\ UNCHANGED <<attached, holder, vms, seen, changed, touched, vmSteps>>

\* Mutant of Attached: the bus and unit numbers are left to VCD.
Attached_AnySlot(d) ==
    /\ pc[d] = "attaching"
    /\ \/ /\ \E s \in Disk : CanAttach(d, at[d], s) /\ attached' = [attached EXCEPT ![d][at[d]] = s]
          /\ Goto(d, "attach", todo[d])
          /\ UNCHANGED <<outcome, faults>>
       \/ Fails(d) /\ UNCHANGED attached
    /\ UNCHANGED <<holder, vms, seen, at, changed, touched, vmSteps>>

\* The attach task ends; the disk is back in its old slot.
Attached(d) ==
    /\ pc[d] = "attaching"
    /\ \/ /\ CanAttach(d, at[d], seen[d][at[d]])
          /\ attached' = [attached EXCEPT ![d][at[d]] = seen[d][at[d]]]
          /\ Goto(d, "attach", todo[d])
          /\ UNCHANGED <<outcome, faults>>
       \/ /\ ~CanAttach(d, at[d], seen[d][at[d]])
          /\ Refused(d)
          /\ UNCHANGED attached
       \/ Fails(d) /\ UNCHANGED attached
    /\ UNCHANGED <<holder, vms, seen, at, changed, touched, vmSteps>>

\* Metadata and Read, still under the locks.
Finish(d) ==
    /\ pc[d] = "finish"
    /\ \/ /\ outcome' = [outcome EXCEPT ![d] = "ok"]
          /\ Goto(d, "unlock", vms[d])
          /\ UNCHANGED faults
       \/ Fails(d)
    /\ UNCHANGED <<attached, holder, vms, seen, at, changed, touched, vmSteps>>

UnlockVm(d, v) ==
    /\ pc[d] = "unlock" /\ v \in todo[d]
    /\ holder' = [holder EXCEPT ![v] = Free]
    /\ Stay(d, v)
    /\ UNCHANGED <<attached, locals, bounds>>

\* Mutant of UnlockGlobal: a failed update keeps the lock.
UnlockGlobal_OnSuccess(d) ==
    /\ pc[d] = "unlock" /\ todo[d] = {}
    /\ holder' = IF holder[Global] = d /\ outcome[d] = "ok"
                 THEN [holder EXCEPT ![Global] = Free] ELSE holder
    /\ Goto(d, "done", {})
    /\ UNCHANGED <<attached, locals, bounds>>

\* The deferred calls run in reverse order: the global lock comes last.
UnlockGlobal(d) ==
    /\ pc[d] = "unlock" /\ todo[d] = {}
    /\ holder' = IF holder[Global] = d THEN [holder EXCEPT ![Global] = Free] ELSE holder
    /\ Goto(d, "done", {})
    /\ UNCHANGED <<attached, locals, bounds>>

\* A VM resource attaches or detaches a disk.
VmMoves(d, v) ==
    /\ vmSteps < VmSteps /\ vmSteps' = vmSteps + 1
    /\ \E s \in Slot :
          /\ attached[d][v] = NoSlot <=> s # NoSlot
          /\ s # NoSlot => ~TakenIn(v, s)
          /\ attached' = [attached EXCEPT ![d][v] = s]
    /\ touched' = [touched EXCEPT ![d] = TRUE]
    /\ UNCHANGED <<holder, pc, vms, todo, seen, at, outcome, changed, faults>>

UpdateStep(d) ==
    \/ Start(d) \/ LockGlobal(d) \/ LoopEnds(d)
    \/ \E v \in VM : LockVm(d, v) \/ FetchVm(d, v) \/ DetachVm(d, v)
                     \/ AttachVm(d, v) \/ UnlockVm(d, v)
    \/ Detached(d) \/ UpdateDisk(d) \/ Attached(d) \/ Finish(d) \/ UnlockGlobal(d)

Next == \E d \in Disk : UpdateStep(d) \/ \E v \in VM : VmMoves(d, v)

Spec == Init /\ [][Next]_vars

\* Terraform starts every update, every call returns, and sync.Mutex wakes waiters.
FairSpec == Spec /\ \A d \in Disk : WF_vars(UpdateStep(d))
-----------------------------------------------------------------------------
\* What the VM locks are for: two updates are never both at work on one VM.
Working(d) == pc[d] \in {"fetch", "detach", "detaching", "update", "attach", "attaching", "finish"}
OneUpdatePerVm ==
    \A d, e \in Disk :
        Working(d) /\ Working(e) /\ d # e => vms[d] \cap vms[e] = {}

\* What an update that is at its locks still has to get.
Wants(d) == CASE pc[d] = "global" -> {Global}
              [] pc[d] = "lock" -> todo[d]
              [] OTHER -> {}

\* What the global lock is for: no updates wait for one another in a circle, in
\* whatever order VCD lists their VMs.  Of any set of updates, one wants no lock that
\* the set holds.
NoDeadlock ==
    \A ds \in (SUBSET Disk) \ {{}} :
        \E d \in ds : \A k \in Wants(d) : holder[k] \notin ds

\* A successful update puts the disk back exactly where it was found, slot for slot,
\* unless a VM resource moved it meanwhile; and it was changed while detached.
SuccessRestores ==
    \A d \in Disk :
        outcome[d] = "ok" /\ ~touched[d] =>
            changed[d] /\ On(d) = vms[d] /\ \A v \in vms[d] : attached[d][v] = seen[d][v]

\* A failed one leaves the disk attached nowhere but where it was, slot for slot.
FailureOnlyDetaches ==
    \A d \in Disk :
        outcome[d] = "failed" /\ ~touched[d] =>
            \A v \in On(d) : v \in vms[d] /\ (seen[d][v] # NoSlot => attached[d][v] = seen[d][v])

\* No update waits for ever for a lock.
UpdatesEnd == \A d \in Disk : <>(pc[d] = "done")
=============================================================================
