----------------------------- MODULE HandlerSteps -----------------------------
(***************************************************************************)
(* The vocabulary of the provider's resource handlers.  A handler (Create, *)
(* Read, Update, Delete or Import of a resource in vcd/) is a sequence of  *)
(* steps; a step is one call to Cloud Director, one use of d.SetId or one  *)
(* lock.  Lifecycle gives the steps their meaning, the *Resources modules  *)
(* write the handlers with them.                                           *)
(*                                                                         *)
(* A call that only reads, and whose answer the handler does not branch    *)
(* on, is Ask; several of them in a row are one Ask, because a failure of  *)
(* any of them ends the handler in the same way.  So are several changes   *)
(* in a row that leave more to change: they are one ChangePart.            *)
(***************************************************************************)
EXTENDS Sequences

\* What a handler does about a call that failed ("fail") or that did not find
\* what it asked for ("miss").
Error         == "error"         \* return diag.Errorf(...)
Forget        == "forget"        \* d.SetId(""); return nil
ForgetAndFail == "forgetAndFail" \* d.SetId(""); return diag.Errorf(...)
Succeed       == "succeed"       \* return nil
Ignore        == "ignore"        \* go on
Panic         == "panic"         \* the provider process ends

Outcome == {Error, Forget, ForgetAndFail, Succeed, Ignore, Panic}

\* How the deferred unlock finds the key that was locked.
UnlockFixed  == "fixed"   \* the same field of the same resource data
UnlockById   == "byId"    \* d.Id(), panics when it is empty by then
UnlockByName == "byName"  \* looks the edge gateway up again, panics on an error

NoDoc == "none"
Document == {"dfw", "networks", "acl"}

\* What a step does.
Doing == {"ask", "parent", "outer", "find", "observe", "fetch", "create", "createPart",
          "createOff", "change", "changePart", "write", "writePart", "reset", "remove",
          "powerOff", "powerOn", "parentOff", "parentBack", "setId", "clearId", "lock", "unlock"}

StepType ==
    [do : Doing \ {"lock"}, fail : Outcome, miss : Outcome, doc : Document \cup {NoDoc}]
    \cup [do : {"lock"}, fail : Outcome, miss : Outcome, doc : {NoDoc},
          key : {"edge", "owner", "ownerGroup", "group", "vapp", "network", "externalNetwork",
                 "rdeType", "acl"},
          unlock : {UnlockFixed, UnlockById, UnlockByName}]

Call(do, fail, miss, doc) == [do |-> do, fail |-> fail, miss |-> miss, doc |-> doc]

Ask             == Call("ask", Error, Error, NoDoc)
AskOr(fail)     == Call("ask", fail, fail, NoDoc)
Parent(miss)    == Call("parent", Error, miss, NoDoc)   \* look the parent up
ParentElse(fail, miss) == Call("parent", fail, miss, NoDoc)
ParentOr(outcome) == Call("parent", outcome, outcome, NoDoc)
Outer(miss)     == Call("outer", Error, miss, NoDoc)    \* look the parent's parent up
Find(miss)      == Call("find", Error, miss, NoDoc)     \* look the object up
FindOr(outcome) == Call("find", outcome, outcome, NoDoc) \* all errors are one
FindElse(fail, miss) == Call("find", fail, miss, NoDoc)
FindUnchecked   == Call("find", Panic, Forget, NoDoc)   \* only "not found" is checked
Observe         == Call("observe", Error, Error, NoDoc) \* read settings of the parent
ObserveOr(outcome) == Call("observe", outcome, outcome, NoDoc)
Fetch(doc)      == Call("fetch", Error, Error, doc)     \* read a shared document

Create     == Call("create", Error, Error, NoDoc)
CreatePart == Call("createPart", Error, Error, NoDoc)  \* more calls complete it
CreateOff  == Call("createOff", Error, Error, NoDoc)   \* the same of a machine, powered off
Change     == Call("change", Error, Error, NoDoc)
ChangeOr(outcome) == Call("change", outcome, outcome, NoDoc)
ChangePart == Call("changePart", Error, Error, NoDoc)
Write      == Call("write", Error, Error, NoDoc)       \* sets settings of the parent
WritePart  == Call("writePart", Error, Error, NoDoc)
Reset      == Call("reset", Error, Error, NoDoc)       \* back to the default settings
Remove     == Call("remove", Error, Error, NoDoc)
RemoveOr(outcome) == Call("remove", outcome, outcome, NoDoc)
In(step, doc) == [step EXCEPT !.doc = doc]             \* writes a shared document back

PowerOff        == Call("powerOff", Error, Error, NoDoc)
PowerOn         == Call("powerOn", Error, Error, NoDoc)
PowerParentOff  == Call("parentOff", Error, Error, NoDoc)  \* the VM or vApp around the object
PowerParentBack == Call("parentBack", Error, Error, NoDoc) \* on, if it was on before

SetId   == Call("setId", Error, Error, NoDoc)
ClearId == Call("clearId", Error, Error, NoDoc)

Lock(key, unlock) == [do |-> "lock", fail |-> Error, miss |-> Error, doc |-> NoDoc,
                      key |-> key, unlock |-> unlock]

\* Unlocked before the handler ends.
Unlock == Call("unlock", Error, Error, NoDoc)

\* lockParentEdgeGtw of a resource that names its edge gateway: the lookup
\* panics when it fails.
lockNamedEdgeGtw == <<ParentOr(Panic), Lock("edge", UnlockByName)>>

\* Mutant of lockParentEdgeGtw: looks the name up although it has the ID.
lockParentEdgeGtw_ByName == lockNamedEdgeGtw

\* lockParentEdgeGtw of a resource that has edge_gateway_id.
lockParentEdgeGtw == <<Lock("edge", UnlockFixed)>>

\* The edge gateway is looked up, then its VDC group or the gateway is locked;
\* the unlock uses the owner that was found.
lockParentVdcGroupOrEdgeGateway == <<Parent(Error), Lock("owner", UnlockFixed)>>

\* The VDC group that owns the resource, no lock when a VDC does.
lockIfOwnerIsVdcGroup == <<Lock("ownerGroup", UnlockFixed)>>

lockParentExternalNetwork == <<Lock("externalNetwork", UnlockFixed)>>
lockParentVdcGroup == <<Lock("group", UnlockFixed)>>
lockEdgeGateway == <<Lock("edge", UnlockById)>>

lockVapp == <<Lock("vapp", UnlockFixed)>>
lockParentVapp == <<Lock("vapp", UnlockFixed)>>
lockParentVappWithName == <<Lock("vapp", UnlockFixed)>>
lockParentOrgNetwork == <<Lock("network", UnlockFixed)>>

\* An Import handler that looks up the Org and VDC, the parent and the object;
\* one of settings has no object of its own to look up.
ImportFound    == <<Ask, Parent(Error), Find(Error), SetId>>
ImportSettings == <<Ask, Parent(Error), SetId>>
===============================================================================
