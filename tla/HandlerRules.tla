----------------------------- MODULE HandlerRules -----------------------------
(***************************************************************************)
(* Rules for the code of a handler that can be read off its steps, without *)
(* running it.  A kind of resource whose handlers keep a rule keeps the    *)
(* promise that Lifecycle makes of it, in every interleaving and with any  *)
(* number of failures: LifecycleProofs proves that, and MCLifecycle says   *)
(* which kinds of the provider break which rule.                           *)
(***************************************************************************)
EXTENDS Naturals, HandlerSteps

Makes      == {"create", "createPart", "createOff"}
Sets       == {"write", "writePart"}
Finishes   == {"create", "change", "write"}
Unfinished == {"createPart", "createOff", "changePart", "writePart"}
Removes    == {"remove", "reset"}
Writing    == Makes \cup Sets \cup Removes \cup
              {"change", "changePart", "powerOff", "powerOn", "parentOff", "parentBack"}

\* Outcomes that end a handler without an error, and that lose the ID.
Silent == {Succeed, Forget}
Losing == {Forget, ForgetAndFail}

\* What may come of a step that does not succeed, when a miss counts at the
\* steps that are in missable.
Outcomes(step, missable) ==
    {step.fail} \cup (IF step.do \in missable THEN {step.miss} ELSE {})

\* From step n on, a handler that ends without an error has taken a step of the goal.
Reaches(steps, n, goal, missable) ==
    \E m \in n .. Len(steps) :
        /\ steps[m].do \in goal
        /\ Ignore \notin Outcomes(steps[m], missable)
        /\ \A i \in n .. m : Outcomes(steps[i], missable) \cap Silent = {}

\* The same after each setback, whose own failure is not taken for a success.
Recovers(steps, setbacks, goal, missable) ==
    \A i \in 1 .. Len(steps) :
        steps[i].do \in setbacks =>
            steps[i].fail \notin Silent /\ Reaches(steps, i + 1, goal, missable)

Attains(steps, setbacks, goal) ==
    /\ Reaches(steps, 1, goal, Makes)
    /\ Recovers(steps, setbacks, goal, Makes)

\* No failure of a call makes the handler lose the ID (and end without an
\* error); a step that misses an object which is gone may.
Keeps(steps, losing) ==
    \A i \in 1 .. Len(steps) :
        /\ steps[i].do # "clearId"
        /\ Outcomes(steps[i], Makes) \cap losing = {}

\* What makes the object is followed at once by the step that sets its ID.
SetsIdAtOnce(steps) ==
    \A i \in 1 .. Len(steps) :
        /\ steps[i].do \in Makes \cup Sets
        /\ \A j \in 1 .. i : steps[j].do # "setId"
        => i < Len(steps) /\ steps[i + 1].do = "setId"

MakesNothing(steps) == \A i \in 1 .. Len(steps) : steps[i].do \notin Makes \cup Sets

\* A machine that was powered off is powered on again.
RestoresPower(steps) ==
    /\ Recovers(steps, {"createOff", "powerOff"}, {"powerOn", "parentBack", "remove"}, Doing)
    /\ Recovers(steps, {"parentOff"}, {"powerOn", "parentBack"}, Doing)

NeverPanics(steps) ==
    \A i \in 1 .. Len(steps) :
        /\ Panic \notin Outcomes(steps[i], Doing)
        /\ steps[i].do = "lock" => steps[i].unlock = UnlockFixed

\* The lock that protects each shared document.
LockOf == [dfw |-> "group", networks |-> "vapp", acl |-> "acl"]

\* A shared document is read and written between the lock and the unlock, by
\* handlers that take no second lock before.
Locks == {"lock", "unlock"}
SharesUnderLock(steps) ==
    \A i \in 1 .. Len(steps) :
        steps[i].doc # NoDoc =>
            \E j \in 1 .. i :
                /\ steps[j].do = "lock" /\ steps[j].key = LockOf[steps[i].doc]
                /\ \A n \in 1 .. i : n # j => steps[n].do \notin Locks

\* Locks and unlocks alternate; the first unlock is for the lock that is held at the
\* beginning, if there is one.
Alternate(steps, holding) ==
    \A n \in 1 .. Len(steps) :
        steps[n].do \in Locks =>
            LET earlier == {i \in 1 .. n - 1 : steps[i].do \in Locks} IN
            /\ earlier = {} => steps[n].do = IF holding THEN "unlock" ELSE "lock"
            /\ \A i \in earlier :
                   (\A j \in i + 1 .. n - 1 : j \notin earlier) => steps[i].do # steps[n].do

\* A handler, with those that it calls, asks for a lock only when it holds none.
LocksInTurn(steps) == Alternate(steps, FALSE)

\* The first step that would notice a loss clears the ID and ends the handler.
Notices(steps, noticing) ==
    \A i \in 1 .. Len(steps) :
        steps[i].do \in noticing /\ (\A j \in 1 .. i - 1 : steps[j].do \notin noticing)
            => steps[i].miss = Forget

\* The steps that notice the loss of the object, of its parent, and of the parent's.
OfObject == {"find"}
OfParent == OfObject \cup {"parent", "observe", "fetch"}
OfOuter  == OfParent \cup {"outer"}

\* The steps that tell a Read what there is.
Looks == {"find", "observe"}
OnlySettings(read) == \A n \in 1 .. Len(read) : read[n].do # "find"

\* A Read that looks for what is gone, and for nothing else first, changes nothing.
ForgivesLoss(read) ==
    /\ Notices(read, OfObject) /\ Notices(read, OfParent) /\ Notices(read, OfOuter)
    /\ \E n \in 1 .. Len(read) : read[n].do \in Looks
    /\ \A n \in 1 .. Len(read) : read[n].do \notin Writing

\* Whether there is an object at step n, if there was one (or none) at the first step
\* and none has failed.
IsThere(steps, n, there) ==
    LET NotRemoved(m) == \A i \in m .. n - 1 : steps[i].do \notin Removes IN
    \/ there /\ NotRemoved(1)
    \/ \E m \in 1 .. n - 1 : steps[m].do \in Makes \cup Sets /\ NotRemoved(m)

\* No step fails for what there is, or is not.
NeedsObject == {"find", "change", "changePart", "remove", "powerOff", "powerOn"}
GoesThrough(steps, there) ==
    \A n \in 1 .. Len(steps) :
        steps[n].miss # Ignore =>
            /\ steps[n].do \in NeedsObject => IsThere(steps, n, there)
            /\ steps[n].do \in Makes => ~IsThere(steps, n, there)

LeavesObject(steps, there) ==
    GoesThrough(steps, there) /\ IsThere(steps, Len(steps) + 1, there)
-----------------------------------------------------------------------------
(* The rules for the handlers of one kind of resource.                     *)

DeletesObject(handlers) == Attains(handlers.delete, Makes \cup Sets, Removes)

TracksObject(handlers) ==
    /\ Keeps(handlers.create, Losing) /\ SetsIdAtOnce(handlers.create)
    /\ Keeps(handlers.read, Losing) /\ Keeps(handlers.update, Losing)
    /\ MakesNothing(handlers.import)
    /\ DeletesObject(handlers)

TellsTheTruth(handlers) ==
    /\ Attains(handlers.create, Unfinished, Finishes)
    /\ handlers.update = <<>> \/ Attains(handlers.update, Unfinished, Finishes)
    /\ DeletesObject(handlers)

\* Settings that Read does not look up may be there or not.
WorksAtOnce(handlers) ==
    /\ LeavesObject(handlers.create, FALSE)
    /\ \A there \in {TRUE, ~OnlySettings(handlers.read)} :
           /\ GoesThrough(handlers.delete, there)
           /\ handlers.update = <<>> \/ LeavesObject(handlers.update, there)
    /\ \A n \in 1 .. Len(handlers.delete) : handlers.delete[n].do \notin Finishes

ForgetsWhenGone(handlers) == Keeps(handlers.read, {Forget})
===============================================================================
