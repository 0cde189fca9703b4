------------------------------ MODULE KeyedLock ------------------------------
(***************************************************************************)
(* What the provider's resources believe a mutexKV gives them: one lock    *)
(* per key, held by at most one operation at a time.  MutexKV is shown to  *)
(* implement it; the resource modules use this view of the locks.          *)
(***************************************************************************)
CONSTANTS Thread,   \* concurrently running resource operations
          Key,      \* names that are locked ("vapp:...", "vm:...", ...)
          NoThread, \* the owner of a free key
          NoKey     \* what a thread that waits for nothing waits for

VARIABLES owner,    \* owner[k]: the thread inside kvLock(k) .. kvUnlock(k)
          waits     \* waits[t]: the key thread t has asked for

lockVars == <<owner, waits>>

LockInit ==
    /\ owner = [k \in Key |-> NoThread]
    /\ waits = [t \in Thread |-> NoKey]

Held(t) == {k \in Key : owner[k] = t}

Request(t, k) ==
    /\ waits[t] = NoKey
    /\ owner[k] # t
    /\ waits' = [waits EXCEPT ![t] = k]
    /\ UNCHANGED owner

Acquire(t, k) ==
    /\ waits[t] = k
    /\ owner[k] = NoThread
    /\ owner' = [owner EXCEPT ![k] = t]
    /\ waits' = [waits EXCEPT ![t] = NoKey]

Release(t, k) ==
    /\ waits[t] = NoKey
    /\ owner[k] = t
    /\ owner' = [owner EXCEPT ![k] = NoThread]
    /\ UNCHANGED waits

LockNext == \E t \in Thread, k \in Key : Request(t, k) \/ Acquire(t, k) \/ Release(t, k)

LockSpec == LockInit /\ [][LockNext]_lockVars
=============================================================================
