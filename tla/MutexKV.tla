------------------------------- MODULE MutexKV -------------------------------
(***************************************************************************)
(* vcd/mutexkv.go: a map from key to *sync.Mutex, filled on demand under   *)
(* one inner mutex.  kvLock and kvUnlock both fetch the mutex of their key *)
(* through get(), and lock or unlock it after get() has returned, so the   *)
(* pointer travels outside the inner critical section.                     *)
(*                                                                         *)
(* A caller may hold several keys.  Nesting says which: <<a, b>> \in       *)
(* Nesting lets a caller that holds a ask for b.                           *)
(***************************************************************************)
EXTENDS Naturals

CONSTANTS Thread, Key, NoThread, NoKey, Nesting

ASSUME ThreadAssumption == NoThread \notin Thread
ASSUME KeyAssumption == NoKey \notin Key
ASSUME NestingAssumption == Nesting \subseteq Key \X Key

VARIABLES inner,     \* the thread that holds mutexKV.lock
          store,     \* store[k]: the address of the mutex of k, or Nil
          allocated, \* the mutexes created so far are 1 .. allocated
          locked,    \* locked[m]: the thread that locked mutex m
          pc, op, key, ptr,  \* per thread: where it is in which call on which key
          holds      \* holds[t]: keys between the return of kvLock and kvUnlock

vars == <<inner, store, allocated, locked, pc, op, key, ptr, holds>>

Nil == 0
PC == {"idle", "get", "look", "miss", "ret", "use"}

TypeOK ==
    /\ inner \in Thread \cup {NoThread}
    /\ allocated \in Nat
    /\ store \in [Key -> 0 .. allocated]
    /\ locked \in [1 .. allocated -> Thread \cup {NoThread}]
    /\ pc \in [Thread -> PC]
    /\ op \in [Thread -> {"lock", "unlock"}]
    /\ key \in [Thread -> Key \cup {NoKey}]
    /\ ptr \in [Thread -> 0 .. allocated]
    /\ holds \in [Thread -> SUBSET Key]

Init ==
    /\ inner = NoThread
    /\ allocated = 0
    /\ store = [k \in Key |-> Nil]
    /\ locked = [m \in 1 .. 0 |-> NoThread]
    /\ pc = [t \in Thread |-> "idle"]
    /\ op = [t \in Thread |-> "lock"]
    /\ key = [t \in Thread |-> NoKey]
    /\ ptr = [t \in Thread |-> Nil]
    /\ holds = [t \in Thread |-> {}]

Call(t, o, k) ==
    /\ pc[t] = "idle"
    /\ pc' = [pc EXCEPT ![t] = "get"]
    /\ op' = [op EXCEPT ![t] = o]
    /\ key' = [key EXCEPT ![t] = k]
    /\ UNCHANGED <<inner, store, allocated, locked, ptr>>

kvLock(t, k) ==
    /\ k \notin holds[t]
    /\ \A h \in holds[t] : <<h, k>> \in Nesting
    /\ Call(t, "lock", k)
    /\ UNCHANGED holds

\* The caller owes the unlock to an earlier kvLock of the same key.
kvUnlock(t, k) ==
    /\ k \in holds[t]
    /\ Call(t, "unlock", k)
    /\ holds' = [holds EXCEPT ![t] = @ \ {k}]

\* Mutant of GetEnter: get() without its inner mutex.
GetEnter_NoInnerLock(t) ==
    /\ pc[t] = "get"
    /\ inner' = t
    /\ pc' = [pc EXCEPT ![t] = "look"]
    /\ UNCHANGED <<store, allocated, locked, op, key, ptr, holds>>

\* get: m.lock.Lock()
GetEnter(t) ==
    /\ pc[t] = "get"
    /\ inner = NoThread
    /\ inner' = t
    /\ pc' = [pc EXCEPT ![t] = "look"]
    /\ UNCHANGED <<store, allocated, locked, op, key, ptr, holds>>

\* get: mutex, ok := m.store[key]
GetLook(t) ==
    /\ pc[t] = "look"
    /\ ptr' = [ptr EXCEPT ![t] = store[key[t]]]
    /\ pc' = [pc EXCEPT ![t] = IF store[key[t]] = Nil THEN "miss" ELSE "ret"]
    /\ UNCHANGED <<inner, store, allocated, locked, op, key, holds>>

\* Mutant of GetMiss: the new mutex is returned but not put into the map.
GetMiss_NotStored(t) ==
    /\ pc[t] = "miss"
    /\ allocated' = allocated + 1
    /\ locked' = [m \in 1 .. allocated + 1 |->
                     IF m = allocated + 1 THEN NoThread ELSE locked[m]]
    /\ ptr' = [ptr EXCEPT ![t] = allocated + 1]
    /\ pc' = [pc EXCEPT ![t] = "ret"]
    /\ UNCHANGED <<inner, store, op, key, holds>>

\* get: mutex = &sync.Mutex{}; m.store[key] = mutex
GetMiss(t) ==
    /\ pc[t] = "miss"
    /\ allocated' = allocated + 1
    /\ locked' = [m \in 1 .. allocated + 1 |->
                     IF m = allocated + 1 THEN NoThread ELSE locked[m]]
    /\ store' = [store EXCEPT ![key[t]] = allocated + 1]
    /\ ptr' = [ptr EXCEPT ![t] = allocated + 1]
    /\ pc' = [pc EXCEPT ![t] = "ret"]
    /\ UNCHANGED <<inner, op, key, holds>>

\* get: the deferred m.lock.Unlock(), return mutex
GetReturn(t) ==
    /\ pc[t] = "ret"
    /\ inner' = NoThread
    /\ pc' = [pc EXCEPT ![t] = "use"]
    /\ UNCHANGED <<store, allocated, locked, op, key, ptr, holds>>

\* Mutant of MutexLock: a TryLock that starts over instead of queueing.
MutexLock_TryAgain(t) ==
    /\ pc[t] = "use" /\ op[t] = "lock"
    /\ IF locked[ptr[t]] = NoThread
       THEN /\ locked' = [locked EXCEPT ![ptr[t]] = t]
            /\ holds' = [holds EXCEPT ![t] = @ \cup {key[t]}]
            /\ pc' = [pc EXCEPT ![t] = "idle"]
       ELSE pc' = [pc EXCEPT ![t] = "get"] /\ UNCHANGED <<locked, holds>>
    /\ UNCHANGED <<inner, store, allocated, op, key, ptr>>

MutexLock(t) ==
    /\ pc[t] = "use" /\ op[t] = "lock"
    /\ locked[ptr[t]] = NoThread
    /\ locked' = [locked EXCEPT ![ptr[t]] = t]
    /\ holds' = [holds EXCEPT ![t] = @ \cup {key[t]}]
    /\ pc' = [pc EXCEPT ![t] = "idle"]
    /\ UNCHANGED <<inner, store, allocated, op, key, ptr>>

\* Unlock() of an unlocked sync.Mutex ends the process; it does not look at
\* who locked it.
MutexUnlock(t) ==
    /\ pc[t] = "use" /\ op[t] = "unlock"
    /\ locked[ptr[t]] # NoThread
    /\ locked' = [locked EXCEPT ![ptr[t]] = NoThread]
    /\ pc' = [pc EXCEPT ![t] = "idle"]
    /\ UNCHANGED <<inner, store, allocated, op, key, ptr, holds>>

Internal(t) == GetLook(t) \/ GetMiss(t) \/ GetReturn(t) \/ MutexUnlock(t)

Next ==
    \E t \in Thread :
        \/ \E k \in Key : kvLock(t, k) \/ kvUnlock(t, k)
        \/ GetEnter(t) \/ MutexLock(t)
        \/ Internal(t)

Spec == Init /\ [][Next]_vars

\* sync.Mutex hands a contended lock to its waiters in turn (starvation mode),
\* and every locked key is unlocked by a deferred call.
Fairness ==
    \A t \in Thread :
        /\ WF_vars(Internal(t))
        /\ SF_vars(GetEnter(t))
        /\ SF_vars(MutexLock(t))
        /\ \A k \in Key : SF_vars(kvUnlock(t, k))

FairSpec == Spec /\ Fairness
-----------------------------------------------------------------------------
\* Two operations never are inside the same key's critical section at once:
\* kvLock returned to both and neither called kvUnlock.
MutualExclusion ==
    \A t, u \in Thread : t # u => holds[t] \cap holds[u] = {}

\* The unlock reaches the mutex its thread locked, so it neither ends the
\* process nor frees another thread's section: get() returns the same mutex for
\* a key for ever.
UnlockFindsOwnMutex ==
    \A t \in Thread : pc[t] = "use" /\ op[t] = "unlock" => locked[ptr[t]] = t

\* The keys of the threads, seen as the locks the callers reason about.
OwnerOf(k) == IF store[k] = Nil THEN NoThread ELSE locked[store[k]]

WaitOf(t) == IF pc[t] # "idle" /\ op[t] = "lock" THEN key[t] ELSE NoKey

Abstract == INSTANCE KeyedLock
    WITH owner <- [k \in Key |-> OwnerOf(k)],
         waits <- [t \in Thread |-> WaitOf(t)]

\* mutexKV is the keyed lock its callers take it for.
ImplementsKeyedLock == Abstract!LockSpec

\* With an acyclic nesting every kvLock returns.
EveryLockReturns ==
    \A t \in Thread : pc[t] # "idle" ~> pc[t] = "idle"
=============================================================================
