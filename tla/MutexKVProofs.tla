---------------------------- MODULE MutexKVProofs ----------------------------
(* Theorems about MutexKV, for every set of threads, keys and every nesting. *)
EXTENDS MutexKV, TLAPS

\* Whether t is inside kvUnlock(k), from its call to the release of the mutex.
Unlocking(t, k) == pc[t] # "idle" /\ op[t] = "unlock" /\ key[t] = k

\* get() runs under the inner mutex.
InnerOK == \A t \in Thread : pc[t] \in {"look", "miss", "ret"} <=> inner = t

\* A key keeps its mutex and no two keys share one.
StoreOK ==
    /\ \A t \in Thread : pc[t] = "miss" => store[key[t]] = Nil
    /\ \A k, l \in Key : store[k] = store[l] /\ store[k] # Nil => k = l

\* The pointer a thread carries out of get() is the one in the map.
PtrOK ==
    \A t \in Thread :
        /\ pc[t] # "idle" => key[t] \in Key
        /\ pc[t] \in {"ret", "use"} => ptr[t] # Nil /\ ptr[t] = store[key[t]]

\* The mutex of a key is locked by the thread that holds the key or is about to
\* give it back, and by nobody else.
OwnerOK ==
    \A t \in Thread :
        /\ \A k \in Key : OwnerOf(k) = t <=> k \in holds[t] \/ Unlocking(t, k)
        /\ pc[t] # "idle" => key[t] \notin holds[t]

IInv == TypeOK /\ InnerOK /\ StoreOK /\ PtrOK /\ OwnerOK

(* Every state of the specification satisfies the inductive invariant: the     *)
(* mutex map filled by get() is injective and only grows, and the holder of a  *)
(* key is the thread that locked the key's mutex.                              *)
THEOREM InductiveInvariant == Spec => []IInv
<1>1. Init => IInv
  BY ThreadAssumption
     DEF Init, IInv, TypeOK, InnerOK, StoreOK, PtrOK, OwnerOK, OwnerOf, Unlocking, PC, Nil
<1>2. IInv /\ [Next]_vars => IInv'
  <2> SUFFICES ASSUME IInv, [Next]_vars PROVE IInv'
    OBVIOUS
  <2> USE ThreadAssumption
          DEF IInv, TypeOK, PC, Nil
  <2>1. ASSUME NEW t \in Thread, NEW k \in Key, kvLock(t, k) PROVE IInv'
    BY <2>1 DEF kvLock, Call, InnerOK, StoreOK, PtrOK, OwnerOK, OwnerOf, Unlocking
  <2>2. ASSUME NEW t \in Thread, NEW k \in Key, kvUnlock(t, k) PROVE IInv'
    BY <2>2 DEF kvUnlock, Call, InnerOK, StoreOK, PtrOK, OwnerOK, OwnerOf, Unlocking
  <2>3. ASSUME NEW t \in Thread, GetEnter(t) PROVE IInv'
    BY <2>3 DEF GetEnter, InnerOK, StoreOK, PtrOK, OwnerOK, OwnerOf, Unlocking
  <2>4. ASSUME NEW t \in Thread, GetLook(t) PROVE IInv'
    BY <2>4 DEF GetLook, InnerOK, StoreOK, PtrOK, OwnerOK, OwnerOf, Unlocking
  <2>5. ASSUME NEW t \in Thread, GetMiss(t) PROVE IInv'
    BY <2>5 DEF GetMiss, InnerOK, StoreOK, PtrOK, OwnerOK, OwnerOf, Unlocking
  <2>6. ASSUME NEW t \in Thread, GetReturn(t) PROVE IInv'
    BY <2>6 DEF GetReturn, InnerOK, StoreOK, PtrOK, OwnerOK, OwnerOf, Unlocking
  <2>7. ASSUME NEW t \in Thread, MutexLock(t) PROVE IInv'
    BY <2>7 DEF MutexLock, InnerOK, StoreOK, PtrOK, OwnerOK, OwnerOf, Unlocking
  <2>8. ASSUME NEW t \in Thread, MutexUnlock(t) PROVE IInv'
    <3>1. ptr[t] = store[key[t]] /\ ptr[t] \in 1 .. allocated /\ key[t] \in Key
      BY <2>8 DEF MutexUnlock, PtrOK
    <3>2. TypeOK' /\ InnerOK' /\ StoreOK' /\ PtrOK'
      BY <2>8, <3>1 DEF MutexUnlock, InnerOK, StoreOK, PtrOK
    <3>3. \A k \in Key : OwnerOf(k)' = IF k = key[t] THEN NoThread ELSE OwnerOf(k)
      BY <2>8, <3>1 DEF MutexUnlock, StoreOK, OwnerOf
    <3>4. OwnerOf(key[t]) = t
      BY <2>8, <3>1 DEF MutexUnlock, OwnerOK, Unlocking
    <3>5. \A u \in Thread, k \in Key :
             Unlocking(u, k)' <=> Unlocking(u, k) /\ u # t
      BY <2>8 DEF MutexUnlock, Unlocking
    <3>6. OwnerOK'
      BY <2>8, <3>1, <3>3, <3>4, <3>5 DEF MutexUnlock, OwnerOK, Unlocking
    <3>7. QED
      BY <3>2, <3>6
  <2>9. CASE UNCHANGED vars
    BY <2>9 DEF vars, InnerOK, StoreOK, PtrOK, OwnerOK, OwnerOf, Unlocking
  <2>10. QED
    BY <2>1, <2>2, <2>3, <2>4, <2>5, <2>6, <2>7, <2>8, <2>9 DEF Next, Internal
<1>3. QED
  BY <1>1, <1>2, PTL DEF Spec

(* No two threads are between the return of kvLock(k) and the call of          *)
(* kvUnlock(k) for the same key, whatever the threads, the keys and the order  *)
(* in which callers nest them.                                                 *)
THEOREM MutualExclusionHolds == Spec => []MutualExclusion
<1>1. IInv => MutualExclusion
  BY ThreadAssumption DEF IInv, OwnerOK, MutualExclusion, TypeOK
<1>2. QED
  BY InductiveInvariant, <1>1, PTL

(* kvUnlock always reaches the mutex its thread locked: it never unlocks an    *)
(* unlocked mutex, which would end the process, nor one of another thread.     *)
THEOREM UnlockFindsOwnMutexHolds == Spec => []UnlockFindsOwnMutex
<1>1. IInv => UnlockFindsOwnMutex
  BY DEF IInv, TypeOK, PtrOK, OwnerOK, OwnerOf, Unlocking, UnlockFindsOwnMutex
<1>2. QED
  BY InductiveInvariant, <1>1, PTL

(* mutexKV implements the keyed lock: creating a mutex, walking through get()  *)
(* and the inner mutex are invisible, calls are requests, and a key changes    *)
(* hands only from its owner to nobody and from nobody to a waiter.            *)
THEOREM Refinement == Spec => ImplementsKeyedLock
<1>1. Init => Abstract!LockInit
  BY DEF Init, Abstract!LockInit, OwnerOf, WaitOf
<1>2. IInv /\ [Next]_vars => [Abstract!LockNext]_(Abstract!lockVars)
  <2> SUFFICES ASSUME IInv, [Next]_vars
               PROVE  Abstract!LockNext \/ UNCHANGED Abstract!lockVars
    OBVIOUS
  <2> DEFINE owner == [k \in Key |-> OwnerOf(k)]
             waits == [t \in Thread |-> WaitOf(t)]
  <2>1. ASSUME NEW t \in Thread, NEW k \in Key, kvLock(t, k)
        PROVE  Abstract!Request(t, k)
    <3>1. owner' = owner
      BY <2>1 DEF kvLock, Call, OwnerOf
    <3>2. waits' = [waits EXCEPT ![t] = k]
      BY <2>1 DEF kvLock, Call, WaitOf, IInv, TypeOK
    <3>3. OwnerOf(k) # t
      BY <2>1 DEF kvLock, Call, IInv, OwnerOK, Unlocking
    <3>4. QED
      BY <2>1, <3>1, <3>2, <3>3 DEF kvLock, Call, WaitOf, Abstract!Request
  <2>2. ASSUME NEW t \in Thread, NEW k \in Key, kvUnlock(t, k)
        PROVE  UNCHANGED Abstract!lockVars
    BY <2>2 DEF kvUnlock, Call, OwnerOf, WaitOf, Abstract!lockVars, IInv, TypeOK
  <2>3. ASSUME NEW t \in Thread, GetEnter(t) \/ GetLook(t) \/ GetReturn(t)
        PROVE  UNCHANGED Abstract!lockVars
    BY <2>3 DEF GetEnter, GetLook, GetReturn, OwnerOf, WaitOf, Abstract!lockVars,
                IInv, TypeOK, PC
  <2>4. ASSUME NEW t \in Thread, GetMiss(t)
        PROVE  UNCHANGED Abstract!lockVars
    <3>1. \A k \in Key : OwnerOf(k)' = OwnerOf(k)
      BY <2>4 DEF GetMiss, OwnerOf, IInv, TypeOK, StoreOK, PtrOK, PC, Nil
    <3>2. \A u \in Thread : WaitOf(u)' = WaitOf(u)
      BY <2>4 DEF GetMiss, WaitOf, IInv, TypeOK
    <3>3. QED
      BY <3>1, <3>2 DEF Abstract!lockVars
  <2>5. ASSUME NEW t \in Thread, MutexLock(t)
        PROVE  Abstract!Acquire(t, key[t])
    <3>1. /\ key[t] \in Key
          /\ ptr[t] = store[key[t]]
          /\ ptr[t] \in 1 .. allocated
      BY <2>5 DEF MutexLock, IInv, TypeOK, PtrOK, Nil
    <3>2. owner' = [owner EXCEPT ![key[t]] = t]
      <4>1. \A k \in Key : OwnerOf(k)' = IF k = key[t] THEN t ELSE OwnerOf(k)
        BY <2>5, <3>1 DEF MutexLock, OwnerOf, IInv, TypeOK, StoreOK, Nil
      <4>2. QED
        BY <4>1, <3>1
    <3>3. waits' = [waits EXCEPT ![t] = NoKey]
      BY <2>5 DEF MutexLock, WaitOf, IInv, TypeOK
    <3>4. WaitOf(t) = key[t] /\ OwnerOf(key[t]) = NoThread
      BY <2>5, <3>1 DEF MutexLock, WaitOf, OwnerOf, Nil
    <3>5. QED
      BY <3>1, <3>2, <3>3, <3>4 DEF Abstract!Acquire
  <2>6. ASSUME NEW t \in Thread, MutexUnlock(t)
        PROVE  Abstract!Release(t, key[t])
    <3>1. /\ key[t] \in Key
          /\ ptr[t] = store[key[t]]
          /\ ptr[t] \in 1 .. allocated
      BY <2>6 DEF MutexUnlock, IInv, TypeOK, PtrOK, Nil
    <3>2. owner' = [owner EXCEPT ![key[t]] = NoThread]
      <4>1. \A k \in Key : OwnerOf(k)' = IF k = key[t] THEN NoThread ELSE OwnerOf(k)
        BY <2>6, <3>1 DEF MutexUnlock, OwnerOf, IInv, TypeOK, StoreOK, Nil
      <4>2. QED
        BY <4>1, <3>1
    <3>3. waits' = waits
      BY <2>6 DEF MutexUnlock, WaitOf, IInv, TypeOK
    <3>4. OwnerOf(key[t]) = t /\ WaitOf(t) = NoKey
      BY <2>6, <3>1 DEF MutexUnlock, WaitOf, IInv, OwnerOK, Unlocking
    <3>5. QED
      BY <3>1, <3>2, <3>3, <3>4 DEF Abstract!Release
  <2>7. CASE UNCHANGED vars
    BY <2>7 DEF vars, OwnerOf, WaitOf, Abstract!lockVars
  <2>8. ASSUME NEW t \in Thread, MutexLock(t) \/ MutexUnlock(t)
        PROVE  key[t] \in Key
    BY <2>8 DEF MutexLock, MutexUnlock, IInv, PtrOK
  <2>9. QED
    BY <2>1, <2>2, <2>3, <2>4, <2>5, <2>6, <2>7, <2>8
       DEF Next, Internal, Abstract!LockNext
<1>3. QED
  BY <1>1, <1>2, InductiveInvariant, PTL
     DEF Spec, ImplementsKeyedLock, Abstract!LockSpec
=============================================================================
