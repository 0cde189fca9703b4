-------------------------- MODULE ServerStoreProofs --------------------------
(* Theorems about ServerStore, by itself and as Inventory uses it, for every   *)
(* set of processes, servers and values and every list of resources.           *)
EXTENDS Inventory, TLAPS

Committed(i, r) == r # Absent => r \in commits[i]

\* Every copy of a row that a process or the cache holds was committed.
CopiesOK ==
    /\ \A i \in Id : Committed(i, row[i]) /\ Committed(i, cache[i])
    /\ \A p \in Proc : /\ pc[p] \in {"write", "ret"} => Committed(id[p], val[p])
                       /\ pc[p] = "write" => val[p] # Absent

\* Without a race one call works on a server at a time, and until it writes the
\* cache the entry is current; when it does, it writes the current row.
AloneAt(i) ==
    /\ \A p, q \in Active(i) : p = q
    /\ \A p \in Active(i) : pc[p] = "write" => val[p] = row[i]
    /\ (\A p \in Active(i) : pc[p] # "write") => Fresh(i)

AloneOK == \A i \in Id : ~racy[i] => AloneAt(i)

IInv == TypeOK /\ CopiesOK /\ AloneOK

(* A merged row is a row, whatever fields the call left empty.                 *)
LEMMA MergedRow ==
  ASSUME NEW f \in Field, NEW r \in Row
  PROVE  [meta    |-> Coalesce(f.meta, r.meta),
          status  |-> Coalesce(f.status, r.status),
          version |-> r.version + 1] \in Row
  BY FieldAssumption DEF Field, Row, Coalesce

(* So is an inserted one.                                                      *)
LEMMA NewRow ==
  ASSUME NEW f \in Field
  PROVE  [meta    |-> f.meta,
          status  |-> IF f.status = Empty THEN Unknown ELSE f.status,
          version |-> 1] \in Row
  BY FieldAssumption DEF Field, Row

(* A statement that commits r keeps the invariant.                             *)
LEMMA CommitKeeps ==
  ASSUME IInv, NEW p \in Proc, NEW r \in Row, pc[p] \in {"insert", "update"},
         Commit(p, r), UNCHANGED <<cache, writes>>
  PROVE  IInv'
<1> USE DEF IInv, PC
<1>1. TypeOK'
  <2>1. row' \in [Id -> Row \cup {Absent}] /\ commits' \in [Id -> SUBSET Row]
    BY DEF TypeOK, Commit
  <2>2. /\ pc' \in [Proc -> PC] /\ val' \in [Proc -> Row \cup {Absent}]
        /\ id' = id /\ arg' = arg
    BY DEF TypeOK, Commit, Goto, Error
  <2>3. racy' \in [Id -> BOOLEAN] /\ writes' \in 0 .. MaxWrites
    BY DEF TypeOK, Commit
  <2>4. QED
    BY <2>1, <2>2, <2>3 DEF TypeOK
<1>2. CopiesOK'
  <2>1. id' = id /\ id[p] \in Id /\ r # Absent
    BY AbsentAssumption DEF TypeOK, Commit, Goto, Error
  <2>2. \A i \in Id : /\ row'[i] = (IF i = id[p] THEN r ELSE row[i])
                     /\ commits'[i] = (IF i = id[p] THEN commits[i] \cup {r} ELSE commits[i])
    BY DEF TypeOK, Commit
  <2>3. \A q \in Proc : q # p => pc'[q] = pc[q] /\ val'[q] = val[q]
    BY DEF TypeOK, Commit, Goto, Error
  <2>4. (pc'[p] = "write" /\ val'[p] = r) \/ (pc'[p] = "ret" /\ val'[p] = Absent)
    BY DEF TypeOK, Commit, Goto, Error
  <2>5. \A i \in Id : Committed(i, row[i])' /\ Committed(i, cache[i])'
    BY <2>2 DEF CopiesOK, Committed
  <2>6. \A q \in Proc : /\ pc'[q] \in {"write", "ret"} => Committed(id[q], val[q])'
                        /\ pc'[q] = "write" => val'[q] # Absent
    <3>1. ASSUME NEW q \in Proc, q # p
          PROVE  /\ pc'[q] \in {"write", "ret"} => Committed(id[q], val[q])'
                 /\ pc'[q] = "write" => val'[q] # Absent
      <4>1. id[q] \in Id /\ commits[id[q]] \subseteq commits'[id[q]]
        BY <2>2 DEF TypeOK
      <4>2. QED
        BY <3>1, <4>1, <2>1, <2>3 DEF CopiesOK, Committed
    <3>2. Committed(id[p], val[p])' /\ (pc'[p] = "write" => val'[p] # Absent)
      BY <2>1, <2>2, <2>4 DEF Committed
    <3>3. QED
      BY <3>1, <3>2
  <2>7. QED
    BY <2>5, <2>6 DEF CopiesOK
<1>3. AloneOK'
  <2> SUFFICES ASSUME NEW i \in Id, ~racy'[i] PROVE AloneAt(i)'
    BY DEF AloneOK
  <2>1. p \in Active(id[p]) /\ id[p] \in Id
    BY DEF TypeOK, Active
  <2>2. AloneAt(i)
    BY <2>1 DEF TypeOK, AloneOK, Commit, Error
  <2>3. CASE i = id[p]
    <3>1. pc' = [pc EXCEPT ![p] = "write"] /\ val' = [val EXCEPT ![p] = r] /\ id' = id
      BY <2>3 DEF Commit, Error, Goto, TypeOK
    <3>2. Active(i) = {p} /\ Active(i)' = {p}
      BY <2>1, <2>2, <2>3, <3>1 DEF AloneAt, Active, TypeOK
    <3>3. QED
      BY <2>3, <3>1, <3>2 DEF AloneAt, TypeOK, Commit
  <2>4. CASE i # id[p]
    <3>1. Active(i)' = Active(i) /\ p \notin Active(i)
      BY <2>4 DEF Active, TypeOK, Commit, Goto, Error
    <3>2. QED
      BY <2>2, <2>4, <3>1 DEF AloneAt, Active, Fresh, TypeOK, Commit, Goto, Error
  <2>5. QED
    BY <2>3, <2>4
<1>4. QED
  BY <1>1, <1>2, <1>3

(* The start of a call keeps the invariant.                                    *)
LEMMA CallKeeps ==
  ASSUME IInv, NEW p \in Proc, NEW i \in Id, NEW v \in Field,
         NEW step \in {"insert", "update", "lookup"},
         pc[p] \in {"idle", "ret"}, Call(p, step, i, v), writes' \in 0 .. MaxWrites
  PROVE  IInv'
<1> USE DEF IInv, PC
<1>1. TypeOK'
  BY DEF TypeOK, Call
<1>2. CopiesOK'
  BY DEF TypeOK, CopiesOK, Committed, Call
<1>3. AloneOK'
  <2> SUFFICES ASSUME NEW j \in Id, ~racy'[j] PROVE AloneAt(j)'
    BY DEF AloneOK
  <2>1. AloneAt(j)
    BY DEF TypeOK, AloneOK, Call
  <2>2. CASE j = i
    <3>1. Active(j) = {} /\ Active(j)' = {p}
      BY <2>2 DEF TypeOK, Call, Active
    <3>2. QED
      BY <2>1, <2>2, <3>1 DEF AloneAt, Fresh, TypeOK, Call
  <2>3. CASE j # i
    <3>1. Active(j)' = Active(j) /\ p \notin Active(j)
      BY <2>3 DEF TypeOK, Call, Active
    <3>2. QED
      BY <2>1, <3>1 DEF AloneAt, Active, Fresh, TypeOK, Call
  <2>4. QED
    BY <2>2, <2>3
<1>4. QED
  BY <1>1, <1>2, <1>3

(* A round trip or an expiry keeps the invariant.                              *)
LEMMA StoreKeeps ==
  ASSUME IInv, UNCHANGED writes,
         (\E p \in Proc : StoreStep(p) \/ Return(p)) \/ (\E i \in Id : Expire(i))
  PROVE  IInv'
<1> USE AbsentAssumption DEF IInv, PC
<1>1. ASSUME NEW p \in Proc, Insert(p), UNCHANGED writes PROVE IInv'
  <2>1. arg[p] \in Field
    BY DEF TypeOK
  <2>2. QED
    BY <1>1, <2>1, NewRow, CommitKeeps DEF Insert
<1>2. ASSUME NEW p \in Proc, UpdateRow(p), UNCHANGED writes PROVE IInv'
  <2>1. row[id[p]] \in Row /\ arg[p] \in Field
    BY <1>2 DEF UpdateRow, TypeOK
  <2>2. QED
    BY <1>2, <2>1, MergedRow, CommitKeeps DEF UpdateRow
<1>3. ASSUME NEW p \in Proc, Lookup(p) \/ Select(p) \/ DbError(p), UNCHANGED writes
      PROVE  IInv'
  <2>1. TypeOK'
    BY <1>3 DEF TypeOK, Lookup, Select, DbError, Error, Goto
  <2>2. CopiesOK'
    BY <1>3 DEF TypeOK, CopiesOK, Committed, Lookup, Select, DbError, Error, Goto
  <2>3. AloneOK'
    BY <1>3 DEF TypeOK, AloneOK, AloneAt, Active, Fresh, Lookup, Select, DbError, Error, Goto
  <2>4. QED
    BY <2>1, <2>2, <2>3
<1>4. ASSUME NEW p \in Proc, CacheWrite(p) \/ CacheWriteFails(p), UNCHANGED writes
      PROVE  IInv'
  <2>1. TypeOK'
    BY <1>4 DEF TypeOK, CacheWrite, CacheWriteFails, Goto
  <2>2. CopiesOK'
    BY <1>4 DEF TypeOK, CopiesOK, Committed, CacheWrite, CacheWriteFails, Goto
  <2>3. AloneOK'
    BY <1>4 DEF TypeOK, AloneOK, AloneAt, Active, Fresh, CacheWrite, CacheWriteFails, Goto
  <2>4. QED
    BY <2>1, <2>2, <2>3
<1>5. ASSUME NEW p \in Proc, Return(p), UNCHANGED writes PROVE IInv'
  BY <1>5 DEF TypeOK, CopiesOK, Committed, AloneOK, AloneAt, Active, Fresh, Return, NoField, Field
<1>6. ASSUME NEW i \in Id, Expire(i), UNCHANGED writes PROVE IInv'
  BY <1>6 DEF TypeOK, CopiesOK, Committed, AloneOK, AloneAt, Active, Fresh, Expire
<1>7. QED
  BY <1>1, <1>2, <1>3, <1>4, <1>5, <1>6 DEF StoreStep

(* So does a user's call.                                                      *)
LEMMA ClientKeeps ==
  ASSUME IInv, NEW p \in Proc, Client(p)
  PROVE  IInv'
<1> USE DEF IInv, PC
<1>1. NoField \in Field
  BY DEF NoField, Field
<1>2. ASSUME NEW i \in Id, Get(p, i), UNCHANGED writes PROVE IInv'
  BY <1>1, <1>2, CallKeeps DEF Client, Get, TypeOK
<1>3. ASSUME NEW i \in Id, NEW v \in Field, Create(p, i, v) \/ Update(p, i, v),
             writes < MaxWrites, writes' = writes + 1
      PROVE  IInv'
  BY <1>3, CallKeeps, BoundAssumption DEF Client, Create, Update, TypeOK
<1>4. QED
  BY <1>2, <1>3 DEF Client

(* So does a step of something else.                                           *)
LEMMA Unchanged == IInv /\ UNCHANGED vars => IInv'
BY DEF vars, storeVars, IInv, TypeOK, CopiesOK, Committed, AloneOK, AloneAt, Active, Fresh

(* Every state satisfies the inductive invariant.                              *)
THEOREM InductiveInvariant == Spec => []IInv
<1>1. Init => IInv
  BY FieldAssumption, BoundAssumption
     DEF Init, StoreInit, IInv, TypeOK, CopiesOK, AloneOK, AloneAt, Committed, Active, Fresh,
         PC, NoField, Field
<1>2. IInv /\ [Next]_vars => IInv'
  <2>1. IInv /\ Next => IInv'
    BY StoreKeeps, ClientKeeps DEF Next
  <2>2. QED
    BY <2>1, Unchanged
<1>3. QED
  BY <1>1, <1>2, PTL DEF Spec

(* Whatever calls race and whichever round trips fail, the cache serves and    *)
(* the calls return only values that were committed for their server.          *)
THEOREM ServesCommitted == Spec => []ServesCommittedRows
<1>1. IInv => ServesCommittedRows
  BY DEF IInv, CopiesOK, Committed, ServesCommittedRows
<1>2. QED
  BY <1>1, InductiveInvariant, PTL

(* The cache is transparent to calls that do not race: between calls the entry *)
(* is the current row unless calls overlapped or a write missed the cache.     *)
THEOREM Coherent == Spec => []CoherentUnlessRaced
<1>1. IInv => CoherentUnlessRaced
  BY DEF IInv, AloneOK, AloneAt, CoherentUnlessRaced
<1>2. QED
  BY <1>1, InductiveInvariant, PTL
-----------------------------------------------------------------------------
(* Inventory: provider-sync and health checks as callers of the store. *)

\* A sync that has called the store is at a resource of its list.
SyncerOK ==
    /\ next \in [Syncer -> Nat \ {0}]
    /\ got \in [Syncer -> Row \cup {Absent}]
    /\ \A s \in Syncer : pc[s] # "idle" => next[s] <= Len(Resources) /\ Resource(s).id # Malformed

\* A row's version tells its values apart, and the row is the newest of them.
VersionsOK ==
    \A i \in Id :
        /\ row[i] = Absent => commits[i] = {}
        /\ row[i] # Absent => \A r \in commits[i] :
               r.version <= row[i].version /\ (r.version = row[i].version => r = row[i])

\* What a sync is about to write has the health state of a value it has read.
ReadOK ==
    \A s \in Syncer : pc[s] = "update" =>
        got[s] \in commits[id[s]] /\ arg[s].status = got[s].status

InventoryInv == IInv /\ SyncerOK /\ VersionsOK /\ ReadOK

(* A sync only writes what is in its list.                                     *)
LEMMA ResourceType ==
  ASSUME SyncerOK, NEW s \in Syncer, next[s] <= Len(Resources)
  PROVE  Resource(s).id \in Id \cup {Malformed} /\ Resource(s).meta \in Meta
<1> DEFINE R == [id : Id \cup {Malformed}, meta : Meta]
<1>1. next[s] \in 1 .. Len(Resources)
  BY DEF SyncerOK
<1>2. Resources[next[s]] \in R
  <2>1. Resources \in Seq(R)
    BY ResourcesAssumption
  <2> HIDE DEF R
  <2>2. QED
    BY <1>1, <2>1
<1>3. QED
  BY <1>2 DEF Resource

(* Committing a value of a new version keeps the versions apart.               *)
LEMMA CommitVersions ==
  ASSUME IInv, VersionsOK, NEW p \in Proc, NEW r \in Row, Commit(p, r),
         row[id[p]] = Absent \/ r.version = row[id[p]].version + 1
  PROVE  VersionsOK'
<1> SUFFICES ASSUME NEW i \in Id PROVE VersionsOK!(i)'
  BY DEF VersionsOK
<1>1. id[p] \in Id /\ r # Absent /\ r.version \in Nat
  BY AbsentAssumption DEF IInv, TypeOK, Row
<1>2. CASE i # id[p]
  <2>1. row'[i] = row[i] /\ commits'[i] = commits[i]
    BY <1>2 DEF Commit, IInv, TypeOK
  <2>2. QED
    BY <2>1 DEF VersionsOK
<1>3. CASE i = id[p]
  <2>1. row'[i] = r /\ commits'[i] = commits[i] \cup {r}
    BY <1>3, <1>1 DEF Commit, IInv, TypeOK
  <2>2. \A q \in commits[i] : q.version < r.version
    <3>1. CASE row[i] = Absent
      BY <3>1 DEF VersionsOK
    <3>2. CASE row[i] # Absent
      <4>1. row[i].version \in Nat /\ \A q \in commits[i] : q.version \in Nat
        BY <3>2 DEF IInv, TypeOK, Row
      <4>2. QED
        BY <1>3, <3>2, <4>1 DEF VersionsOK
    <3>3. QED
      BY <3>1, <3>2
  <2>3. \A q \in commits[i] : q.version \in Nat
    BY DEF IInv, TypeOK, Row
  <2>4. QED
    BY <1>1, <2>1, <2>2, <2>3
<1>4. QED
  BY <1>2, <1>3

(* Round trips and expiries keep the versions apart and what is committed.     *)
LEMMA StoreKeepsVersions ==
  ASSUME IInv, VersionsOK,
         (\E p \in Proc : StoreStep(p) \/ Return(p)) \/ (\E i \in Id : Expire(i))
  PROVE  VersionsOK' /\ \A i \in Id : commits[i] \subseteq commits'[i]
<1>1. ASSUME NEW p \in Proc, Insert(p)
      PROVE  VersionsOK' /\ \A i \in Id : commits[i] \subseteq commits'[i]
  <2>1. arg[p] \in Field
    BY DEF IInv, TypeOK
  <2>2. VersionsOK'
    BY <1>1, <2>1, NewRow, CommitVersions DEF Insert
  <2>3. QED
    BY <1>1, <2>2 DEF Insert, Commit, IInv, TypeOK
<1>2. ASSUME NEW p \in Proc, UpdateRow(p)
      PROVE  VersionsOK' /\ \A i \in Id : commits[i] \subseteq commits'[i]
  <2>1. row[id[p]] \in Row /\ arg[p] \in Field
    BY <1>2 DEF UpdateRow, IInv, TypeOK
  <2>2. VersionsOK'
    BY <1>2, <2>1, MergedRow, CommitVersions DEF UpdateRow
  <2>3. QED
    BY <1>2, <2>2 DEF UpdateRow, Commit, IInv, TypeOK
<1>3. CASE UNCHANGED <<row, commits>>
  BY <1>3 DEF VersionsOK
<1>4. QED
  BY <1>1, <1>2, <1>3
     DEF StoreStep, Lookup, Select, CacheWrite, CacheWriteFails, DbError, Return, Expire

(* Every state of the store under syncs, checks and users satisfies it.        *)
THEOREM InventoryInvariant == InventorySpec => []InventoryInv
<1>1. InventoryInit => InventoryInv
  <2> SUFFICES ASSUME InventoryInit PROVE InventoryInv
    OBVIOUS
  <2>1. IInv
    BY FieldAssumption, BoundAssumption
       DEF InventoryInit, Init, StoreInit, IInv, TypeOK, CopiesOK, AloneOK, AloneAt, Committed,
           Active, Fresh, PC, NoField, Field
  <2>2. SyncerOK /\ VersionsOK /\ ReadOK
    BY ProcAssumption DEF InventoryInit, Init, StoreInit, SyncerOK, VersionsOK, ReadOK
  <2>3. QED
    BY <2>1, <2>2 DEF InventoryInv
<1>2. InventoryInv /\ [InventoryNext]_inventoryVars => InventoryInv'
  <2> SUFFICES ASSUME InventoryInv, [InventoryNext]_inventoryVars PROVE InventoryInv'
    OBVIOUS
  <2> USE ProcAssumption DEF InventoryInv
  <2>1. ASSUME NEW s \in Syncer, SkipMalformed(s) PROVE InventoryInv'
    <3>1. IInv'
      BY <2>1, Unchanged DEF SkipMalformed, vars
    <3>2. SyncerOK'
      BY <2>1 DEF SkipMalformed, Advance, SyncerOK, Resource, storeVars
    <3>3. VersionsOK' /\ ReadOK'
      BY <2>1 DEF SkipMalformed, VersionsOK, ReadOK, storeVars
    <3>4. QED
      BY <3>1, <3>2, <3>3
  <2>2. ASSUME NEW s \in Syncer, SyncGet(s) PROVE InventoryInv'
    <3>1. s \in Proc /\ Resource(s).id \in Id /\ NoField \in Field
      BY <2>2, ResourceType DEF SyncGet, NoField, Field
    <3>2. IInv'
      BY <2>2, <3>1, CallKeeps DEF SyncGet, Get, IInv, TypeOK
    <3>3. /\ UNCHANGED <<row, commits, next, got>> /\ pc'[s] = "lookup"
          /\ \A t \in Syncer \ {s} : pc'[t] = pc[t] /\ id'[t] = id[t] /\ arg'[t] = arg[t]
      BY <2>2 DEF SyncGet, Get, Call, IInv, TypeOK
    <3>4. SyncerOK'
      BY <2>2, <3>3 DEF SyncGet, SyncerOK, Resource
    <3>5. VersionsOK' /\ ReadOK'
      BY <3>3 DEF VersionsOK, ReadOK
    <3>6. QED
      BY <3>2, <3>4, <3>5
  <2>3. ASSUME NEW s \in Syncer, SyncWrite(s) PROVE InventoryInv'
    <3>1. s \in Proc /\ id[s] \in Id /\ val[s] \in Row \cup {Absent} /\ pc[s] = "ret"
      BY <2>3 DEF SyncWrite, IInv, TypeOK
    <3>2. Resource(s).meta \in Meta
      BY <3>1, ResourceType DEF SyncerOK
    <3>3. PICK step \in {"insert", "update"}, f \in Field :
              /\ Call(s, step, id[s], f)
              /\ step = "update" => val[s] # Absent /\ f.status = val[s].status
      <4>1. CASE /\ val[s] # Absent
                 /\ Update(s, id[s], [meta |-> Resource(s).meta, status |-> val[s].status])
        BY <3>1, <3>2, <4>1 DEF Update, Field, Row
      <4>2. CASE Create(s, id[s], [meta |-> Resource(s).meta, status |-> Unknown])
        BY <3>2, <4>2, FieldAssumption DEF Create, Field
      <4>3. QED
        BY <2>3, <4>1, <4>2 DEF SyncWrite
    <3>4. IInv'
      BY <2>3, <3>1, <3>3, CallKeeps DEF SyncWrite, IInv, TypeOK
    <3>5. /\ UNCHANGED <<row, commits, next>> /\ pc'[s] = step /\ id'[s] = id[s] /\ arg'[s] = f
          /\ got' = [got EXCEPT ![s] = val[s]]
          /\ \A t \in Syncer \ {s} : pc'[t] = pc[t] /\ id'[t] = id[t] /\ arg'[t] = arg[t]
      BY <2>3, <3>3 DEF SyncWrite, Call, IInv, TypeOK
    <3>6. SyncerOK'
      BY <3>1, <3>5 DEF SyncerOK, Resource
    <3>7. val[s] # Absent => val[s] \in commits[id[s]]
      BY <3>1 DEF IInv, CopiesOK, Committed
    <3>8. VersionsOK' /\ ReadOK'
      BY <3>3, <3>5, <3>7 DEF VersionsOK, ReadOK, SyncerOK
    <3>9. QED
      BY <3>4, <3>6, <3>8
  <2>4. ASSUME NEW s \in Syncer, SyncCount(s) PROVE InventoryInv'
    <3>1. IInv' /\ VersionsOK'
      BY <2>4, StoreKeeps, StoreKeepsVersions DEF SyncCount
    <3>2. /\ pc[s] = "ret" /\ pc'[s] = "idle" /\ UNCHANGED <<commits, id>>
          /\ \A t \in Syncer \ {s} : /\ pc'[t] = pc[t] /\ arg'[t] = arg[t]
                                     /\ next'[t] = next[t] /\ got'[t] = got[t]
      BY <2>4 DEF SyncCount, Return, Advance, IInv, TypeOK, SyncerOK
    <3>3. SyncerOK'
      <4>1. next' \in [Syncer -> Nat \ {0}] /\ got' \in [Syncer -> Row \cup {Absent}]
        BY <2>4 DEF SyncCount, Advance, SyncerOK
      <4>2. QED
        BY <3>2, <4>1 DEF SyncerOK, Resource
    <3>4. ReadOK'
      BY <3>2 DEF ReadOK
    <3>5. QED
      BY <3>1, <3>3, <3>4
  <2>5. ASSUME NEW c \in Checker \cup Caller, Check(c) \/ UserCalls(c) PROVE InventoryInv'
    <3>1. IInv'
      <4>1. CASE Check(c)
        <5>1. PICK i \in Id, st \in Statuses :
                  /\ pc[c] = "idle" /\ writes < MaxWrites /\ writes' = writes + 1
                  /\ Update(c, i, [meta |-> Empty, status |-> st])
          BY <4>1 DEF Check
        <5>2. [meta |-> Empty, status |-> st] \in Field /\ c \in Proc
          BY DEF Field, Statuses
        <5>3. writes' \in 0 .. MaxWrites
          BY <5>1, BoundAssumption DEF IInv, TypeOK
        <5>4. QED
          BY <5>1, <5>2, <5>3, CallKeeps DEF Update
      <4>2. CASE UserCalls(c)
        BY <4>2, ClientKeeps DEF UserCalls
      <4>3. QED
        BY <2>5, <4>1, <4>2
    <3>2. /\ UNCHANGED <<row, commits, next, got>>
          /\ \A t \in Syncer : pc'[t] = pc[t] /\ id'[t] = id[t] /\ arg'[t] = arg[t]
      BY <2>5 DEF Check, UserCalls, Client, Get, Create, Update, Call, IInv, TypeOK
    <3>3. SyncerOK' /\ VersionsOK' /\ ReadOK'
      BY <3>2 DEF SyncerOK, Resource, VersionsOK, ReadOK
    <3>4. QED
      BY <3>1, <3>3
  <2>6. ASSUME NEW p \in Checker \cup Caller, CallReturns(p) PROVE InventoryInv'
    <3>1. IInv' /\ VersionsOK'
      BY <2>6, StoreKeeps, StoreKeepsVersions DEF CallReturns
    <3>2. /\ UNCHANGED <<commits, next, got, id>>
          /\ \A t \in Syncer : pc'[t] = pc[t] /\ arg'[t] = arg[t]
      BY <2>6 DEF CallReturns, Return, IInv, TypeOK
    <3>3. SyncerOK' /\ ReadOK'
      BY <3>2 DEF SyncerOK, Resource, ReadOK
    <3>4. QED
      BY <3>1, <3>3
  <2>7. ASSUME Background, UNCHANGED <<writes, next, counts, got>> PROVE InventoryInv'
    <3>1. IInv' /\ VersionsOK' /\ \A i \in Id : commits[i] \subseteq commits'[i]
      BY <2>7, StoreKeeps, StoreKeepsVersions DEF Background
    <3>2. /\ UNCHANGED <<id, arg>>
          /\ \A t \in Syncer : pc'[t] = "update" => pc[t] = "update"
          /\ \A t \in Syncer : pc'[t] # "idle" => pc[t] # "idle"
      <4>1. ASSUME NEW p \in Proc, StoreStep(p)
            PROVE  /\ UNCHANGED <<id, arg>> /\ pc[p] # "idle"
                   /\ \E step : step # "update" /\ pc' = [pc EXCEPT ![p] = step]
        BY <4>1 DEF StoreStep, Insert, UpdateRow, Commit, Lookup, Select, CacheWrite,
                    CacheWriteFails, DbError, Error, Goto
      <4>2. pc \in [Proc -> PC]
        BY DEF InventoryInv, IInv, TypeOK
      <4>3. QED
        BY <2>7, <4>1, <4>2, ProcAssumption DEF Background, Expire
    <3>3. SyncerOK'
      BY <2>7, <3>2 DEF SyncerOK, Resource
    <3>4. ReadOK'
      BY <2>7, <3>1, <3>2 DEF ReadOK, IInv, TypeOK
    <3>5. QED
      BY <3>1, <3>3, <3>4
  <2>8. CASE UNCHANGED inventoryVars
    <3>1. IInv'
      BY <2>8, Unchanged DEF inventoryVars, vars
    <3>2. SyncerOK' /\ VersionsOK' /\ ReadOK'
      BY <2>8 DEF inventoryVars, storeVars, SyncerOK, Resource, VersionsOK, ReadOK
    <3>3. QED
      BY <3>1, <3>2
  <2>9. QED
    BY <2>1, <2>2, <2>3, <2>4, <2>5, <2>6, <2>7, <2>8 DEF InventoryNext
<1>3. QED
  BY <1>1, <1>2, PTL DEF InventorySpec

(* Also with any number of syncs and checks, only committed values are served, *)
(* and the entry is the row unless calls raced.                                *)
THEOREM InventoryServesCommitted == InventorySpec => [](ServesCommittedRows /\ CoherentUnlessRaced)
<1>1. InventoryInv => ServesCommittedRows /\ CoherentUnlessRaced
  BY DEF InventoryInv, IInv, CopiesOK, Committed, AloneOK, AloneAt, ServesCommittedRows,
         CoherentUnlessRaced
<1>2. QED
  BY <1>1, InventoryInvariant, PTL

(* A sync that has read the current row leaves the health state alone, whatever *)
(* other syncs, checks and users do (providerinventory.Sync).                   *)
THEOREM FreshSync == InventorySpec => FreshSyncPreservesHealth
<1>1. ASSUME InventoryInv, [InventoryNext]_inventoryVars,
             NEW s \in Syncer, NEW i \in Id,
             SyncUpdates(s, i), got[s].version = row[i].version
      PROVE  row'[i].status = row[i].status
  <2> USE ProcAssumption DEF InventoryInv, IInv, TypeOK
  <2>1. pc[s] = "update" /\ pc'[s] # "update" /\ id[s] = i /\ row'[i] # row[i] /\ s \in Proc
    BY <1>1 DEF SyncUpdates
  <2>2. UpdateRow(s)
    <3>1. \A p \in Proc : p # s => ~StoreStep(p)
      BY <2>1, <1>1 DEF StoreStep, Insert, UpdateRow, Commit, Lookup, Select, CacheWrite,
                  CacheWriteFails, DbError, Error, Goto
    <3>2. StoreStep(s)
      BY <1>1, <2>1, <3>1
         DEF InventoryNext, inventoryVars, storeVars, SkipMalformed, SyncGet, SyncWrite, SyncCount,
             Check, UserCalls, CallReturns, Background, Client, Get, Create, Update, Call, Return,
             Expire
    <3>3. QED
      BY <2>1, <3>2 DEF StoreStep, Insert, Lookup, Select, CacheWrite, CacheWriteFails, DbError
  <2>3. row[i] # Absent /\ row[i] \in Row /\ got[s] \in commits[i] /\ arg[s].status = got[s].status
    BY <1>1, <2>1, <2>2 DEF UpdateRow, ReadOK
  <2>4. got[s] = row[i]
    BY <1>1, <2>3 DEF VersionsOK
  <2>5. row'[i].status = Coalesce(arg[s].status, row[i].status)
    BY <2>1, <2>2 DEF UpdateRow, Commit
  <2>6. QED
    BY <2>3, <2>4, <2>5 DEF Coalesce
<1>2. InventoryInv /\ [InventoryNext]_inventoryVars =>
          \A s \in Syncer, i \in Id :
              SyncUpdates(s, i) /\ got[s].version = row[i].version
                  => row'[i].status = row[i].status
  BY <1>1
<1>3. QED
  BY <1>2, InventoryInvariant, PTL DEF InventorySpec, FreshSyncPreservesHealth
-----------------------------------------------------------------------------
(* The SyncResult of provider-sync.                                            *)

\* s has created the server of its resource and has not counted it yet.
Creating(s) ==
    /\ got[s] = Absent /\ arg[s] # NoField
    /\ pc[s] = "write" \/ (pc[s] = "ret" /\ val[s] # Absent)

\* What s has reported as created, and what it is about to.
Owed(s) == counts[s].created + IF Creating(s) THEN 1 ELSE 0

Claims == {c \in Syncer \X (Nat \ {0}) : c[2] <= Owed(c[1])}

CountsOK ==
    /\ counts \in [Syncer -> [created : Nat, updated : Nat, failed : Nat]]
    /\ \A s \in Syncer :
          /\ counts[s].created + counts[s].updated + counts[s].failed = next[s] - 1
          /\ pc[s] \in {"lookup", "select"} => arg[s] = NoField
    /\ ExistsInjection(Claims, Existing)

(* Fewer claims on more servers.                                               *)
LEMMA FewerClaims ==
  ASSUME NEW S, NEW T, ExistsInjection(S, T), NEW A, A \subseteq S, NEW B, T \subseteq B
  PROVE  ExistsInjection(A, B)
<1>1. PICK f \in [S -> T] : \A a, b \in S : f[a] = f[b] => a = b
  BY DEF ExistsInjection, Injection, IsInjective
<1> DEFINE g == [a \in A |-> f[a]]
<1>2. g \in [A -> B]
  BY <1>1
<1>3. \A a, b \in DOMAIN g : g[a] = g[b] => a = b
  BY <1>1
<1>4. QED
  BY <1>2, <1>3 DEF ExistsInjection, Injection, IsInjective

(* One more claim on one more server.                                          *)
LEMMA OneMoreClaim ==
  ASSUME NEW S, NEW T, ExistsInjection(S, T), NEW x, NEW t, t \notin T
  PROVE  ExistsInjection(S \cup {x}, T \cup {t})
<1>1. PICK f \in [S -> T] : \A a, b \in S : f[a] = f[b] => a = b
  BY DEF ExistsInjection, Injection, IsInjective
<1> DEFINE g == [a \in S \cup {x} |-> IF a \in S THEN f[a] ELSE t]
<1>2. g \in [S \cup {x} -> T \cup {t}]
  BY <1>1
<1>3. \A a, b \in DOMAIN g : g[a] = g[b] => a = b
  BY <1>1
<1>4. QED
  BY <1>2, <1>3 DEF ExistsInjection, Injection, IsInjective

(* What is owed decides which claims there are.                                *)
LEMMA SameClaims ==
  ASSUME \A s \in Syncer : Owed(s)' = Owed(s)
  PROVE  Claims' = Claims
  BY DEF Claims

(* A step that leaves the syncs as they are leaves the claims.                 *)
LEMMA CountsStay ==
  ASSUME CountsOK, UNCHANGED <<next, counts, got>>,
         \A i \in Id : row[i] # Absent => row'[i] # Absent,
         \A s \in Syncer : pc'[s] = pc[s] /\ arg'[s] = arg[s] /\ val'[s] = val[s]
  PROVE  CountsOK'
<1>1. Claims' = Claims
  BY SameClaims DEF Owed, Creating, NoField
<1>2. Existing \subseteq Existing'
  BY DEF Existing
<1>3. ExistsInjection(Claims, Existing)'
  BY <1>1, <1>2, FewerClaims DEF CountsOK
<1>4. QED
  BY <1>3 DEF CountsOK, NoField

(* No round trip removes a row.                                                *)
LEMMA RowsStay ==
  ASSUME IInv, (\E p \in Proc : StoreStep(p) \/ Return(p)) \/ (\E i \in Id : Expire(i))
  PROVE  \A i \in Id : row[i] # Absent => row'[i] # Absent
<1>1. ASSUME NEW p \in Proc, UpdateRow(p)
      PROVE  \A i \in Id : row[i] # Absent => row'[i] # Absent
  <2>1. row[id[p]] \in Row /\ arg[p] \in Field
    BY <1>1 DEF UpdateRow, IInv, TypeOK
  <2>2. PICK r \in Row : row' = [row EXCEPT ![id[p]] = r]
    BY <1>1, <2>1, MergedRow DEF UpdateRow, Commit
  <2>3. QED
    BY <2>2, AbsentAssumption DEF IInv, TypeOK
<1>2. ASSUME NEW p \in Proc, Insert(p)
      PROVE  \A i \in Id : row[i] # Absent => row'[i] # Absent
  <2>1. PICK r \in Row : row' = [row EXCEPT ![id[p]] = r]
    BY <1>2, NewRow DEF Insert, Commit, IInv, TypeOK
  <2>2. QED
    BY <2>1, AbsentAssumption DEF IInv, TypeOK
<1>3. CASE UNCHANGED row
  BY <1>3
<1>4. QED
  BY <1>1, <1>2, <1>3
     DEF StoreStep, Lookup, Select, CacheWrite, CacheWriteFails, DbError, Return, Expire

(* A sync that owes as much as before, with a result for each resource it left. *)
LEMMA CountsMove ==
  ASSUME InventoryInv, CountsOK, NEW s \in Syncer, UNCHANGED row,
         \A t \in Syncer \ {s} :
             /\ pc'[t] = pc[t] /\ arg'[t] = arg[t] /\ val'[t] = val[t]
             /\ got'[t] = got[t] /\ next'[t] = next[t] /\ counts'[t] = counts[t],
         counts' \in [Syncer -> [created : Nat, updated : Nat, failed : Nat]],
         counts'[s].created + counts'[s].updated + counts'[s].failed = next'[s] - 1,
         pc'[s] \in {"lookup", "select"} => arg'[s] = NoField,
         Owed(s)' = Owed(s)
  PROVE  CountsOK'
<1>1. Claims' = Claims
  BY SameClaims DEF Owed, Creating, NoField
<1>2. Existing' = Existing
  BY DEF Existing
<1>3. \A t \in Syncer :
          /\ counts'[t].created + counts'[t].updated + counts'[t].failed = next'[t] - 1
          /\ pc'[t] \in {"lookup", "select"} => arg'[t] = NoField
  BY DEF CountsOK
<1>4. QED
  BY <1>1, <1>2, <1>3 DEF CountsOK, NoField

(* A round trip of a sync: only an INSERT makes a claim, with a server for it.  *)
LEMMA RoundTripCounts ==
  ASSUME InventoryInv, CountsOK, NEW s \in Syncer, StoreStep(s), UNCHANGED <<next, counts, got>>
  PROVE  CountsOK'
<1> USE DEF InventoryInv, IInv, TypeOK, CountsOK
<1>0. /\ s \in Proc /\ id[s] \in Id
      /\ \A t \in Syncer \ {s} : pc'[t] = pc[t] /\ arg'[t] = arg[t] /\ val'[t] = val[t]
      /\ arg'[s] = arg[s]
  BY ProcAssumption DEF StoreStep, Insert, UpdateRow, Commit, Lookup, Select, CacheWrite,
                        CacheWriteFails, DbError, Error, Goto
<1>1. CASE Insert(s)
  <2>1. /\ row[id[s]] = Absent /\ pc[s] = "insert" /\ pc'[s] \in {"write", "ret"}
        /\ \A i \in Id : i # id[s] => row'[i] = row[i]
    BY <1>0, <1>1 DEF Insert, Commit, Goto, Error
  <2>2. row'[id[s]] # Absent
    <3>1. PICK r \in Row : row' = [row EXCEPT ![id[s]] = r]
      BY <1>0, <1>1, NewRow DEF Insert, Commit
    <3>2. QED
      BY <1>0, <3>1, AbsentAssumption
  <2>3. Existing' = Existing \cup {id[s]} /\ id[s] \notin Existing
    BY <1>0, <2>1, <2>2 DEF Existing
  <2>4. ExistsInjection(Claims \cup {<<s, Owed(s) + 1>>}, Existing')
    BY <2>3, OneMoreClaim
  <2>5. Claims' \subseteq Claims \cup {<<s, Owed(s) + 1>>}
    <3>1. \A t \in Syncer \ {s} : Owed(t)' = Owed(t)
      BY <1>0 DEF Owed, Creating, NoField
    <3>2. Owed(s) \in Nat /\ Owed(s)' \in {Owed(s), Owed(s) + 1}
      BY <2>1 DEF Owed, Creating
    <3>3. QED
      BY <3>1, <3>2 DEF Claims
  <2>6. ExistsInjection(Claims, Existing)'
    BY <2>4, <2>5, FewerClaims
  <2>7. QED
    BY <1>0, <2>1, <2>6 DEF NoField
<1>2. ASSUME ~Insert(s) PROVE CountsOK'
  <2>1. Owed(s)' = Owed(s) /\ (pc'[s] \in {"lookup", "select"} => arg'[s] = NoField)
    <3>1. CASE UpdateRow(s)
      <4>1. got[s] # Absent
        <5>1. got[s] \in commits[id[s]] /\ commits[id[s]] \subseteq Row
          BY <1>0, <3>1 DEF UpdateRow, ReadOK
        <5>2. QED
          BY <5>1, AbsentAssumption
      <4>2. QED
        BY <3>1, <4>1 DEF UpdateRow, Commit, Goto, Error, Owed, Creating
    <3>2. CASE Lookup(s) \/ Select(s)
      BY <1>0, <3>2 DEF Lookup, Select, Goto, Owed, Creating, NoField
    <3>3. CASE CacheWrite(s) \/ CacheWriteFails(s)
      <4>1. pc[s] = "write" /\ pc'[s] = "ret" /\ val'[s] = val[s] /\ val[s] # Absent
        BY <1>0, <3>3 DEF CacheWrite, CacheWriteFails, Goto, CopiesOK
      <4>2. QED
        BY <1>0, <4>1 DEF Owed, Creating, NoField
    <3>4. CASE DbError(s)
      BY <1>0, <3>4 DEF DbError, Error, Goto, Owed, Creating
    <3>5. QED
      BY <1>2, <3>1, <3>2, <3>3, <3>4 DEF StoreStep
  <2>2. Claims' = Claims
    BY <1>0, <2>1, SameClaims DEF Owed, Creating, NoField
  <2>3. Existing \subseteq Existing'
    <3>1. \A i \in Id : row[i] # Absent => row'[i] # Absent
      BY <1>0, RowsStay
    <3>2. QED
      BY <3>1 DEF Existing
  <2>4. QED
    BY <1>0, <2>1, <2>2, <2>3, FewerClaims DEF NoField
<1>3. QED
  BY <1>1, <1>2

(* The counts of every sync stay right.                                        *)
LEMMA CountsInvariant ==
  ASSUME InventoryInv, CountsOK, [InventoryNext]_inventoryVars
  PROVE  CountsOK'
<1> USE ProcAssumption DEF InventoryInv, IInv, TypeOK
<1>0. /\ counts \in [Syncer -> [created : Nat, updated : Nat, failed : Nat]]
      /\ next \in [Syncer -> Nat \ {0}]
      /\ \A s \in Syncer :
            counts[s].created + counts[s].updated + counts[s].failed = next[s] - 1
  BY DEF CountsOK, SyncerOK
<1>1. ASSUME NEW s \in Syncer, NEW field \in {"created", "updated", "failed"}, Advance(s, field)
      PROVE  /\ counts' \in [Syncer -> [created : Nat, updated : Nat, failed : Nat]]
             /\ counts'[s].created + counts'[s].updated + counts'[s].failed = next'[s] - 1
             /\ counts'[s].created =
                   IF field = "created" THEN counts[s].created + 1 ELSE counts[s].created
             /\ \A t \in Syncer \ {s} : next'[t] = next[t] /\ counts'[t] = counts[t]
  BY <1>0, <1>1 DEF Advance
<1>2. ASSUME NEW s \in Syncer, SkipMalformed(s) PROVE CountsOK'
  <2>1. Advance(s, "failed") /\ pc[s] = "idle" /\ UNCHANGED <<row, pc, arg, val, got>>
    BY <1>2 DEF SkipMalformed, storeVars
  <2>2. Owed(s)' = Owed(s)
    BY <1>1, <2>1 DEF Owed, Creating
  <2>3. QED
    BY <1>1, <2>1, <2>2, CountsMove
<1>3. ASSUME NEW s \in Syncer, SyncGet(s) PROVE CountsOK'
  <2>1. /\ pc[s] = "idle" /\ pc'[s] = "lookup" /\ arg'[s] = NoField
        /\ UNCHANGED <<row, val, got, next, counts>>
        /\ \A t \in Syncer \ {s} : pc'[t] = pc[t] /\ arg'[t] = arg[t]
    BY <1>3 DEF SyncGet, Get, Call
  <2>2. Owed(s)' = Owed(s)
    BY <2>1 DEF Owed, Creating
  <2>3. QED
    BY <1>0, <2>1, <2>2, CountsMove
<1>4. ASSUME NEW s \in Syncer, SyncWrite(s) PROVE CountsOK'
  <2>1. /\ arg[s] = NoField /\ pc'[s] \in {"insert", "update"}
        /\ UNCHANGED <<row, val, next, counts>>
        /\ \A t \in Syncer \ {s} : pc'[t] = pc[t] /\ arg'[t] = arg[t] /\ got'[t] = got[t]
    BY <1>4 DEF SyncWrite, Create, Update, Call, SyncerOK
  <2>2. Owed(s)' = Owed(s)
    BY <2>1 DEF Owed, Creating
  <2>3. QED
    BY <1>0, <2>1, <2>2, CountsMove
<1>5. ASSUME NEW s \in Syncer, SyncCount(s) PROVE CountsOK'
  <2> DEFINE field == IF val[s] = Absent THEN "failed"
                      ELSE IF got[s] = Absent THEN "created" ELSE "updated"
  <2>1. /\ pc[s] = "ret" /\ pc'[s] = "idle" /\ arg[s] # NoField /\ UNCHANGED row
        /\ field \in {"created", "updated", "failed"} /\ Advance(s, field)
        /\ \A t \in Syncer \ {s} : /\ pc'[t] = pc[t] /\ arg'[t] = arg[t]
                                   /\ val'[t] = val[t] /\ got'[t] = got[t]
    BY <1>5 DEF SyncCount, Return, SyncerOK
  <2>2. Owed(s)' = Owed(s)
    <3>1. counts'[s].created = IF field = "created" THEN counts[s].created + 1
                                                    ELSE counts[s].created
      BY <1>1, <2>1
    <3>2. field = "created" <=> Creating(s)
      BY <2>1 DEF Creating
    <3>3. ~Creating(s)' /\ counts[s].created \in Nat
      BY <1>0, <2>1 DEF Creating
    <3> HIDE DEF field
    <3>4. QED
      BY <3>1, <3>2, <3>3 DEF Owed
  <2> HIDE DEF field
  <2>3. QED
    BY <1>1, <2>1, <2>2, CountsMove
<1>6. ASSUME NEW c \in Checker \cup Caller, Check(c) \/ UserCalls(c) PROVE CountsOK'
  BY <1>6, CountsStay DEF Check, UserCalls, Client, Get, Create, Update, Call
<1>7. ASSUME NEW p \in Checker \cup Caller, CallReturns(p) PROVE CountsOK'
  BY <1>7, CountsStay DEF CallReturns, Return
<1>8. ASSUME Background, UNCHANGED <<writes, next, counts, got>> PROVE CountsOK'
  <2>1. \A i \in Id : row[i] # Absent => row'[i] # Absent
    BY <1>8, RowsStay DEF Background
  <2>2. ASSUME NEW s \in Syncer, StoreStep(s) PROVE CountsOK'
    BY <1>8, <2>2, RoundTripCounts
  <2>3. ASSUME NEW p \in Checker \cup Caller, StoreStep(p) PROVE CountsOK'
    <3>1. \A t \in Syncer : pc'[t] = pc[t] /\ arg'[t] = arg[t] /\ val'[t] = val[t]
      BY <2>3 DEF StoreStep, Insert, UpdateRow, Commit, Lookup, Select, CacheWrite,
                  CacheWriteFails, DbError, Error, Goto
    <3>2. QED
      BY <1>8, <2>1, <3>1, CountsStay
  <2>4. ASSUME NEW i \in Id, Expire(i) PROVE CountsOK'
    BY <1>8, <2>4, CountsStay DEF Expire
  <2>5. QED
    BY <1>8, <2>2, <2>3, <2>4 DEF Background
<1>9. CASE UNCHANGED inventoryVars
  BY <1>9, CountsStay DEF inventoryVars, storeVars
<1>10. QED
  BY <1>2, <1>3, <1>4, <1>5, <1>6, <1>7, <1>8, <1>9 DEF InventoryNext

(* Each resource of a sync is counted once, and no two of the creations that    *)
(* syncs report, racing or not, are of one server.                             *)
THEOREM CountsAreTruthfulHolds == InventorySpec => []CountsAreTruthful
<1>1. InventoryInit => CountsOK
  <2> SUFFICES ASSUME InventoryInit PROVE CountsOK
    OBVIOUS
  <2>1. /\ counts \in [Syncer -> [created : Nat, updated : Nat, failed : Nat]]
        /\ \A s \in Syncer :
              /\ counts[s].created + counts[s].updated + counts[s].failed = next[s] - 1
              /\ pc[s] \in {"lookup", "select"} => arg[s] = NoField
              /\ counts[s].created = 0 /\ ~Creating(s)
    BY ProcAssumption DEF InventoryInit, Init, StoreInit, Creating
  <2>2. Claims = {}
    BY <2>1 DEF Claims, Owed
  <2>3. ExistsInjection(Claims, Existing)
    <3>1. [c \in {} |-> c] \in Injection({}, Existing)
      BY DEF Injection, IsInjective
    <3>2. QED
      BY <2>2, <3>1 DEF ExistsInjection
  <2>4. QED
    BY <2>1, <2>3 DEF CountsOK
<1>2. InventoryInv /\ CountsOK /\ [InventoryNext]_inventoryVars => CountsOK'
  BY CountsInvariant
<1>3. CountsOK => CountsAreTruthful
  <2> SUFFICES ASSUME CountsOK PROVE CountsAreTruthful
    OBVIOUS
  <2>1. Reported \subseteq Claims
    <3> SUFFICES ASSUME NEW s \in Syncer, NEW n \in 1 .. counts[s].created
                 PROVE  <<s, n>> \in Claims
      BY DEF Reported, ReportedBy
    <3>1. counts[s].created \in Nat
      BY DEF CountsOK
    <3>2. n <= Owed(s)
      BY <3>1 DEF Owed
    <3>3. QED
      BY <3>1, <3>2 DEF Claims
  <2>2. QED
    BY <2>1, FewerClaims DEF CountsOK, CountsAreTruthful
<1>4. QED
  BY <1>1, <1>2, <1>3, InventoryInvariant, PTL DEF InventorySpec
=============================================================================
