------------------------------ MODULE Inventory ------------------------------
(***************************************************************************)
(* internal/providerinventory Sync, run by cmd/provider-sync, against the  *)
(* store that the monitoring service and the users of the API update at    *)
(* the same time.  Sync reads a server, changes its metadata and writes    *)
(* the whole record back, health state included, in two separate calls of  *)
(* the store.                                                              *)
(***************************************************************************)
EXTENDS ServerStore, Sequences, Functions

CONSTANTS Syncer,    \* provider-sync processes
          Checker,   \* checks of the monitoring service
          Caller,    \* requests of users to the API
          Resources, \* what ListResources returned: [id, meta] records
          Malformed  \* the id of a resource without an id or address

ASSUME ProcAssumption ==
    /\ Proc = Syncer \cup Checker \cup Caller
    /\ Syncer \cap (Checker \cup Caller) = {} /\ Checker \cap Caller = {}
ASSUME ResourcesAssumption == Resources \in Seq([id : Id \cup {Malformed}, meta : Meta])

VARIABLES next,    \* next[s]: index in Resources of the resource s works on
          counts,  \* counts[s]: the SyncResult
          got      \* got[s]: what the Get of the current resource returned

inventoryVars == <<storeVars, writes, next, counts, got>>

Statuses == Status \ {Unknown}

InventoryTypeOK ==
    /\ TypeOK
    /\ next \in [Syncer -> 1 .. Len(Resources) + 1]
    /\ counts \in [Syncer -> [created : Nat, updated : Nat, failed : Nat]]
    /\ got \in [Syncer -> Row \cup {Absent}]

InventoryInit ==
    /\ Init
    /\ next = [s \in Syncer |-> 1]
    /\ counts = [s \in Syncer |-> [created |-> 0, updated |-> 0, failed |-> 0]]
    /\ got = [s \in Syncer |-> Absent]

Resource(s) == Resources[next[s]]

Advance(s, field) ==
    /\ counts' = [counts EXCEPT ![s][field] = @ + 1]
    /\ next' = [next EXCEPT ![s] = @ + 1]

\* A resource without id or address.
SkipMalformed(s) ==
    /\ pc[s] = "idle" /\ next[s] <= Len(Resources)
    /\ Resource(s).id = Malformed
    /\ Advance(s, "failed")
    /\ UNCHANGED <<storeVars, writes, got>>

SyncGet(s) ==
    /\ pc[s] = "idle" /\ next[s] <= Len(Resources)
    /\ Resource(s).id # Malformed
    /\ Get(s, Resource(s).id)
    /\ UNCHANGED <<writes, next, counts, got>>

\* Mutant of SyncWrite: an existing server is registered as unknown again.
SyncWrite_ResetsStatus(s) ==
    /\ pc[s] = "ret" /\ got[s] = Absent /\ arg[s] = NoField
    /\ got' = [got EXCEPT ![s] = val[s]]
    /\ \/ val[s] # Absent /\ Update(s, id[s], [meta |-> Resource(s).meta, status |-> Unknown])
       \/ val[s] = Absent /\ Create(s, id[s], [meta |-> Resource(s).meta, status |-> Unknown])
    /\ UNCHANGED <<writes, next, counts>>

\* Any error of Get, and not only a missing row, leads to Create.
SyncWrite(s) ==
    /\ pc[s] = "ret" /\ got[s] = Absent /\ arg[s] = NoField
    /\ got' = [got EXCEPT ![s] = val[s]]
    /\ \/ val[s] # Absent /\ Update(s, id[s], [meta |-> Resource(s).meta, status |-> val[s].status])
       \/ val[s] = Absent /\ Create(s, id[s], [meta |-> Resource(s).meta, status |-> Unknown])
    /\ UNCHANGED <<writes, next, counts>>

\* Mutant of SyncCount: the error of Create or Update is not looked at.
SyncCount_IgnoresError(s) ==
    /\ pc[s] = "ret" /\ arg[s] # NoField
    /\ Advance(s, IF got[s] = Absent THEN "created" ELSE "updated")
    /\ got' = [got EXCEPT ![s] = Absent]
    /\ Return(s)
    /\ UNCHANGED writes

SyncCount(s) ==
    /\ pc[s] = "ret" /\ arg[s] # NoField
    /\ Advance(s, IF val[s] = Absent THEN "failed"
                  ELSE IF got[s] = Absent THEN "created" ELSE "updated")
    /\ got' = [got EXCEPT ![s] = Absent]
    /\ Return(s)
    /\ UNCHANGED writes

\* grpcmonitoring.Service.Check: the status of a finished probe.
Check(c) ==
    /\ pc[c] = "idle" /\ writes < MaxWrites
    /\ writes' = writes + 1
    /\ \E i \in Id, st \in Statuses : Update(c, i, [meta |-> Empty, status |-> st])
    /\ UNCHANGED <<next, counts, got>>

\* A user creates, reads or patches a server.
UserCalls(a) == Client(a) /\ UNCHANGED <<next, counts, got>>

CallReturns(p) == Return(p) /\ UNCHANGED <<writes, next, counts, got>>

Background ==
    \/ \E p \in Proc : StoreStep(p)
    \/ \E i \in Id : Expire(i)

InventoryNext ==
    \/ \E s \in Syncer : SkipMalformed(s) \/ SyncGet(s) \/ SyncWrite(s) \/ SyncCount(s)
    \/ \E c \in Checker : Check(c)
    \/ \E a \in Caller : UserCalls(a)
    \/ \E p \in Checker \cup Caller : CallReturns(p)
    \/ Background /\ UNCHANGED <<writes, next, counts, got>>

InventorySpec == InventoryInit /\ [][InventoryNext]_inventoryVars

\* Calls return, and Redis drops an entry when its TTL has passed.
InventoryFairSpec ==
    /\ InventorySpec
    /\ \A p \in Proc : WF_inventoryVars(StoreStep(p) /\ UNCHANGED <<writes, next, counts, got>>)
    /\ \A i \in Id : WF_inventoryVars(Expire(i) /\ UNCHANGED <<writes, next, counts, got>>)
-----------------------------------------------------------------------------
SyncUpdates(s, i) == pc[s] = "update" /\ id[s] = i /\ pc'[s] # "update" /\ row'[i] # row[i]

\* As README.md says: a sync leaves the monitoring health state alone.
SyncPreservesHealth ==
    [][\A s \in Syncer, i \in Id :
          SyncUpdates(s, i) => row'[i].status = row[i].status]_inventoryVars

\* What the code does give: a sync that read the current row leaves the health
\* state alone.  Health is lost only to a row that was stale when it was written
\* back: changed since the read, or read from a stale cache entry.
FreshSyncPreservesHealth ==
    [][\A s \in Syncer, i \in Id :
          SyncUpdates(s, i) /\ got[s].version = row[i].version
              => row'[i].status = row[i].status]_inventoryVars

\* The creations that the syncs have reported, one by one.
ReportedBy(s) == {s} \X (1 .. counts[s].created)
Reported == UNION {ReportedBy(s) : s \in Syncer}

Existing == {i \in Id : row[i] # Absent}

\* The SyncResult reports what happened, also when two syncs race to register the
\* same server and replies are lost: each resource is counted once, and every
\* creation that is reported is of a server of its own.
CountsAreTruthful ==
    /\ \A s \in Syncer :
          counts[s].created + counts[s].updated + counts[s].failed = next[s] - 1
    /\ ExistsInjection(Reported, Existing)
=============================================================================
