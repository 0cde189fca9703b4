----------------------------- MODULE ServerStore -----------------------------
(***************************************************************************)
(* The server inventory: internal/cache ServerStore (Redis, cache aside)   *)
(* over internal/database ServerStore (Postgres).  Every call is two or    *)
(* three round trips and takes no lock, so calls of the API, the           *)
(* monitoring service and provider-sync interleave between them.           *)
(*                                                                         *)
(* A row is reduced to the fields that differ in who writes them: meta     *)
(* (name and address, from users and the provider) and status (from health *)
(* checks).  version counts the writes of a row, as updated_at orders them.*)
(***************************************************************************)
EXTENDS Naturals

CONSTANTS Proc,      \* concurrent calls
          Id, Meta, Status,
          Empty,     \* an empty field: Update keeps the old value
          Unknown,   \* the status of a row created without one
          Absent,    \* no row, no entry, or the error a call returned
          MaxWrites  \* bound of the model: Create and Update calls issued

ASSUME FieldAssumption == Empty \notin Meta \cup Status /\ Unknown \in Status
ASSUME BoundAssumption == MaxWrites \in Nat

VARIABLES row,     \* row[i]: the Postgres row, or Absent
          cache,   \* cache[i]: the Redis entry, or Absent
          commits, \* commits[i]: every value the row has had
          pc, id, arg, val,  \* per process: step, arguments and result of its call
          writes,  \* Create and Update calls issued
          racy     \* racy[i]: since the entry was last empty, calls on i have
                   \* overlapped or a write missed the cache

storeVars == <<row, cache, commits, pc, id, arg, val, racy>>
vars == <<storeVars, writes>>

Field == [meta : Meta \cup {Empty}, status : Status \cup {Empty}]
Row == [meta : Meta \cup {Empty}, status : Status, version : Nat]

ASSUME AbsentAssumption == Absent \notin Row

PC == {"idle", "insert", "update", "lookup", "select", "write", "ret"}

TypeOK ==
    /\ row \in [Id -> Row \cup {Absent}]
    /\ cache \in [Id -> Row \cup {Absent}]
    /\ commits \in [Id -> SUBSET Row]
    /\ pc \in [Proc -> PC]
    /\ id \in [Proc -> Id]
    /\ arg \in [Proc -> Field]
    /\ val \in [Proc -> Row \cup {Absent}]
    /\ writes \in 0 .. MaxWrites
    /\ racy \in [Id -> BOOLEAN]

NoField == [meta |-> Empty, status |-> Empty]

StoreInit ==
    /\ row = [i \in Id |-> Absent]
    /\ cache = [i \in Id |-> Absent]
    /\ commits = [i \in Id |-> {}]
    /\ pc = [p \in Proc |-> "idle"]
    /\ id \in [Proc -> Id]
    /\ arg = [p \in Proc |-> NoField]
    /\ val = [p \in Proc |-> Absent]
    /\ racy = [i \in Id |-> FALSE]

Init == StoreInit /\ writes = 0

Active(i) == {p \in Proc : pc[p] \notin {"idle", "ret"} /\ id[p] = i}
-----------------------------------------------------------------------------
Call(p, step, i, v) ==
    /\ pc' = [pc EXCEPT ![p] = step]
    /\ id' = [id EXCEPT ![p] = i]
    /\ arg' = [arg EXCEPT ![p] = v]
    /\ racy' = [racy EXCEPT ![i] = @ \/ Active(i) # {}]
    /\ UNCHANGED <<row, cache, commits, val>>

Create(p, i, v) == Call(p, "insert", i, v)
Get(p, i) == Call(p, "lookup", i, NoField)
Update(p, i, v) == Call(p, "update", i, v)

Goto(p, step, v) ==
    /\ pc' = [pc EXCEPT ![p] = step]
    /\ val' = [val EXCEPT ![p] = v]
    /\ UNCHANGED <<id, arg>>

Error(p) == Goto(p, "ret", Absent)

\* One statement commits r; its reply arrives, or is lost with the connection
\* and the call returns an error without touching the cache.
Commit(p, r) ==
    /\ row' = [row EXCEPT ![id[p]] = r]
    /\ commits' = [commits EXCEPT ![id[p]] = @ \cup {r}]
    /\ \/ Goto(p, "write", r) /\ UNCHANGED racy
       \/ Error(p) /\ racy' = [racy EXCEPT ![id[p]] = TRUE]

\* No row is written: a conflict, a missing row, or Postgres or the request
\* context failed before the statement.
DbError(p) ==
    /\ pc[p] \in {"insert", "update", "select"}
    /\ Error(p)
    /\ UNCHANGED <<row, cache, commits, racy>>

\* INSERT: the primary key admits one row per id.
Insert(p) ==
    /\ pc[p] = "insert"
    /\ row[id[p]] = Absent
    /\ Commit(p, [meta    |-> arg[p].meta,
                  status  |-> IF arg[p].status = Empty THEN Unknown ELSE arg[p].status,
                  version |-> 1])
    /\ UNCHANGED cache

Coalesce(new, old) == IF new = Empty THEN old ELSE new

\* Mutant of UpdateRow: the call returns without refreshing the cache.
UpdateRow_NoRefresh(p) ==
    /\ pc[p] = "update"
    /\ row[id[p]] # Absent
    /\ LET old == row[id[p]]
           new == [meta    |-> Coalesce(arg[p].meta, old.meta),
                   status  |-> Coalesce(arg[p].status, old.status),
                   version |-> old.version + 1]
       IN  /\ row' = [row EXCEPT ![id[p]] = new]
           /\ commits' = [commits EXCEPT ![id[p]] = @ \cup {new}]
           /\ Goto(p, "ret", new)
    /\ UNCHANGED <<cache, racy>>

\* UPDATE .. COALESCE(NULLIF(..)) RETURNING, one statement.
UpdateRow(p) ==
    /\ pc[p] = "update"
    /\ row[id[p]] # Absent
    /\ LET old == row[id[p]]
       IN  Commit(p, [meta    |-> Coalesce(arg[p].meta, old.meta),
                      status  |-> Coalesce(arg[p].status, old.status),
                      version |-> old.version + 1])
    /\ UNCHANGED cache

\* Redis GET: any failure counts as a miss.
Lookup(p) ==
    /\ pc[p] = "lookup"
    /\ \/ cache[id[p]] # Absent /\ Goto(p, "ret", cache[id[p]])
       \/ Goto(p, "select", Absent)
    /\ UNCHANGED <<row, cache, commits, racy>>

Select(p) ==
    /\ pc[p] = "select"
    /\ Goto(p, IF row[id[p]] = Absent THEN "ret" ELSE "write", row[id[p]])
    /\ UNCHANGED <<row, cache, commits, racy>>

\* Mutant of CacheWrite: the metadata of the request is cached, not the row's.
CacheWrite_Request(p) ==
    /\ pc[p] = "write"
    /\ cache' = [cache EXCEPT ![id[p]] = [val[p] EXCEPT !.meta = arg[p].meta]]
    /\ Goto(p, "ret", val[p])
    /\ UNCHANGED <<row, commits, racy>>

\* Redis SET with the TTL, after a write or to fill a miss.
CacheWrite(p) ==
    /\ pc[p] = "write"
    /\ cache' = [cache EXCEPT ![id[p]] = val[p]]
    /\ Goto(p, "ret", val[p])
    /\ UNCHANGED <<row, commits, racy>>

\* A failed SET is only logged: the entry, if any, stays as it was.
CacheWriteFails(p) ==
    /\ pc[p] = "write"
    /\ Goto(p, "ret", val[p])
    /\ racy' = [racy EXCEPT ![id[p]] = TRUE]
    /\ UNCHANGED <<row, cache, commits>>

\* Mutant of Expire: a TTL of zero, with which Redis keeps the entry.
Expire_Never(i) == FALSE

\* The TTL of a Redis entry passes.
Expire(i) ==
    /\ cache[i] # Absent
    /\ cache' = [cache EXCEPT ![i] = Absent]
    /\ racy' = [racy EXCEPT ![i] = Active(i) # {}]
    /\ UNCHANGED <<row, commits, pc, id, arg, val>>

StoreStep(p) ==
    \/ Insert(p) \/ UpdateRow(p) \/ Lookup(p) \/ Select(p)
    \/ CacheWrite(p) \/ CacheWriteFails(p) \/ DbError(p)

\* The caller has its result; the variables of the call are gone.
Return(p) ==
    /\ pc[p] = "ret"
    /\ pc' = [pc EXCEPT ![p] = "idle"]
    /\ arg' = [arg EXCEPT ![p] = NoField]
    /\ val' = [val EXCEPT ![p] = Absent]
    /\ UNCHANGED <<row, cache, commits, id, racy>>
-----------------------------------------------------------------------------
\* The routes of cmd/api that create, read and patch servers.
Client(p) ==
    /\ pc[p] = "idle"
    /\ \E i \in Id :
          \/ Get(p, i) /\ UNCHANGED writes
          \/ /\ writes < MaxWrites
             /\ writes' = writes + 1
             /\ \E v \in Field : Create(p, i, v) \/ Update(p, i, v)

Next ==
    \/ \E p \in Proc : Client(p)
    \/ \E p \in Proc : (StoreStep(p) \/ Return(p)) /\ UNCHANGED writes
    \/ \E i \in Id : Expire(i) /\ UNCHANGED writes

Spec == Init /\ [][Next]_vars
-----------------------------------------------------------------------------
Fresh(i) == cache[i] \in {Absent, row[i]}

\* What the cache serves and what a call returns is a value the row has really
\* had: never a patch as it was sent, a mix of two rows, or a rolled-back write.
ServesCommittedRows ==
    /\ \A i \in Id : cache[i] # Absent => cache[i] \in commits[i]
    /\ \A p \in Proc : pc[p] = "ret" /\ val[p] # Absent => val[p] \in commits[id[p]]

\* Without overlapping calls and missed cache writes the cache is transparent:
\* between calls the entry is the current row.  Staleness needs a race.
CoherentUnlessRaced ==
    \A i \in Id : ~racy[i] /\ Active(i) = {} => Fresh(i)

\* Staleness does not outlive the TTL: when no more writes are sent, the cache
\* ends up agreeing with the database for good, whatever raced or failed before.
EventuallyFresh == <>[](\A i \in Id : Fresh(i))
=============================================================================
