----------------------------- MODULE RateLimiter -----------------------------
(***************************************************************************)
(* internal/ratelimit Manager: one token bucket per client, created on     *)
(* demand and dropped by Cleanup when the client has been idle for ttl.    *)
(* The middleware fetches the bucket under the manager's mutex and takes   *)
(* a token from it afterwards, so Cleanup can drop the bucket in between.  *)
(* A dropped bucket is replaced by a full one.                             *)
(*                                                                         *)
(* Buckets are numbered per client: a request keeps the number it fetched. *)
(* The bucket itself (golang.org/x/time/rate) is external: it refills by   *)
(* Rate tokens a tick up to Burst.                                         *)
(***************************************************************************)
EXTENDS Naturals, FiniteSets

CONSTANTS Client,
          Slot,          \* requests in flight: a place is used again and again
          Rate, Burst,   \* requestsPerSecond (here per tick) and burst
          Ttl,           \* idle time after which Cleanup drops a bucket
          Stall,         \* ticks a request may spend between fetch and Allow
          Buckets        \* bound of the model: buckets created per client

ASSUME BucketAssumption == Rate \in Nat \ {0} /\ Burst \in Nat \ {0} /\ Buckets \in Nat \ {0}
\* A handler does not sleep for ten minutes between two statements.
ASSUME StallAssumption == Ttl \in Nat /\ Stall \in Nat /\ Stall < Ttl
\* main.go: 25 tokens a second, 50 at most, 10 minutes.  After the last use that a
\* request may have made of it, a bucket fills before it is dropped.
ASSUME TtlAssumption == Rate * (Ttl + 1 - Stall) >= Burst

VARIABLES visitor, \* visitor[k]: number of the bucket of client k, or 0
          idle,    \* idle[k]: ticks since lastSeen, at most Ttl + 1
          made,    \* made[k]: buckets created for k
          tokens,  \* tokens[k][n]: tokens in bucket n of k
          stage, client, ptr, wait, \* per request: step, client, bucket, ticks since fetch
          ideal,   \* ideal[k]: tokens of a bucket of k that is never dropped
          verdict  \* verdict[r]: <<what Allow said, what the ideal bucket says>>

limiterVars == <<visitor, idle, made, tokens, stage, client, ptr, wait, ideal, verdict>>

NoVerdict == <<>>

LimiterTypeOK ==
    /\ visitor \in [Client -> 0 .. Buckets]
    /\ idle \in [Client -> 0 .. Ttl + 1]
    /\ made \in [Client -> 0 .. Buckets]
    /\ tokens \in [Client -> [1 .. Buckets -> 0 .. Burst]]
    /\ stage \in [Slot -> {"idle", "fetched"}]
    /\ client \in [Slot -> Client]
    /\ ptr \in [Slot -> 0 .. Buckets]
    /\ wait \in [Slot -> 0 .. Stall]
    /\ ideal \in [Client -> 0 .. Burst]
    /\ verdict \in [Slot -> {NoVerdict} \cup (BOOLEAN \X BOOLEAN)]

LimiterInit ==
    /\ visitor = [k \in Client |-> 0]
    /\ idle = [k \in Client |-> 0]
    /\ made = [k \in Client |-> 0]
    /\ tokens = [k \in Client |-> [n \in 1 .. Buckets |-> Burst]]
    /\ stage = [r \in Slot |-> "idle"]
    /\ client \in [Slot -> Client]
    /\ ptr = [r \in Slot |-> 0]
    /\ wait = [r \in Slot |-> 0]
    /\ ideal = [k \in Client |-> Burst]
    /\ verdict = [r \in Slot |-> NoVerdict]

\* A request of client k has bucket n.
Fetched(r, k, n) ==
    /\ visitor' = [visitor EXCEPT ![k] = n]
    /\ stage' = [stage EXCEPT ![r] = "fetched"]
    /\ client' = [client EXCEPT ![r] = k]
    /\ ptr' = [ptr EXCEPT ![r] = n]
    /\ wait' = [wait EXCEPT ![r] = 0]
    /\ verdict' = [verdict EXCEPT ![r] = NoVerdict]
    /\ UNCHANGED <<tokens, ideal>>

\* Mutant of FetchKnown: lastSeen is set only when the bucket is created.
FetchKnown_KeepsLastSeen(r, k) ==
    /\ stage[r] = "idle"
    /\ visitor[k] # 0
    /\ Fetched(r, k, visitor[k])
    /\ UNCHANGED <<idle, made>>

\* getLimiter of a known client: lastSeen is now.
FetchKnown(r, k) ==
    /\ stage[r] = "idle"
    /\ visitor[k] # 0
    /\ Fetched(r, k, visitor[k])
    /\ idle' = [idle EXCEPT ![k] = 0]
    /\ UNCHANGED made

\* getLimiter of a new client: a full bucket.
FetchNew(r, k) ==
    /\ stage[r] = "idle"
    /\ visitor[k] = 0 /\ made[k] < Buckets
    /\ Fetched(r, k, made[k] + 1)
    /\ idle' = [idle EXCEPT ![k] = 0]
    /\ made' = [made EXCEPT ![k] = @ + 1]

\* Allow takes a token if there is one.
Allow(r) ==
    /\ stage[r] = "fetched"
    /\ LET k == client[r]
           n == ptr[r]
       IN  /\ verdict' = [verdict EXCEPT ![r] = <<tokens[k][n] > 0, ideal[k] > 0>>]
           /\ tokens' = [tokens EXCEPT ![k][n] = IF @ > 0 THEN @ - 1 ELSE 0]
           /\ ideal' = [ideal EXCEPT ![k] = IF @ > 0 THEN @ - 1 ELSE 0]
    /\ stage' = [stage EXCEPT ![r] = "idle"]
    /\ UNCHANGED <<visitor, idle, made, client, ptr, wait>>

Cleanup ==
    /\ visitor' = [k \in Client |-> IF idle[k] > Ttl THEN 0 ELSE visitor[k]]
    /\ UNCHANGED <<idle, made, tokens, stage, client, ptr, wait, ideal, verdict>>

Upto(n, max) == IF n > max THEN max ELSE n

TimePasses ==
    /\ \A r \in Slot : stage[r] = "fetched" => wait[r] < Stall
    /\ wait' = [r \in Slot |-> IF stage[r] = "fetched" THEN wait[r] + 1 ELSE wait[r]]
    /\ idle' = [k \in Client |-> Upto(idle[k] + 1, Ttl + 1)]
    /\ tokens' = [k \in Client |-> [n \in 1 .. Buckets |-> Upto(tokens[k][n] + Rate, Burst)]]
    /\ ideal' = [k \in Client |-> Upto(ideal[k] + Rate, Burst)]
    /\ UNCHANGED <<visitor, made, stage, client, ptr, verdict>>

LimiterNext ==
    \/ \E r \in Slot, k \in Client : FetchKnown(r, k) \/ FetchNew(r, k)
    \/ \E r \in Slot : Allow(r)
    \/ Cleanup
    \/ TimePasses

LimiterSpec == LimiterInit /\ [][LimiterNext]_limiterVars
-----------------------------------------------------------------------------
\* Dropping buckets is invisible: every request is admitted or refused exactly
\* as by a bucket that lives for ever.  It rests on ttl being long enough to fill
\* a bucket and on lastSeen being renewed by every request.
EvictionIsInvisible ==
    \A r \in Slot : verdict[r] # NoVerdict => verdict[r][1] = verdict[r][2]
=============================================================================
