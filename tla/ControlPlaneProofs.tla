-------------------------- MODULE ControlPlaneProofs --------------------------
(***************************************************************************)
(* Theorems about three parts of the control plane that share no state:    *)
(* the worker pool of the health checker, the rate limiter, and the check  *)
(* route with the monitoring service behind it.                            *)
(***************************************************************************)
EXTENDS WorkerPool, RateLimiter, CheckRoute, Integers, TLAPS

-----------------------------------------------------------------------------
(* WorkerPool, for every number of targets and workers.                    *)

Checking(w, t) == worker[w] = "check" /\ job[w] = t

\* A target that was handed out is in one place: with one worker, in the result
\* channel, or in the answer.
WithAWorker(t) ==
    /\ out[t] = 0 /\ rs[t] = 0
    /\ \E w \in Worker : Checking(w, t)
    /\ \A v, w \in Worker : Checking(v, t) /\ Checking(w, t) => v = w

NotWithAWorker(t) == \A w \in Worker : ~Checking(w, t)

PlaceOK ==
    \A t \in Target :
        /\ t >= next => out[t] = 0 /\ rs[t] = 0 /\ NotWithAWorker(t)
        /\ t < next => \/ WithAWorker(t)
                       \/ out[t] = 1 /\ rs[t] = 0 /\ NotWithAWorker(t)
                       \/ out[t] = 0 /\ rs[t] = 1 /\ NotWithAWorker(t)

\* The channels close in order: jobs after the last target, the results after
\* the last worker, and the answer is complete after that.  No worker leaves before
\* jobs is closed.
OrderOK ==
    /\ jobsOpen => \A w \in Worker : worker[w] # "done"
    /\ jobsOpen <=> feeder = "feed"
    /\ ~jobsOpen => next > Targets
    /\ outOpen <=> feeder # "done"
    /\ feeder = "done" => \A w \in Worker : worker[w] = "done"
    /\ returned => ~outOpen /\ \A t \in Target : out[t] = 0
    /\ \A w \in Worker : worker[w] = "check" => job[w] \in Target

PoolInv == PoolTypeOK /\ PlaceOK /\ OrderOK

(* Every state satisfies the inductive invariant.                              *)
THEOREM PoolInvariant == PoolSpec => []PoolInv
<1> USE TargetsAssumption, WorkersAssumption
        DEF PoolInv, PoolTypeOK, Target
<1>1. PoolInit => PoolInv
  <2>1. PoolInit => PoolTypeOK
    <3>1. PoolInit => jobsOpen \in BOOLEAN /\ outOpen \in BOOLEAN /\ returned \in BOOLEAN
      BY DEF PoolInit
    <3>2. PoolInit => next \in 1 .. Targets + 1 /\ feeder \in {"feed", "wait", "done"}
      BY DEF PoolInit
    <3>3. PoolInit => /\ worker \in [Worker -> {"range", "check", "done"}]
                  /\ job \in [Worker -> 0 .. Targets]
      BY DEF PoolInit
    <3>4. PoolInit => out \in [Target -> Nat] /\ rs \in [Target -> Nat]
      BY DEF PoolInit
    <3>5. QED
      BY <3>1, <3>2, <3>3, <3>4
  <2>2. PoolInit => OrderOK
    BY DEF PoolInit, OrderOK
  <2>3. PoolInit => PlaceOK
    BY DEF PoolInit, PlaceOK, NotWithAWorker, Checking
  <2>4. QED
    BY <2>1, <2>2, <2>3
<1>2. PoolInv /\ [PoolNext]_poolVars => PoolInv'
  <2> SUFFICES ASSUME PoolInv, [PoolNext]_poolVars PROVE PoolInv'
    OBVIOUS
  <2>1. ASSUME NEW w \in Worker, Feed(w) PROVE PoolInv'
    <3>1. PoolTypeOK' /\ OrderOK'
      BY <2>1 DEF Feed, OrderOK
    <3>2. PlaceOK'
      BY <2>1 DEF Feed, PlaceOK, WithAWorker, NotWithAWorker, Checking
    <3>3. QED
      BY <3>1, <3>2
  <2>2. ASSUME NEW w \in Worker, Send(w) PROVE PoolInv'
    <3>1. PoolTypeOK' /\ OrderOK'
      BY <2>2 DEF Send, OrderOK
    <3>2. PlaceOK'
      BY <2>2 DEF Send, PlaceOK, OrderOK, WithAWorker, NotWithAWorker, Checking
    <3>3. QED
      BY <3>1, <3>2
  <2>3. ASSUME NEW w \in Worker, Stop(w) PROVE PoolInv'
    BY <2>3 DEF Stop, OrderOK, PlaceOK, WithAWorker, NotWithAWorker, Checking
  <2>4. ASSUME NEW t \in Target, Receive(t) PROVE PoolInv'
    <3>1. PoolTypeOK' /\ OrderOK'
      BY <2>4 DEF Receive, OrderOK
    <3>2. PlaceOK'
      <4>1. t < next /\ out[t] = 1 /\ rs[t] = 0 /\ NotWithAWorker(t)
        BY <2>4 DEF Receive, PlaceOK, WithAWorker
      <4>2. out' = [out EXCEPT ![t] = 0] /\ rs' = [rs EXCEPT ![t] = 1]
        BY <2>4, <4>1 DEF Receive
      <4>3. \A u \in Target, w \in Worker : Checking(w, u)' <=> Checking(w, u)
        BY <2>4 DEF Receive, Checking
      <4>4. ASSUME NEW u \in Target, u # t
            PROVE  out'[u] = out[u] /\ rs'[u] = rs[u]
        BY <4>2, <4>4
      <4>5. ASSUME NEW u \in Target
            PROVE  /\ (u # t /\ WithAWorker(u)) => WithAWorker(u)'
                   /\ NotWithAWorker(u) => NotWithAWorker(u)'
        BY <4>3, <4>4 DEF WithAWorker, NotWithAWorker
      <4>6. next' = next /\ out'[t] = 0 /\ rs'[t] = 1
        BY <2>4, <4>2 DEF Receive
      <4>7. QED
        <5>1. ASSUME NEW u \in Target, u # t
              PROVE  /\ u >= next' => out'[u] = 0 /\ rs'[u] = 0 /\ NotWithAWorker(u)'
                     /\ u < next' => \/ WithAWorker(u)'
                                     \/ out'[u] = 1 /\ rs'[u] = 0 /\ NotWithAWorker(u)'
                                     \/ out'[u] = 0 /\ rs'[u] = 1 /\ NotWithAWorker(u)'
          BY <5>1, <4>4, <4>5, <4>6 DEF PlaceOK
        <5>2. t < next' /\ NotWithAWorker(t)'
          BY <4>1, <4>5, <4>6
        <5>3. QED
          BY <5>1, <5>2, <4>6 DEF PlaceOK
    <3>3. QED
      BY <3>1, <3>2
  <2>5. CASE CloseJobs
    <3>1. PoolTypeOK'
      BY <2>5 DEF CloseJobs
    <3>2. OrderOK'
      BY <2>5 DEF CloseJobs, OrderOK
    <3>3. PlaceOK'
      BY <2>5 DEF CloseJobs, PlaceOK, WithAWorker, NotWithAWorker, Checking
    <3>4. QED
      BY <3>1, <3>2, <3>3
  <2>6. CASE CloseOut
    BY <2>6 DEF CloseOut, OrderOK, PlaceOK, WithAWorker, NotWithAWorker, Checking
  <2>7. CASE Return
    BY <2>7 DEF Return, OrderOK, PlaceOK, WithAWorker, NotWithAWorker, Checking
  <2>8. CASE UNCHANGED poolVars
    BY <2>8 DEF poolVars, OrderOK, PlaceOK, WithAWorker, NotWithAWorker, Checking
  <2>9. QED
    BY <2>1, <2>2, <2>3, <2>4, <2>5, <2>6, <2>7, <2>8 DEF PoolNext
<1>3. QED
  BY <1>1, <1>2, PTL DEF PoolSpec

(* CheckAll answers with exactly one result per target.                        *)
THEOREM OneResult == PoolSpec => []OneResultEach
<1>1. PoolInv => OneResultEach
  BY TargetsAssumption
     DEF PoolInv, PoolTypeOK, OrderOK, PlaceOK, WithAWorker, Checking, OneResultEach, Target
<1>2. QED
  BY <1>1, PoolInvariant, PTL

(* No worker ever sends on the closed result channel.                          *)
THEOREM NoSend == PoolSpec => []NoSendOnClosed
<1>1. PoolInv => NoSendOnClosed
  BY DEF PoolInv, PoolTypeOK, OrderOK, NoSendOnClosed
<1>2. QED
  BY <1>1, PoolInvariant, PTL

\* Some goroutine or the caller can take a step: the guards of the actions.
PoolCanGo ==
    \/ \E w \in Worker : \/ feeder = "feed" /\ next <= Targets /\ worker[w] = "range"
                         \/ worker[w] = "check" /\ outOpen
                         \/ worker[w] = "range" /\ ~jobsOpen
    \/ \E t \in Target : ~returned /\ out[t] > 0
    \/ feeder = "feed" /\ next > Targets
    \/ feeder = "wait" /\ \A w \in Worker : worker[w] = "done"
    \/ ~returned /\ ~outOpen /\ \A t \in Target : out[t] = 0

PoolIsOver == returned /\ feeder = "done" /\ \A w \in Worker : worker[w] = "done"
PoolGoesOn == PoolCanGo \/ PoolIsOver

(* CheckAll, its feeder and its workers never all wait for one another: as     *)
(* long as it has not returned, or a goroutine of it is left, somebody can go  *)
(* on, whatever the number of targets and of workers.  (That CheckAll then     *)
(* returns is Returns, which the run of WorkerPool checks.)                    *)
THEOREM PoolNeverStuck == PoolSpec => []PoolGoesOn
<1>1. PoolInv => PoolGoesOn
  <2> SUFFICES ASSUME PoolInv, ~PoolIsOver PROVE PoolCanGo
    BY DEF PoolGoesOn
  <2>1. 1 \in Worker
    BY WorkersAssumption DEF Worker
  <2>2. /\ feeder \in {"feed", "wait", "done"} /\ returned \in BOOLEAN
        /\ \A w \in Worker : worker[w] \in {"range", "check", "done"}
        /\ \A t \in Target : out[t] \in Nat
        /\ next \in Nat
    BY TargetsAssumption DEF PoolInv, PoolTypeOK
  <2>3. CASE feeder = "feed"
    <3>1. jobsOpen /\ outOpen /\ worker[1] \in {"range", "check"}
      BY <2>1, <2>2, <2>3 DEF PoolInv, OrderOK
    <3>2. CASE next > Targets
      BY <2>3, <3>2 DEF PoolCanGo
    <3>3. CASE next <= Targets
      BY <2>1, <2>3, <3>1, <3>3 DEF PoolCanGo
    <3>4. QED
      BY <2>2, <3>2, <3>3, TargetsAssumption
  <2>4. CASE feeder = "wait"
    <3>1. ~jobsOpen /\ outOpen
      BY <2>4 DEF PoolInv, OrderOK
    <3>2. QED
      BY <2>2, <2>4, <3>1 DEF PoolCanGo
  <2>5. CASE feeder = "done"
    <3>1. ~outOpen /\ \A w \in Worker : worker[w] = "done"
      BY <2>5 DEF PoolInv, OrderOK
    <3>2. ~returned
      BY <2>5, <3>1 DEF PoolIsOver
    <3>3. CASE \E t \in Target : out[t] > 0
      BY <3>2, <3>3 DEF PoolCanGo
    <3>4. CASE \A t \in Target : out[t] = 0
      BY <3>1, <3>2, <3>4 DEF PoolCanGo
    <3>5. QED
      BY <2>2, <3>3, <3>4
  <2>6. QED
    BY <2>2, <2>3, <2>4, <2>5
<1>2. QED
  BY <1>1, PoolInvariant, PTL
-----------------------------------------------------------------------------
(* RateLimiter, for every number of clients and requests.                  *)

\* The bucket of a client has what one that is never dropped would have; without a
\* bucket, the next one is full, and so would be the other.
BucketOK ==
    \A k \in Client :
        /\ visitor[k] <= made[k]
        /\ visitor[k] # 0 => tokens[k][visitor[k]] = ideal[k]
        /\ visitor[k] = 0 => ideal[k] = Burst
        /\ \A n \in 1 .. Buckets : n > made[k] => tokens[k][n] = Burst

\* Whoever has fetched a bucket has the current one, and did so no later than the
\* client was last seen.
RequestOK ==
    \A r \in Slot : stage[r] = "fetched" =>
        /\ ptr[r] = visitor[client[r]] /\ ptr[r] # 0
        /\ idle[client[r]] <= wait[r]

\* From Stall ticks after the last fetch nobody takes a token any more.
FillsWhenIdle ==
    \A k \in Client :
        idle[k] > Stall => ideal[k] = Burst \/ ideal[k] >= Rate * (idle[k] - Stall)

LimiterInv == LimiterTypeOK /\ BucketOK /\ RequestOK /\ FillsWhenIdle /\ EvictionIsInvisible

\* Products are beyond the solver's linear arithmetic: the two facts that are needed.
LEMMA RateTimes == \A n \in Nat : Rate * (n + 1) = Rate * n + Rate /\ Rate * n \in Nat
  BY BucketAssumption

\* Counting up stops at the bound.
LEMMA UptoType == \A n, m \in Nat : Upto(n, m) \in 0 .. m
  BY DEF Upto

\* After the ttl the bucket is full, and no request has it.
LEMMA IdleIsFull ==
    ASSUME LimiterInv, NEW k \in Client, idle[k] > Ttl
    PROVE  /\ ideal[k] = Burst
           /\ \A r \in Slot : stage[r] = "fetched" => client[r] # k
<1>1. /\ idle[k] \in 0 .. Ttl + 1 /\ ideal[k] \in 0 .. Burst
      /\ \A r \in Slot : wait[r] \in 0 .. Stall
  BY DEF LimiterInv, LimiterTypeOK
<1>2. idle[k] = Ttl + 1 /\ idle[k] > Stall
  BY <1>1, StallAssumption
<1>3. ideal[k] = Burst
  <2>1. ideal[k] = Burst \/ ideal[k] >= Rate * (Ttl + 1 - Stall)
    <3>1. ideal[k] = Burst \/ ideal[k] >= Rate * (idle[k] - Stall)
      BY <1>2 DEF LimiterInv, FillsWhenIdle
    <3>2. idle[k] - Stall = Ttl + 1 - Stall
      BY <1>1, <1>2, StallAssumption
    <3>3. QED
      BY <3>1, <3>2, Zenon
  <2>2. Rate * (Ttl + 1 - Stall) \in Int
    BY BucketAssumption, StallAssumption
  <2>3. QED
    BY <1>1, <2>1, <2>2, TtlAssumption, BucketAssumption
<1>4. ASSUME NEW r \in Slot, stage[r] = "fetched", client[r] = k PROVE FALSE
  BY <1>1, <1>2, <1>4, StallAssumption DEF LimiterInv, RequestOK
<1>5. QED
  BY <1>3, <1>4

(* A request gets the bucket of its client, or a new and full one.             *)
LEMMA FetchKeeps ==
  ASSUME LimiterInv, NEW r \in Slot, NEW k \in Client, FetchKnown(r, k) \/ FetchNew(r, k)
  PROVE  LimiterInv'
<1> DEFINE n == visitor'[k]
<1>0. /\ visitor[k] \in 0 .. Buckets /\ made[k] \in 0 .. Buckets
      /\ visitor \in [Client -> 0 .. Buckets] /\ made \in [Client -> 0 .. Buckets]
  BY DEF LimiterInv, LimiterTypeOK
<1>1. /\ n \in 1 .. Buckets /\ n <= made'[k] /\ made'[k] \in 0 .. Buckets
      /\ made[k] <= made'[k] /\ (visitor[k] = n \/ (visitor[k] = 0 /\ n > made[k]))
  <2>1. CASE FetchKnown(r, k)
    <3>1. visitor[k] # 0 /\ visitor[k] <= made[k] /\ n = visitor[k] /\ made'[k] = made[k]
      BY <1>0, <2>1 DEF FetchKnown, Fetched, LimiterInv, BucketOK
    <3> HIDE DEF n
    <3>2. QED
      BY <1>0, <3>1, BucketAssumption
  <2>2. CASE FetchNew(r, k)
    <3>1. /\ visitor[k] = 0 /\ made[k] < Buckets
          /\ n = made[k] + 1 /\ made'[k] = made[k] + 1
      BY <1>0, <2>2 DEF FetchNew, Fetched
    <3> HIDE DEF n
    <3>2. QED
      BY <1>0, <3>1, BucketAssumption
  <2>3. QED
    BY <2>1, <2>2
<1>2. /\ visitor' = [visitor EXCEPT ![k] = n] /\ made' = [made EXCEPT ![k] = made'[k]]
      /\ idle' = [idle EXCEPT ![k] = 0] /\ idle \in [Client -> 0 .. Ttl + 1]
      /\ tokens' = tokens /\ ideal' = ideal
  BY <1>0 DEF FetchKnown, FetchNew, Fetched, LimiterInv, LimiterTypeOK
<1>3. /\ stage' = [stage EXCEPT ![r] = "fetched"] /\ client' = [client EXCEPT ![r] = k]
      /\ ptr' = [ptr EXCEPT ![r] = n] /\ wait' = [wait EXCEPT ![r] = 0]
      /\ verdict' = [verdict EXCEPT ![r] = NoVerdict]
  BY <1>0 DEF FetchKnown, FetchNew, Fetched
<1>4. tokens[k][n] = ideal[k]
  BY <1>1 DEF LimiterInv, BucketOK
<1> HIDE DEF n
<1>5. /\ visitor'[k] = n /\ idle'[k] = 0
      /\ \A c \in Client \ {k} : visitor'[c] = visitor[c] /\ made'[c] = made[c] /\ idle'[c] = idle[c]
  BY <1>0, <1>2
<1>6. LimiterTypeOK'
  <2>1. visitor' \in [Client -> 0 .. Buckets] /\ made' \in [Client -> 0 .. Buckets]
    BY <1>0, <1>1, <1>2
  <2>2. idle' \in [Client -> 0 .. Ttl + 1]
    BY <1>2, StallAssumption
  <2>3. /\ stage' \in [Slot -> {"idle", "fetched"}] /\ client' \in [Slot -> Client]
        /\ ptr' \in [Slot -> 0 .. Buckets]
    BY <1>1, <1>3 DEF LimiterInv, LimiterTypeOK
  <2>4. wait' \in [Slot -> 0 .. Stall]
    BY <1>3, StallAssumption DEF LimiterInv, LimiterTypeOK
  <2>5. verdict' \in [Slot -> {NoVerdict} \cup (BOOLEAN \X BOOLEAN)]
    BY <1>3, Zenon DEF LimiterInv, LimiterTypeOK
  <2>6. QED
    BY <1>2, <2>1, <2>2, <2>3, <2>4, <2>5 DEF LimiterInv, LimiterTypeOK
<1>7. BucketOK'
  <2> SUFFICES ASSUME NEW c \in Client PROVE BucketOK!(c)'
    BY DEF BucketOK
  <2>1. BucketOK!(c)
    BY DEF LimiterInv, BucketOK
  <2>2. CASE c = k
    <3>1. \A m \in 1 .. Buckets : m > made'[k] => m > made[k]
      BY <1>0, <1>1
    <3>2. QED
      BY <1>1, <1>2, <1>4, <1>5, <2>1, <2>2, <3>1
  <2>3. CASE c # k
    BY <1>2, <1>5, <2>1, <2>3
  <2>4. QED
    BY <2>2, <2>3
<1>8. RequestOK'
  <2> SUFFICES ASSUME NEW q \in Slot, stage'[q] = "fetched" PROVE RequestOK!(q)'
    BY DEF RequestOK
  <2>0. /\ stage \in [Slot -> {"idle", "fetched"}] /\ client \in [Slot -> Client]
        /\ ptr \in [Slot -> 0 .. Buckets] /\ wait \in [Slot -> 0 .. Stall]
    BY DEF LimiterInv, LimiterTypeOK
  <2>1. CASE q = r
    <3>1. client'[q] = k /\ ptr'[q] = n /\ wait'[q] = 0
      BY <1>3, <2>0, <2>1
    <3>2. QED
      BY <1>1, <1>5, <3>1
  <2>2. CASE q # r
    <3>1. /\ client'[q] = client[q] /\ ptr'[q] = ptr[q] /\ wait'[q] = wait[q]
          /\ stage[q] = "fetched" /\ client[q] \in Client /\ wait[q] \in Nat
      BY <1>3, <2>0, <2>2
    <3>2. ptr[q] = visitor[client[q]] /\ ptr[q] # 0 /\ idle[client[q]] <= wait[q]
      BY <3>1 DEF LimiterInv, RequestOK
    <3>3. CASE client[q] = k
      BY <1>1, <1>5, <3>1, <3>2, <3>3
    <3>4. CASE client[q] # k
      BY <1>5, <3>1, <3>2, <3>4
    <3>5. QED
      BY <3>3, <3>4
  <2>3. QED
    BY <2>1, <2>2
<1>9. FillsWhenIdle'
  BY <1>2, <1>5, StallAssumption DEF LimiterInv, FillsWhenIdle
<1>10. EvictionIsInvisible'
  <2>1. \A q \in Slot : verdict'[q] = NoVerdict \/ verdict'[q] = verdict[q]
    BY <1>3 DEF LimiterInv, LimiterTypeOK
  <2>2. QED
    BY <2>1 DEF LimiterInv, EvictionIsInvisible
<1>11. QED
  BY <1>6, <1>7, <1>8, <1>9, <1>10 DEF LimiterInv

(* Every state satisfies the inductive invariant.                             *)
THEOREM LimiterInvariant == LimiterSpec => []LimiterInv
<1>1. LimiterInit => LimiterInv
  BY BucketAssumption, StallAssumption
     DEF LimiterInit, LimiterInv, LimiterTypeOK, BucketOK, RequestOK, FillsWhenIdle,
         EvictionIsInvisible
<1>2. LimiterInv /\ [LimiterNext]_limiterVars => LimiterInv'
  <2> SUFFICES ASSUME LimiterInv, [LimiterNext]_limiterVars PROVE LimiterInv'
    OBVIOUS
  <2> USE BucketAssumption, StallAssumption DEF LimiterInv, LimiterTypeOK
  <2>1. ASSUME NEW r \in Slot, NEW k \in Client, FetchKnown(r, k) \/ FetchNew(r, k)
        PROVE  LimiterInv'
    BY <2>1, FetchKeeps
  <2>3. ASSUME NEW r \in Slot, Allow(r) PROVE LimiterInv'
    <3> DEFINE k == client[r]
               n == ptr[r]
    <3> USE <2>3 DEF Allow
    <3>1. k \in Client /\ n \in 1 .. Buckets /\ n = visitor[k] /\ tokens[k][n] = ideal[k]
      BY DEF RequestOK, BucketOK
    <3>2. /\ tokens'[k][n] = ideal'[k]
          /\ tokens'[k][n] \in 0 .. Burst
          /\ \A m \in 1 .. Buckets : m # n => tokens'[k][m] = tokens[k][m]
          /\ \A c \in Client : c # k => tokens'[c] = tokens[c] /\ ideal'[c] = ideal[c]
      BY <3>1
    <3>3. LimiterTypeOK'
      <4>1. tokens' \in [Client -> [1 .. Buckets -> 0 .. Burst]]
        <5>1. tokens'[k] \in [1 .. Buckets -> 0 .. Burst]
          BY <3>1
        <5>2. QED
          BY <3>1, <5>1
      <4>2. ideal' \in [Client -> 0 .. Burst]
        <5>1. (IF ideal[k] > 0 THEN ideal[k] - 1 ELSE 0) \in 0 .. Burst
          BY <3>1
        <5>2. QED
          BY <3>1, <5>1
      <4>3. verdict' \in [Slot -> {NoVerdict} \cup (BOOLEAN \X BOOLEAN)]
        <5>1. <<tokens[k][n] > 0, ideal[k] > 0>> \in BOOLEAN \X BOOLEAN
          <6>1. (tokens[k][n] > 0) \in BOOLEAN /\ (ideal[k] > 0) \in BOOLEAN
            BY <3>1
          <6>2. QED
            BY <6>1
        <5>2. verdict' = [verdict EXCEPT ![r] = <<tokens[k][n] > 0, ideal[k] > 0>>]
          BY Zenon
        <5>3. verdict \in [Slot -> {NoVerdict} \cup (BOOLEAN \X BOOLEAN)]
          OBVIOUS
        <5> HIDE <2>3 DEF Allow, k, n
        <5>4. QED
          BY ONLY <5>1, <5>2, <5>3, Zenon
      <4>4. stage' \in [Slot -> {"idle", "fetched"}]
        OBVIOUS
      <4>5. QED
        BY <4>1, <4>2, <4>3, <4>4
    <3>4. BucketOK'
      <4> SUFFICES ASSUME NEW c \in Client PROVE BucketOK!(c)'
        BY DEF BucketOK
      <4>1. /\ UNCHANGED <<visitor, made>> /\ BucketOK!(c)
            /\ visitor[c] \in 0 .. Buckets /\ made[c] \in 0 .. Buckets
        BY DEF BucketOK
      <4> HIDE <2>3 DEF Allow, LimiterInv, LimiterTypeOK, k, n
      <4>2. CASE c = k
        BY <3>1, <3>2, <4>1, <4>2
      <4>3. CASE c # k
        BY <3>2, <4>1, <4>3
      <4>4. QED
        BY <4>2, <4>3
    <3>5. RequestOK'
      BY DEF RequestOK
    <3>6. FillsWhenIdle'
      <4> SUFFICES ASSUME NEW c \in Client, idle[c] > Stall
                   PROVE  ideal'[c] = Burst \/ ideal'[c] >= Rate * (idle[c] - Stall)
        BY DEF FillsWhenIdle
      <4>1. c # k
        BY DEF RequestOK
      <4>2. QED
        BY <3>2, <4>1 DEF FillsWhenIdle
    <3>7. EvictionIsInvisible'
      BY <3>1 DEF EvictionIsInvisible, NoVerdict
    <3>8. QED
      BY <3>3, <3>4, <3>5, <3>6, <3>7
  <2>4. CASE Cleanup
    <3> USE <2>4 DEF Cleanup
    <3>1. LimiterTypeOK'
      OBVIOUS
    <3>2. \A k \in Client : \/ visitor'[k] = visitor[k]
                            \/ /\ visitor'[k] = 0 /\ ideal[k] = Burst
                               /\ \A r \in Slot : stage[r] = "fetched" => client[r] # k
      BY IdleIsFull
    <3>3. BucketOK'
      BY <3>2 DEF BucketOK
    <3>4. RequestOK'
      BY <3>2 DEF RequestOK
    <3>5. FillsWhenIdle' /\ EvictionIsInvisible'
      BY DEF FillsWhenIdle, EvictionIsInvisible
    <3>6. QED
      BY <3>1, <3>3, <3>4, <3>5
  <2>5. CASE TimePasses
    <3> USE <2>5 DEF TimePasses
    <3>1. LimiterTypeOK'
      <4>1. tokens' \in [Client -> [1 .. Buckets -> 0 .. Burst]]
        BY DEF Upto
      <4>2. ideal' \in [Client -> 0 .. Burst]
        BY DEF Upto
      <4>3. idle' \in [Client -> 0 .. Ttl + 1]
        BY DEF Upto
      <4>4. wait' \in [Slot -> 0 .. Stall]
        OBVIOUS
      <4>5. QED
        BY <4>1, <4>2, <4>3, <4>4
    <3>2. BucketOK'
      <4> SUFFICES ASSUME NEW c \in Client PROVE BucketOK!(c)'
        BY DEF BucketOK
      <4>1. /\ UNCHANGED <<visitor, made>> /\ ideal'[c] = Upto(ideal[c] + Rate, Burst)
            /\ \A n \in 1 .. Buckets : tokens'[c][n] = Upto(tokens[c][n] + Rate, Burst)
        OBVIOUS
      <4>2. visitor[c] \in 0 .. Buckets /\ BucketOK!(c)
        BY DEF BucketOK
      <4>3. Upto(Burst + Rate, Burst) = Burst
        BY DEF Upto
      <4> HIDE <2>5 DEF TimePasses, LimiterInv, LimiterTypeOK
      <4>4. QED
        BY <4>1, <4>2, <4>3
    <3>3. RequestOK'
      <4>1. /\ UNCHANGED <<stage, client, ptr, visitor>>
            /\ \A c \in Client : idle'[c] = Upto(idle[c] + 1, Ttl + 1)
            /\ \A r \in Slot : stage[r] = "fetched" => wait'[r] = wait[r] + 1
            /\ client \in [Slot -> Client] /\ RequestOK
            /\ wait \in [Slot -> 0 .. Stall] /\ idle \in [Client -> 0 .. Ttl + 1]
        OBVIOUS
      <4> HIDE <2>5 DEF TimePasses, LimiterInv, LimiterTypeOK
      <4>2. QED
        BY <4>1 DEF RequestOK, Upto
    <3>4. FillsWhenIdle'
      <4> SUFFICES ASSUME NEW k \in Client, idle'[k] > Stall
                   PROVE  ideal'[k] = Burst \/ ideal'[k] >= Rate * (idle'[k] - Stall)
        BY DEF FillsWhenIdle
      <4> DEFINE n == idle[k] - Stall
      <4>0. idle[k] \in 0 .. Ttl + 1 /\ ideal[k] \in 0 .. Burst
        OBVIOUS
      <4>1. ideal'[k] = Burst \/ ideal'[k] = ideal[k] + Rate
        BY DEF Upto
      <4>2. idle[k] = Ttl + 1 \/ idle'[k] = idle[k] + 1
        <5>1. idle'[k] = Upto(idle[k] + 1, Ttl + 1)
          OBVIOUS
        <5>2. QED
          BY ONLY <4>0, <5>1, StallAssumption DEF Upto
      <4>3. CASE idle[k] = Ttl + 1
        <5>1. idle[k] > Ttl
          BY ONLY <4>3, StallAssumption
        <5>2. ideal[k] = Burst
          BY <5>1, IdleIsFull
        <5>3. ideal'[k] = Burst
          BY <5>2 DEF Upto
        <5>4. QED
          BY <5>3
      <4>4. CASE idle'[k] = idle[k] + 1 /\ idle[k] > Stall
        <5>1. n \in Nat /\ idle'[k] - Stall = n + 1
          BY <4>4
        <5>2. Rate * (n + 1) = Rate * n + Rate /\ Rate * n \in Nat
          BY <5>1, RateTimes
        <5>3. ideal[k] = Burst \/ ideal[k] >= Rate * n
          BY <4>4 DEF FillsWhenIdle
        <5>4. ideal[k] = Burst => ideal'[k] = Burst
          BY DEF Upto
        <5> HIDE DEF n
        <5>5. ideal[k] >= Rate * n => ideal[k] + Rate >= Rate * (n + 1)
          BY <5>2
        <5>6. QED
          BY <4>1, <5>1, <5>3, <5>4, <5>5
      <4>5. CASE idle'[k] = idle[k] + 1 /\ idle[k] = Stall
        <5>1. Rate * (idle'[k] - Stall) = Rate
          BY <4>5
        <5>2. QED
          BY <4>1, <5>1
      <4>6. QED
        BY <4>2, <4>3, <4>4, <4>5
    <3>5. EvictionIsInvisible'
      BY DEF EvictionIsInvisible
    <3>6. QED
      BY <3>1, <3>2, <3>3, <3>4, <3>5
  <2>6. CASE UNCHANGED limiterVars
    BY <2>6 DEF limiterVars, BucketOK, RequestOK, FillsWhenIdle, EvictionIsInvisible
  <2>7. QED
    BY <2>1, <2>3, <2>4, <2>5, <2>6 DEF LimiterNext
<1>3. QED
  BY <1>1, <1>2, PTL DEF LimiterSpec

(* Dropping the buckets of idle clients changes no verdict, if a bucket refills *)
(* between the last token taken and the end of the ttl.                       *)
THEOREM EvictionIsInvisibleHolds == LimiterSpec => []EvictionIsInvisible
<1>1. LimiterInv => EvictionIsInvisible
  BY DEF LimiterInv
<1>2. QED
  BY <1>1, LimiterInvariant, PTL

-----------------------------------------------------------------------------
(* CheckRoute, for every number of requests, tries, failures and edits.    *)

\* The steps of a request before its outcome is known.
Undecided == {"new", "execute", "try", "wait"}

\* A request that goes on has a try left, and one that succeeded was answered by
\* its last call.  Record and answer follow the outcome.
AnswerOK(r) ==
    /\ pc[r] \in Undecided <=> outcome[r] = "none"
    /\ pc[r] \in Undecided => tries[r] < Attempts
    /\ pc[r] \in {"new", "execute"} \/ outcome[r] \in {"open", "missing"} => tries[r] = 0
    /\ outcome[r] = "ok" => tries[r] < Attempts /\ phase[Current(r)] = "ok"
    /\ pc[r] \notin {"respond", "done"} => audit[r] = <<>>
    /\ Len(audit[r]) <= 1
    /\ audit[r] # <<>> => (audit[r][1] <=> outcome[r] = "ok")
    /\ pc[r] # "done" => answer[r] = 0
    /\ answer[r] = 200 => outcome[r] = "ok"
    /\ pc[r] = "done" /\ outcome[r] = "ok" => answer[r] = 200
    /\ answer[r] \in {404, 503} => outcome[r] \in {"open", "missing"}

\* The try c has not been sent.
Unsent(c) ==
    \/ c[2] > tries[c[1]] + 1
    \/ c[2] = tries[c[1]] + 1 /\ pc[c[1]] # "wait" /\ outcome[c[1]] # "ok"

\* What a call has written, whether or not anybody waits for it.
CallOK(c) ==
    /\ Unsent(c) => phase[c] = "none"
    /\ phase[c] \in {"none", "probe", "record"} => history[c] = <<>>
    /\ phase[c] \in {"update", "ok"} => history[c] = <<up[c]>>
    /\ phase[c] = "error" => history[c] \in {<<>>, <<up[c]>>}
    /\ phase[c] = "ok" => StatusOf(up[c]) \in past

\* The status s was set by a user, or it is the result of a call with its row.
Evidence(s) ==
    \/ s \in {"unknown"} \cup claimed
    \/ \E c \in Call : history[c] = <<up[c]>> /\ s = StatusOf(up[c])

\* Stronger than StatusHasEvidence: a status the server once had may come back by
\* Sync, so all of them need their evidence.
PastOK == status \in past /\ \A s \in past : Evidence(s)

RouteInv ==
    /\ TypeOK
    /\ \A r \in Request : AnswerOK(r)
    /\ \A c \in Call : CallOK(c)
    /\ PastOK

(* The breaker keeps its type.                                                *)
LEMMA BreakerTypes ==
  /\ NewCircuitBreaker \in BreakerType /\ OnSuccess \in BreakerType
  /\ \A b \in BreakerType : Elapse(b) \in BreakerType /\ OnFailure(b) \in BreakerType
  BY ThresholdAssumption, ResetAssumption, CapAssumption
     DEF BreakerType, NewCircuitBreaker, OnSuccess, OnFailure, Elapse

(* What the first row of a sequence is.                                       *)
LEMMA FirstRow ==
  ASSUME NEW b \in BOOLEAN
  PROVE  /\ Append(<<>>, b) = <<b>> /\ <<b>> \in Seq(BOOLEAN) /\ <<b>> # <<>>
         /\ Len(<<b>>) = 1 /\ <<b>>[1] = b /\ ToSet(<<b>>) = {b}
  BY DEF ToSet

(* The members of the sets of names, for the provers.                         *)
LEMMA Names ==
  /\ PcType = {"new", "execute", "try", "wait", "settle", "audit", "respond", "done"}
  /\ OutcomeType = {"none", "ok", "error", "open", "missing"}
  /\ PhaseType = {"none", "probe", "record", "update", "ok", "error"}
  BY DEF PcType, OutcomeType, PhaseType

(* A call is a request and the number of a try.                               *)
LEMMA Calls ==
  /\ \A r \in Request, n \in 1 .. Attempts :
        <<r, n>> \in Call /\ <<r, n>>[1] = r /\ <<r, n>>[2] = n
  /\ \A c \in Call : c[1] \in Request /\ c[2] \in 1 .. Attempts /\ c = <<c[1], c[2]>>
  BY DEF Call

(* Where a request goes and how it ends are typed.                            *)
LEMMA GotoTypes ==
  ASSUME TypeOK, NEW r \in Request
  PROVE  /\ \A s \in PcType : Goto(r, s) =>
              /\ pc' \in [Request -> PcType] /\ pc'[r] = s
              /\ \A q \in Request \ {r} : pc'[q] = pc[q]
         /\ \A s \in PcType, o \in OutcomeType : Ends(r, o, s) =>
              /\ pc' \in [Request -> PcType] /\ pc'[r] = s
              /\ outcome' \in [Request -> OutcomeType] /\ outcome'[r] = o
              /\ \A q \in Request \ {r} : pc'[q] = pc[q] /\ outcome'[q] = outcome[q]
<1>1. /\ pc \in [Request -> PcType] /\ outcome \in [Request -> OutcomeType]
  BY DEF TypeOK
<1>2. QED
  BY <1>1 DEF Goto, Ends

(* A failed try leads to the next one or to an error.                         *)
LEMMA TryFailsTypes ==
  ASSUME TypeOK, NEW r \in Request, tries[r] < Attempts, TryFails(r)
  PROVE  /\ tries' \in [Request -> 0 .. Attempts] /\ tries'[r] = tries[r] + 1
         /\ pc' \in [Request -> PcType] /\ outcome' \in [Request -> OutcomeType]
         /\ \/ pc'[r] = "try" /\ outcome' = outcome /\ tries'[r] < Attempts
            \/ pc'[r] = "settle" /\ outcome'[r] = "error"
         /\ \A q \in Request \ {r} :
               tries'[q] = tries[q] /\ pc'[q] = pc[q] /\ outcome'[q] = outcome[q]
<1>1. tries \in [Request -> 0 .. Attempts] /\ Attempts \in Nat
  BY AttemptsAssumption DEF TypeOK
<1>2. tries' = [tries EXCEPT ![r] = tries[r] + 1]
  BY DEF TryFails
<1>3. /\ tries' \in [Request -> 0 .. Attempts] /\ tries'[r] = tries[r] + 1
      /\ \A q \in Request \ {r} : tries'[q] = tries[q]
  BY <1>1, <1>2
<1>4. CASE tries[r] + 1 < Attempts /\ connected[r]
  <2>1. Goto(r, "try") /\ outcome' = outcome
    BY <1>4 DEF TryFails
  <2>2. outcome' \in [Request -> OutcomeType]
    BY <2>1 DEF TypeOK
  <2>3. QED
    BY <1>3, <1>4, <2>1, <2>2, GotoTypes, Names
<1>5. CASE ~(tries[r] + 1 < Attempts /\ connected[r])
  <2>1. Ends(r, "error", "settle")
    BY <1>5 DEF TryFails
  <2>2. QED
    BY <1>3, <2>1, GotoTypes, Names
<1>6. QED
  BY <1>4, <1>5

(* The model has no more failures than its bound.                             *)
LEMMA MayFailTypes ==
  ASSUME TypeOK, NEW r, MayFail(r)
  PROVE  faults' \in 0 .. Faults
  BY AttemptsAssumption DEF TypeOK, MayFail

-----------------------------------------------------------------------------
(* The steps of a request in the API process.                              *)

(* A step of a request leaves the row of the server and what its calls have   *)
(* written, and changes no other request; only Try touches a call, its own.   *)
LEMMA StepIsLocal ==
  ASSUME TypeOK, NEW q \in Request, Step(q) \/ Disconnect(q)
  PROVE  /\ UNCHANGED <<row, up, history>>
         /\ \/ UNCHANGED phase
            \/ /\ Try(q) /\ phase' = [phase EXCEPT ![Current(q)] = "probe"]
               /\ Goto(q, "wait") /\ UNCHANGED <<outcome, tries>>
         /\ \A r \in Request \ {q} :
               /\ pc'[r] = pc[r] /\ tries'[r] = tries[r] /\ outcome'[r] = outcome[r]
               /\ answer'[r] = answer[r] /\ audit'[r] = audit[r]
<1> USE DEF TypeOK, request, calls, Goto, Ends
<1>1. CASE Lookup(q)
  BY <1>1 DEF Lookup
<1>2. CASE Execute(q)
  BY <1>2 DEF Execute
<1>3. CASE Try(q)
  BY <1>3 DEF Try, TryFails
<1>4. CASE Answered(q)
  BY <1>4 DEF Answered, TryFails
<1>5. CASE Lost(q)
  BY <1>5 DEF Lost, TryFails
<1>6. CASE Settle(q) \/ Audit(q)
  BY <1>6 DEF Settle, Audit
<1>7. CASE Respond(q) \/ Disconnect(q)
  BY <1>7 DEF Respond, Disconnect
<1>8. QED
  BY <1>1, <1>2, <1>3, <1>4, <1>5, <1>6, <1>7 DEF Step

(* Every step of a request keeps the types.                                   *)
LEMMA StepTypes ==
  ASSUME TypeOK, NEW q \in Request, AnswerOK(q), Step(q) \/ Disconnect(q)
  PROVE  TypeOK'
<1>0. /\ outcome \in [Request -> OutcomeType] /\ tries \in [Request -> 0 .. Attempts]
      /\ phase \in [Call -> PhaseType] /\ audit \in [Request -> Seq(BOOLEAN)]
      /\ Attempts \in Nat
  BY AttemptsAssumption DEF TypeOK
<1>1. CASE Lookup(q)
  <2>1. faults' \in 0 .. Faults
    BY <1>1, MayFailTypes DEF Lookup, TypeOK
  <2>2. pc' \in [Request -> PcType] /\ outcome' \in [Request -> OutcomeType]
    BY <1>0, <1>1, GotoTypes, Names DEF Lookup
  <2>3. QED
    BY <1>1, <2>1, <2>2 DEF Lookup, TypeOK, request, row, calls
<1>2. CASE Execute(q)
  <2>1. pc' \in [Request -> PcType] /\ outcome' \in [Request -> OutcomeType]
    BY <1>0, <1>2, GotoTypes, Names DEF Execute
  <2>2. QED
    BY <1>2, <2>1 DEF Execute, TypeOK, request, row, calls
<1>3. CASE Try(q)
  <2>1. faults' \in 0 .. Faults
    BY <1>3, MayFailTypes DEF Try, TypeOK
  <2>2. tries[q] < Attempts
    BY <1>3 DEF Try, AnswerOK, Undecided
  <2>3. phase' \in [Call -> PhaseType]
    BY <1>0, <1>3, Names DEF Try
  <2>4. /\ tries' \in [Request -> 0 .. Attempts]
        /\ pc' \in [Request -> PcType] /\ outcome' \in [Request -> OutcomeType]
    BY <1>0, <1>3, <2>2, TryFailsTypes, GotoTypes, Names DEF Try
  <2>5. QED
    BY <1>3, <2>1, <2>3, <2>4 DEF Try, TypeOK, row
<1>4. CASE Answered(q)
  <2>1. tries[q] < Attempts
    BY <1>4 DEF Answered, AnswerOK, Undecided
  <2>2. /\ tries' \in [Request -> 0 .. Attempts]
        /\ pc' \in [Request -> PcType] /\ outcome' \in [Request -> OutcomeType]
    BY <1>0, <1>4, <2>1, TryFailsTypes, GotoTypes, Names DEF Answered
  <2>3. QED
    BY <1>4, <2>2 DEF Answered, TypeOK, row, calls
<1>5. CASE Lost(q)
  <2>1. faults' \in 0 .. Faults
    BY <1>5, MayFailTypes DEF Lost
  <2>2. /\ tries' \in [Request -> 0 .. Attempts]
        /\ pc' \in [Request -> PcType] /\ outcome' \in [Request -> OutcomeType]
    <3>1. tries[q] < Attempts
      BY <1>5 DEF Lost, AnswerOK, Undecided
    <3>2. QED
      BY <1>5, <3>1, TryFailsTypes DEF Lost
  <2>3. QED
    BY <1>5, <2>1, <2>2 DEF Lost, TypeOK, row, calls
<1>6. CASE Settle(q)
  <2>1. pc' \in [Request -> PcType]
    BY <1>6, GotoTypes, Names DEF Settle
  <2>2. breaker' \in BreakerType
    BY <1>6, BreakerTypes DEF Settle, TypeOK
  <2>3. QED
    BY <1>6, <2>1, <2>2 DEF Settle, TypeOK, request, row, calls
<1>7. CASE Audit(q)
  <2>1. faults' \in 0 .. Faults
    BY <1>7, MayFailTypes DEF Audit, TypeOK
  <2>2. audit' \in [Request -> Seq(BOOLEAN)]
    <3> DEFINE success == outcome[q] = "ok"
    <3>1. audit' \in {audit, [audit EXCEPT ![q] = Append(audit[q], success)]}
      BY <1>7, Zenon DEF Audit
    <3>2. success \in BOOLEAN
      OBVIOUS
    <3> HIDE DEF success
    <3>3. Append(audit[q], success) \in Seq(BOOLEAN)
      BY <1>0, <3>2
    <3>4. QED
      BY <1>0, <3>1, <3>3, Zenon
  <2>3. pc' \in [Request -> PcType]
    BY <1>7, GotoTypes, Names DEF Audit
  <2>4. QED
    BY <1>7, <2>1, <2>2, <2>3 DEF Audit, TypeOK, request, row, calls
<1>8. CASE Respond(q)
  <2>1. pc' \in [Request -> PcType]
    BY <1>8, GotoTypes, Names DEF Respond
  <2>2. answer' \in [Request -> {0, 200, 404, 502, 503}]
    <3> DEFINE a == CASE outcome[q] = "ok" -> 200
                      [] outcome[q] = "missing" -> 404
                      [] outcome[q] = "open" -> 503
                      [] OTHER -> 502
    <3>0. answer' = [answer EXCEPT ![q] = a]
      BY <1>8, Zenon DEF Respond
    <3>1. a \in {200, 404, 502, 503}
      OBVIOUS
    <3> HIDE DEF a
    <3>2. QED
      BY <3>0, <3>1 DEF TypeOK
  <2>3. QED
    BY <1>8, <2>1, <2>2 DEF Respond, TypeOK, row, calls
<1>9. CASE Disconnect(q)
  BY <1>9 DEF Disconnect, TypeOK, row, calls
<1>10. QED
  BY <1>1, <1>2, <1>3, <1>4, <1>5, <1>6, <1>7, <1>8, <1>9 DEF Step

(* Record and answer follow the outcome, and the tries are counted.           *)
LEMMA RequestStays ==
  ASSUME TypeOK, NEW q \in Request, AnswerOK(q), Step(q) \/ Disconnect(q)
  PROVE  AnswerOK(q)'
<1> USE DEF AnswerOK, Undecided
<1>0. /\ pc \in [Request -> PcType] /\ outcome \in [Request -> OutcomeType]
      /\ tries[q] \in 0 .. Attempts /\ Attempts \in Nat
      /\ audit \in [Request -> Seq(BOOLEAN)]
      /\ answer \in [Request -> {0, 200, 404, 502, 503}]
  BY AttemptsAssumption DEF TypeOK
<1>1. CASE Lookup(q)
  BY <1>0, <1>1, GotoTypes, Names DEF Lookup, request, calls
<1>2. CASE Execute(q)
  BY <1>0, <1>2, GotoTypes, Names DEF Execute, request, calls
<1>3. CASE Try(q)
  BY <1>0, <1>3, TryFailsTypes, GotoTypes, Names DEF Try
<1>4. CASE Answered(q)
  <2>1. CASE TryFails(q)
    BY <1>0, <1>4, <2>1, TryFailsTypes, Names DEF Answered
  <2>2. CASE phase[Current(q)] = "ok" /\ Ends(q, "ok", "settle") /\ UNCHANGED tries
    <3>1. phase'[Current(q)'] = "ok"
      BY <1>4, <2>2 DEF Answered, calls, Current
    <3>2. QED
      BY <1>0, <1>4, <2>2, <3>1, GotoTypes, Names DEF Answered
  <2>3. QED
    BY <1>4, <2>1, <2>2 DEF Answered
<1>5. CASE Lost(q)
  BY <1>0, <1>5, TryFailsTypes, Names DEF Lost
<1>6. CASE Settle(q)
  BY <1>0, <1>6, GotoTypes, Names DEF Settle, request, calls, Current
<1>7. CASE Audit(q)
  <2>1. audit[q] = <<>> /\ pc'[q] = "respond"
    BY <1>0, <1>7, GotoTypes, Names DEF Audit
  <2>2. UNCHANGED <<outcome, answer, tries, phase>> /\ Current(q)' = Current(q)
    BY <1>7 DEF Audit, request, calls, Current
  <2>3. CASE audit' = audit
    BY <1>0, <1>7, <2>1, <2>2, <2>3 DEF Audit
  <2>4. CASE audit' = [audit EXCEPT ![q] = Append(audit[q], outcome[q] = "ok")]
    <3> DEFINE success == outcome[q] = "ok"
    <3>0. audit' = [audit EXCEPT ![q] = Append(audit[q], success)]
      BY <2>4, Zenon
    <3>1. audit'[q] = Append(<<>>, success)
      <4> HIDE DEF success
      <4>1. QED
        BY <1>0, <2>1, <3>0
    <3>2. success \in BOOLEAN
      OBVIOUS
    <3>3. audit'[q][1] = success /\ Len(audit'[q]) = 1
      <4> HIDE DEF success
      <4>1. QED
        BY <3>1, <3>2
    <3>4. audit'[q][1] <=> outcome'[q] = "ok"
      <4>1. outcome' = outcome
        BY <2>2
      <4>2. QED
        BY <3>3, <4>1, Zenon
    <3>5. QED
      BY <1>7, <2>1, <2>2, <3>3, <3>4 DEF Audit
  <2>5. QED
    BY <1>7, <2>3, <2>4, Zenon DEF Audit
<1>8. CASE Respond(q)
  <2>1. UNCHANGED <<outcome, audit, tries, phase>> /\ Current(q)' = Current(q)
    BY <1>8 DEF Respond, calls, Current
  <2>2. /\ answer'[q] = 200 <=> outcome[q] = "ok"
        /\ answer'[q] \in {404, 503} => outcome[q] \in {"open", "missing"}
    BY <1>0, <1>8 DEF Respond
  <2>3. pc[q] = "respond" /\ pc'[q] = "done"
    BY <1>0, <1>8, GotoTypes, Names DEF Respond
  <2>4. QED
    BY <1>0, <2>1, <2>2, <2>3
<1>9. CASE Disconnect(q)
  BY <1>9 DEF Disconnect, calls, Current
<1>10. QED
  BY <1>1, <1>2, <1>3, <1>4, <1>5, <1>6, <1>7, <1>8, <1>9 DEF Step

(* The calls keep what they have written: a request only sends a new one.     *)
LEMMA CallsStay ==
  ASSUME RouteInv, NEW q \in Request, Step(q) \/ Disconnect(q), NEW c \in Call
  PROVE  CallOK(c)'
<1> DEFINE r == c[1]
           n == c[2]
<1>0. /\ TypeOK /\ AnswerOK(q) /\ CallOK(c) /\ r \in Request /\ n \in 1 .. Attempts
      /\ c = <<r, n>> /\ Attempts \in Nat /\ tries[q] \in 0 .. Attempts
      /\ phase \in [Call -> PhaseType] /\ tries[r] \in 0 .. Attempts
  BY Calls, AttemptsAssumption DEF RouteInv, TypeOK
<1>1. UNCHANGED <<past, up, history>>
  BY <1>0, StepIsLocal DEF row
<1>2. r # q => pc'[r] = pc[r] /\ tries'[r] = tries[r] /\ outcome'[r] = outcome[r]
  BY <1>0, StepIsLocal
<1>3. CASE UNCHANGED phase
  <2>1. Unsent(c)' => Unsent(c)
    <3>1. CASE r # q
      BY <1>2, <3>1 DEF Unsent
    <3>2. CASE r = q
      <4> USE DEF Unsent, AnswerOK, Undecided
      <4>1. CASE Lookup(q)
        BY <1>0, <3>2, <4>1, GotoTypes, Names DEF Lookup, request
      <4>2. CASE Execute(q)
        BY <1>0, <3>2, <4>2, GotoTypes, Names DEF Execute, request
      <4>3. CASE Try(q)
        <5>1. pc[q] = "try" /\ tries[q] < Attempts /\ outcome[q] = "none"
          BY <1>0, <4>3 DEF Try
        <5>2. CASE TryFails(q)
          BY <1>0, <3>2, <5>1, <5>2, TryFailsTypes
        <5>3. CASE tries' = tries
          BY <1>0, <3>2, <5>1, <5>3
        <5>4. QED
          BY <4>3, <5>2, <5>3 DEF Try
      <4>4. CASE Answered(q)
        <5>1. pc[q] = "wait" /\ tries[q] < Attempts
          BY <1>0, <4>4 DEF Answered
        <5>2. CASE TryFails(q)
          BY <1>0, <3>2, <5>1, <5>2, TryFailsTypes
        <5>3. CASE tries' = tries /\ Ends(q, "ok", "settle")
          BY <1>0, <3>2, <5>1, <5>3, GotoTypes, Names
        <5>4. QED
          BY <4>4, <5>2, <5>3 DEF Answered
      <4>5. CASE Lost(q)
        BY <1>0, <3>2, <4>5, TryFailsTypes DEF Lost
      <4>6. CASE Settle(q) \/ Audit(q) \/ Respond(q)
        BY <1>0, <3>2, <4>6 DEF Settle, Audit, Respond, request
      <4>7. CASE Disconnect(q)
        BY <1>0, <3>2, <4>7 DEF Disconnect
      <4>8. QED
        BY <4>1, <4>2, <4>3, <4>4, <4>5, <4>6, <4>7 DEF Step
    <3>3. QED
      BY <3>1, <3>2
  <2>2. QED
    BY <1>0, <1>1, <1>3, <2>1 DEF CallOK
<1>4. CASE /\ Try(q) /\ phase' = [phase EXCEPT ![Current(q)] = "probe"]
           /\ Goto(q, "wait") /\ UNCHANGED <<outcome, tries>>
  <2>1. /\ pc[q] = "try" /\ tries[q] < Attempts /\ outcome[q] = "none" /\ pc'[q] = "wait"
    BY <1>0, <1>4, GotoTypes, Names DEF Try, AnswerOK, Undecided
  <2>2. CASE c = Current(q)
    <3>1. r = q /\ n = tries[q] + 1
      BY <1>0, <2>2 DEF Current
    <3>2. Unsent(c)
      BY <2>1, <3>1 DEF Unsent
    <3>3. ~Unsent(c)' /\ phase'[c] = "probe" /\ history[c] = <<>>
      BY <1>0, <1>4, <2>1, <2>2, <3>1, <3>2 DEF Unsent, CallOK
    <3>4. QED
      BY <1>1, <3>3 DEF CallOK
  <2>3. CASE c # Current(q)
    <3>1. phase'[c] = phase[c]
      BY <1>0, <1>4, <2>3
    <3>2. Unsent(c)' => Unsent(c)
      BY <1>0, <1>2, <1>4, <2>1, <2>3 DEF Unsent, Current
    <3>3. QED
      BY <1>0, <1>1, <3>1, <3>2 DEF CallOK
  <2>4. QED
    BY <2>2, <2>3
<1>5. QED
  BY <1>0, <1>3, <1>4, StepIsLocal

-----------------------------------------------------------------------------
(* The steps of a call in the monitoring service, and the edits of the row. *)

(* A step of a call changes the call, and the status when it updates it: the  *)
(* request does not notice.  What it does, apart from the failures.           *)
LEMMA CheckSteps ==
  ASSUME RouteInv, NEW c \in Call, Check(c)
  PROVE  /\ UNCHANGED <<breaker, found, claimed, edits, audit, handler>> /\ faults' \in 0 .. Faults
         /\ \E p \in PhaseType \ {"none"} : phase' = [phase EXCEPT ![c] = p]
         /\ phase[c] \notin {"none", "ok"}
         /\ \/ /\ UNCHANGED <<status, past, history>>
               /\ phase[c] = "probe" /\ phase'[c] = "record"
               /\ \E b \in BOOLEAN : up' = [up EXCEPT ![c] = b]
            \/ /\ UNCHANGED <<status, past, up>> /\ phase[c] = "record"
               /\ \/ /\ history' = [history EXCEPT ![c] = <<up[c]>>]
                     /\ phase'[c] \in {"update", "error"}
                  \/ history' = history /\ phase'[c] = "error"
            \/ /\ UNCHANGED <<up, history>> /\ phase[c] = "update"
               /\ \/ SetStatus(StatusOf(up[c])) /\ phase'[c] \in {"ok", "error"}
                  \/ UNCHANGED <<status, past>> /\ phase'[c] = "error"
<1>0. /\ phase \in [Call -> PhaseType] /\ faults \in 0 .. Faults /\ up[c] \in BOOLEAN
      /\ Faults \in Nat /\ history \in [Call -> Seq(BOOLEAN)] /\ CallOK(c)
  BY AttemptsAssumption DEF RouteInv, TypeOK
<1>1. CallFails(c) => /\ faults' \in 0 .. Faults /\ phase' = [phase EXCEPT ![c] = "error"]
                      /\ phase'[c] = "error"
  BY <1>0 DEF CallFails
<1>2. CASE Probe(c)
  BY <1>0, <1>2, Names DEF Probe, row
<1>3. CASE Record(c)
  <2>1. history[c] = <<>> /\ Append(history[c], up[c]) = <<up[c]>>
    BY <1>0, <1>3, FirstRow DEF Record, CallOK
  <2>2. QED
    BY <1>0, <1>1, <1>3, <2>1, Names DEF Record, row
<1>4. CASE UpdateStatus(c)
  BY <1>0, <1>1, <1>4, Names DEF UpdateStatus
<1>5. QED
  BY <1>2, <1>3, <1>4 DEF Check

(* Every step of a call keeps the invariant.                                  *)
LEMMA CheckStays ==
  ASSUME RouteInv, NEW c \in Call, Check(c)
  PROVE  RouteInv'
<1>0. /\ TypeOK /\ CallOK(c) /\ PastOK /\ c[1] \in Request
      /\ phase \in [Call -> PhaseType] /\ up \in [Call -> BOOLEAN]
      /\ history \in [Call -> Seq(BOOLEAN)]
  BY Calls DEF RouteInv, TypeOK
<1>1. \E p \in PhaseType \ {"none"} : phase' = [phase EXCEPT ![c] = p]
  BY CheckSteps
<1>2. /\ phase[c] \notin {"none", "ok"} /\ phase'[c] # "none"
      /\ \A d \in Call \ {c} : phase'[d] = phase[d]
  BY <1>0, <1>1, CheckSteps
<1>3. UNCHANGED <<breaker, found, claimed, edits, audit, handler>> /\ faults' \in 0 .. Faults
  BY CheckSteps
<1>4. /\ up' \in [Call -> BOOLEAN] /\ history' \in [Call -> Seq(BOOLEAN)]
      /\ \A d \in Call \ {c} : up'[d] = up[d] /\ history'[d] = history[d]
  <2>1. <<up[c]>> \in Seq(BOOLEAN)
    BY <1>0, FirstRow
  <2>2. \/ up' = up
        \/ \E b \in BOOLEAN : up' = [up EXCEPT ![c] = b]
    BY CheckSteps
  <2>3. history' = history \/ history' = [history EXCEPT ![c] = <<up[c]>>]
    BY CheckSteps
  <2>4. QED
    BY <1>0, <2>1, <2>2, <2>3
<1>5. past \subseteq past' /\ status' \in Status /\ past' \subseteq Status
  <2>1. status \in Status /\ past \subseteq Status /\ StatusOf(up[c]) \in Status
    BY DEF RouteInv, TypeOK, Status, StatusOf
  <2>2. QED
    BY <2>1, CheckSteps DEF SetStatus
<1>6. TypeOK'
  <2>1. phase' \in [Call -> PhaseType]
    BY <1>0, <1>1
  <2>2. QED
    BY <1>0, <1>3, <1>4, <1>5, <2>1 DEF TypeOK, handler
<1>7. ASSUME NEW r \in Request PROVE AnswerOK(r)'
  <2>1. AnswerOK(r) /\ UNCHANGED <<pc, tries, outcome, answer, audit>>
    BY <1>3 DEF RouteInv, handler
  <2>2. ASSUME outcome[r] = "ok" PROVE phase'[Current(r)'] = "ok"
    <3>1. /\ tries[r] < Attempts /\ phase[Current(r)] = "ok" /\ Current(r)' = Current(r)
          /\ tries[r] \in 0 .. Attempts /\ Attempts \in Nat
      BY <2>1, <2>2, AttemptsAssumption DEF AnswerOK, Current, RouteInv, TypeOK
    <3>2. Current(r) \in Call
      BY <3>1, Calls DEF Current
    <3>3. QED
      BY <1>2, <3>1, <3>2
  <2>3. QED
    BY <2>1, <2>2 DEF AnswerOK, Undecided
<1>8. ASSUME NEW d \in Call PROVE CallOK(d)'
  <2>1. Unsent(d)' = Unsent(d) /\ CallOK(d)
    BY <1>3 DEF Unsent, handler, RouteInv
  <2>2. CASE d # c
    BY <1>2, <1>4, <1>5, <2>1, <2>2 DEF CallOK
  <2>3. CASE d = c
    <3>1. ~Unsent(c)
      BY <1>0, <1>2 DEF CallOK
    <3>2. CASE phase[c] = "probe"
      BY <1>0, <2>1, <2>3, <3>1, <3>2, CheckSteps DEF CallOK
    <3>3. CASE phase[c] = "record"
      <4>1. history[c] = <<>> /\ up' = up
        BY <1>0, <3>3, CheckSteps DEF CallOK
      <4>2. \/ history'[c] = <<up[c]>> /\ phase'[c] \in {"update", "error"}
            \/ history'[c] = <<>> /\ phase'[c] = "error"
        BY <1>0, <3>3, <4>1, CheckSteps
      <4>3. QED
        BY <2>1, <2>3, <3>1, <4>1, <4>2 DEF CallOK
    <3>4. CASE phase[c] = "update"
      <4>1. history[c] = <<up[c]>> /\ UNCHANGED <<up, history>>
        BY <1>0, <3>4, CheckSteps DEF CallOK
      <4>2. phase'[c] = "error" \/ (phase'[c] = "ok" /\ StatusOf(up[c]) \in past')
        BY <3>4, CheckSteps DEF SetStatus
      <4>3. QED
        BY <2>1, <2>3, <3>1, <4>1, <4>2 DEF CallOK
    <3>5. QED
      BY <3>2, <3>3, <3>4, CheckSteps
  <2>4. QED
    BY <2>2, <2>3
<1>9. PastOK'
  <2>1. ASSUME NEW s, Evidence(s) PROVE Evidence(s)'
    <3>1. CASE s \in {"unknown"} \cup claimed
      BY <1>3, <3>1 DEF Evidence
    <3>2. ASSUME NEW d \in Call, history[d] = <<up[d]>>, s = StatusOf(up[d])
          PROVE  Evidence(s)'
      <4>1. CASE d # c
        BY <1>4, <3>2, <4>1 DEF Evidence
      <4>2. CASE d = c
        <5>1. history[c] # <<>>
          BY <1>0, <3>2, <4>2, FirstRow
        <5>2. UNCHANGED <<up, history>>
          BY <1>0, <5>1, CheckSteps DEF CallOK
        <5>3. QED
          BY <3>2, <5>2 DEF Evidence
      <4>3. QED
        BY <4>1, <4>2
    <3>3. QED
      BY <2>1, <3>1, <3>2 DEF Evidence
  <2>2. CASE UNCHANGED <<status, past>>
    BY <1>0, <2>1, <2>2 DEF PastOK
  <2>3. CASE /\ SetStatus(StatusOf(up[c])) /\ phase[c] = "update" /\ UNCHANGED <<up, history>>
    <3>1. Evidence(StatusOf(up[c]))'
      BY <1>0, <2>3 DEF CallOK, Evidence
    <3>2. QED
      BY <1>0, <2>1, <2>3, <3>1 DEF PastOK, SetStatus
  <2>4. QED
    BY <2>2, <2>3, CheckSteps
<1>10. QED
  BY <1>6, <1>7, <1>8, <1>9 DEF RouteInv

(* The edits of users and of Sync keep the invariant: a user's status is      *)
(* claimed, and Sync only brings back one the server has had.                 *)
LEMMA EditStays ==
  ASSUME RouteInv, Register \/ Patch \/ SyncUpdate
  PROVE  RouteInv'
<1>0. UNCHANGED <<breaker, calls, audit, handler, faults>> /\ edits' \in 0 .. Edits
  BY AttemptsAssumption DEF Register, Patch, SyncUpdate, Edit, RouteInv, TypeOK
<1>1. PICK s \in Status : /\ SetStatus(s) /\ claimed \subseteq claimed' /\ claimed' \subseteq Status
                          /\ s \in past \/ s \in claimed'
  <2>1. claimed \subseteq Status /\ past \subseteq Status
    BY DEF RouteInv, TypeOK
  <2>2. CASE Register
    BY <2>1, <2>2 DEF Register
  <2>3. CASE Patch
    BY <2>1, <2>3 DEF Patch
  <2>4. CASE SyncUpdate
    BY <2>1, <2>4 DEF SyncUpdate
  <2>5. QED
    BY <2>2, <2>3, <2>4
<1>2. found' \in BOOLEAN
  BY DEF Register, Patch, SyncUpdate, RouteInv, TypeOK
<1>3. TypeOK'
  BY <1>0, <1>1, <1>2 DEF RouteInv, TypeOK, calls, handler, SetStatus
<1>4. ASSUME NEW r \in Request PROVE AnswerOK(r)'
  BY <1>0 DEF RouteInv, AnswerOK, Undecided, calls, handler, Current
<1>5. ASSUME NEW c \in Call PROVE CallOK(c)'
  BY <1>0, <1>1 DEF RouteInv, CallOK, Unsent, calls, handler, SetStatus
<1>6. PastOK'
  <2>1. ASSUME NEW t, Evidence(t) PROVE Evidence(t)'
    BY <1>0, <1>1, <2>1 DEF Evidence, calls
  <2>2. Evidence(s)'
    BY <1>1, <2>1 DEF RouteInv, PastOK, Evidence
  <2>3. QED
    BY <1>1, <2>1, <2>2 DEF RouteInv, PastOK, SetStatus
<1>7. QED
  BY <1>3, <1>4, <1>5, <1>6 DEF RouteInv

(* Every state satisfies the inductive invariant.                             *)
THEOREM RouteInvariant == Spec => []RouteInv
<1>1. Init => RouteInv
  <2> SUFFICES ASSUME Init PROVE RouteInv
    OBVIOUS
  <2>1. TypeOK
    <3>1. /\ history \in [Call -> Seq(BOOLEAN)] /\ audit \in [Request -> Seq(BOOLEAN)]
      BY DEF Init
    <3>2. breaker \in BreakerType
      BY BreakerTypes DEF Init
    <3>3. /\ pc \in [Request -> PcType] /\ outcome \in [Request -> OutcomeType]
          /\ phase \in [Call -> PhaseType]
      BY Names DEF Init
    <3>4. /\ tries \in [Request -> 0 .. Attempts] /\ up \in [Call -> BOOLEAN]
          /\ answer \in [Request -> {0, 200, 404, 502, 503}]
          /\ connected \in [Request -> BOOLEAN] /\ faults \in 0 .. Faults /\ edits \in 0 .. Edits
      BY AttemptsAssumption DEF Init
    <3>5. QED
      BY <3>1, <3>2, <3>3, <3>4 DEF Init, TypeOK, Status
  <2>2. ASSUME NEW r \in Request PROVE AnswerOK(r)
    BY AttemptsAssumption DEF Init, AnswerOK, Undecided
  <2>3. ASSUME NEW c \in Call PROVE CallOK(c)
    BY DEF Init, CallOK
  <2>4. PastOK
    BY DEF Init, PastOK, Evidence
  <2>5. QED
    BY <2>1, <2>2, <2>3, <2>4 DEF RouteInv
<1>2. RouteInv /\ [Next]_vars => RouteInv'
  <2> SUFFICES ASSUME RouteInv, [Next]_vars PROVE RouteInv'
    OBVIOUS
  <2>1. ASSUME NEW q \in Request, Step(q) \/ Disconnect(q) PROVE RouteInv'
    <3>1. TypeOK /\ \A r \in Request : AnswerOK(r)
      BY DEF RouteInv
    <3>2. TypeOK'
      BY <2>1, <3>1, StepTypes
    <3>3. ASSUME NEW r \in Request PROVE AnswerOK(r)'
      <4>1. CASE r = q
        BY <2>1, <3>1, <4>1, RequestStays
      <4>2. CASE r # q
        <5>1. /\ pc'[r] = pc[r] /\ tries'[r] = tries[r] /\ outcome'[r] = outcome[r]
              /\ answer'[r] = answer[r] /\ audit'[r] = audit[r]
          BY <2>1, <3>1, <4>2, StepIsLocal
        <5>2. Current(r)' = Current(r) /\ Current(r) # Current(q)
          BY <4>2, <5>1 DEF Current
        <5>3. ASSUME outcome[r] = "ok" PROVE phase'[Current(r)] = phase[Current(r)]
          <6>1. phase \in [Call -> PhaseType] /\ Attempts \in Nat /\ tries[r] \in 0 .. Attempts
            BY <3>1, AttemptsAssumption DEF TypeOK
          <6>2. Current(r) \in Call
            <7>1. tries[r] < Attempts
              BY <3>1, <5>3 DEF AnswerOK
            <7>2. QED
              BY <6>1, <7>1, Calls DEF Current
          <6>3. phase' = phase \/ phase' = [phase EXCEPT ![Current(q)] = "probe"]
            BY <2>1, <3>1, StepIsLocal
          <6>4. QED
            BY <5>2, <6>1, <6>2, <6>3
        <5>4. QED
          BY <3>1, <5>1, <5>2, <5>3 DEF AnswerOK, Undecided
      <4>3. QED
        BY <4>1, <4>2
    <3>4. \A c \in Call : CallOK(c)'
      BY <2>1, CallsStay
    <3>5. PastOK'
      BY <2>1, <3>1, StepIsLocal DEF RouteInv, PastOK, Evidence, row
    <3>6. QED
      BY <3>2, <3>3, <3>4, <3>5 DEF RouteInv
  <2>2. ASSUME NEW c \in Call, Check(c) PROVE RouteInv'
    BY <2>2, CheckStays
  <2>3. CASE Register \/ Patch \/ SyncUpdate
    BY <2>3, EditStays
  <2>4. CASE Tick
    <3>1. breaker' \in BreakerType /\ UNCHANGED <<row, calls, audit, handler, faults>>
      BY <2>4, BreakerTypes DEF Tick, RouteInv, TypeOK
    <3>2. TypeOK'
      BY <3>1 DEF RouteInv, TypeOK, row, calls, handler
    <3>3. QED
      BY <3>1, <3>2 DEF RouteInv, AnswerOK, CallOK, PastOK, Evidence, Undecided, Unsent,
                        Current, row, calls, handler
  <2>5. CASE UNCHANGED vars
    <3>1. TypeOK'
      BY <2>5 DEF vars, RouteInv, TypeOK
    <3>2. ASSUME NEW r \in Request PROVE AnswerOK(r)'
      BY <2>5 DEF vars, RouteInv, AnswerOK, Undecided, Current
    <3>3. ASSUME NEW c \in Call PROVE CallOK(c)'
      BY <2>5 DEF vars, RouteInv, CallOK, Unsent
    <3>4. PastOK'
      BY <2>5 DEF vars, RouteInv, PastOK, Evidence
    <3>5. QED
      BY <3>1, <3>2, <3>3, <3>4 DEF RouteInv
  <2>6. QED
    BY <2>1, <2>2, <2>3, <2>4, <2>5 DEF Next
<1>3. QED
  BY <1>1, <1>2, PTL DEF Spec

(* A check that is answered with 200 has the result of its last call in the      *)
(* history, once, and in the status, whatever failed and whatever still runs. *)
THEOREM AnsweredIsRecorded == Spec => []AnsweredCheckIsRecorded
<1>1. RouteInv => AnsweredCheckIsRecorded
  <2> SUFFICES ASSUME RouteInv, NEW r \in Request, answer[r] = 200
               PROVE  /\ history[Current(r)] = <<up[Current(r)]>>
                      /\ StatusOf(up[Current(r)]) \in past
    BY DEF AnsweredCheckIsRecorded
  <2>1. tries[r] < Attempts /\ phase[Current(r)] = "ok"
    BY DEF RouteInv, AnswerOK
  <2>2. Current(r) \in Call
    BY <2>1, Calls, AttemptsAssumption DEF Current, RouteInv, TypeOK
  <2>3. QED
    BY <2>1, <2>2 DEF RouteInv, CallOK
<1>2. QED
  BY <1>1, RouteInvariant, PTL

(* A status of the server that no user has set rests on a row that says the   *)
(* same, whoever wrote it.                                                    *)
THEOREM StatusHasEvidenceHolds == Spec => []StatusHasEvidence
<1>1. RouteInv => StatusHasEvidence
  <2> SUFFICES ASSUME RouteInv, NEW c \in Call, history[c] = <<up[c]>>, status = StatusOf(up[c])
               PROVE  \E d \in Call : \E isUp \in ToSet(history[d]) : status = StatusOf(isUp)
    BY DEF RouteInv, PastOK, Evidence, StatusHasEvidence
  <2>1. up[c] \in ToSet(history[c])
    BY FirstRow DEF RouteInv, TypeOK
  <2>2. QED
    BY <2>1
<1>2. QED
  BY <1>1, RouteInvariant, PTL

(* No call leaves more than one row, and none before it is sent or when the   *)
(* request was rejected.                                                      *)
THEOREM RowsAreBounded == Spec => []RowsPerRequest
<1>1. RouteInv => RowsPerRequest
  <2> SUFFICES ASSUME RouteInv, NEW r \in Request, NEW n \in 1 .. Attempts
               PROVE  /\ Len(history[<<r, n>>]) <= 1
                      /\ n > tries[r] + 1 \/ answer[r] \in {404, 503} => history[<<r, n>>] = <<>>
    BY DEF RowsPerRequest
  <2> DEFINE c == <<r, n>>
  <2>0. c \in Call /\ c[1] = r /\ c[2] = n
    BY Calls
  <2>1. /\ CallOK(c) /\ AnswerOK(r) /\ phase[c] \in PhaseType /\ up[c] \in BOOLEAN
        /\ tries[r] \in 0 .. Attempts /\ Attempts \in Nat
    BY <2>0, AttemptsAssumption DEF RouteInv, TypeOK
  <2>2. history[c] \in {<<>>, <<up[c]>>}
    BY <2>1, Names DEF CallOK
  <2>3. Len(history[c]) <= 1
    <3>1. Len(<<>>) = 0 /\ Len(<<up[c]>>) = 1
      BY <2>1, FirstRow
    <3>2. QED
      BY <2>2, <3>1
  <2>4. n > tries[r] + 1 \/ answer[r] \in {404, 503} => Unsent(c)
    <3>1. CASE n > tries[r] + 1
      BY <2>0, <3>1 DEF Unsent
    <3>2. CASE answer[r] \in {404, 503}
      <4>1. tries[r] = 0 /\ pc[r] = "done" /\ outcome[r] \in {"open", "missing"}
        BY <2>1, <3>2 DEF AnswerOK
      <4>2. QED
        BY <2>0, <4>1 DEF Unsent
    <3>3. QED
      BY <3>1, <3>2
  <2>5. Unsent(c) => history[c] = <<>>
    BY <2>1 DEF CallOK
  <2>6. QED
    BY <2>3, <2>4, <2>5
<1>2. QED
  BY <1>1, RouteInvariant, PTL

(* The audit trail says success exactly of the requests answered with 200.    *)
THEOREM AuditIsTruthful == Spec => []AuditMatchesAnswer
<1>1. RouteInv => AuditMatchesAnswer
  <2> SUFFICES ASSUME RouteInv, NEW r \in Request
               PROVE  /\ Len(audit[r]) <= 1
                      /\ answer[r] # 0 => \A success \in ToSet(audit[r]) :
                                              success <=> answer[r] = 200
    BY DEF AuditMatchesAnswer
  <2>1. AnswerOK(r)
    BY DEF RouteInv
  <2>2. answer[r] # 0 => (answer[r] = 200 <=> outcome[r] = "ok")
    BY <2>1 DEF AnswerOK
  <2>3. ASSUME NEW success \in ToSet(audit[r]) PROVE success <=> outcome[r] = "ok"
    <3>1. audit[r] \in Seq(BOOLEAN) /\ Len(audit[r]) <= 1
      BY <2>1 DEF RouteInv, TypeOK, AnswerOK
    <3>2. success = audit[r][1] /\ audit[r] # <<>>
      BY <3>1 DEF ToSet
    <3>3. QED
      BY <2>1, <3>2, Zenon DEF AnswerOK
  <2>4. Len(audit[r]) <= 1
    BY <2>1 DEF AnswerOK
  <2>5. QED
    BY <2>2, <2>3, <2>4
<1>2. QED
  BY <1>1, RouteInvariant, PTL
===============================================================================
