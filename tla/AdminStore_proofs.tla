------------------------- MODULE AdminStore_proofs --------------------------
(***************************************************************************)
(* Policy administration and the memory store. For any number of handlers, *)
(* policies and changes, the audit trail has no gap, a rollback stores a   *)
(* version of the policy, and the versions are what the audited upserts    *)
(* stored. For any keys, amounts and ttls, the memory store with its       *)
(* sweeps implements the store without cleanup. No definition of one is    *)
(* used in the proofs of the other.                                        *)
(***************************************************************************)
EXTENDS PolicyAdmin, MemoryStore, SumTheorems

\* The time a prover has for a leaf that names none.
USE SMTT(40), ZenonT(40)

-----------------------------------------------------------------------------
(* The memory store *)

\* A counter of leases is never negative.
LeaseItem == [value : Nat, expiry : Nat]

\* Reading an item yields an item (getValueLocked, getLeaseLocked).
LEMMA LiveType ==
  ASSUME NEW t \in Nat
  PROVE  /\ \A it \in Item : Live(it, t) \in Item
         /\ \A it \in LeaseItem : Live(it, t) \in LeaseItem
  BY DEF Live, Item, LeaseItem, ZeroItem, NoExpiry

\* Writing an item yields an item.
LEMMA WrittenType ==
  ASSUME NEW t \in Nat
  PROVE  \A ttl \in Nat :
           /\ \A it \in Item, v \in Int : Written(it, v, ttl, t) \in Item
           /\ \A it \in LeaseItem, v \in Nat : Written(it, v, ttl, t) \in LeaseItem
  BY DEF Written, Item, LeaseItem

\* Trimming a log and adding to it yields a log.
LEMMA LogType ==
  ASSUME NEW log \in [Instant -> Nat]
  PROVE  /\ EmptyLog(Instant) \in [Instant -> Nat]
         /\ \A cutoff \in Instant : Trimmed(log, cutoff) \in [Instant -> Nat]
         /\ \A t \in Instant, n \in Nat : Added(log, t, n) \in [Instant -> Nat]
  BY DEF EmptyLog, Trimmed, Added

\* Reading an item at an earlier instant changes nothing for a later reader:
\* why a sweep with an outdated clock value does no harm.
LEMMA LiveAfterLive ==
  ASSUME NEW it \in Item, NEW s \in Nat, NEW t \in Nat, s <= t
  PROVE  Live(Live(it, s), t) = Live(it, t)
  BY DEF Live, Expired, Item, ZeroItem, NoExpiry

\* An item that was just written is not expired.
LEMMA LiveWritten ==
  ASSUME NEW t \in Nat
  PROVE  \A it \in Item, v \in Int, ttl \in Nat :
           Live(it, t) = it => Live(Written(it, v, ttl, t), t) = Written(it, v, ttl, t)
<1>. SUFFICES ASSUME NEW it \in Item, NEW v \in Int, NEW ttl \in Nat, Live(it, t) = it
              PROVE  ~Expired(Written(it, v, ttl, t), t)
  BY DEF Live
<1>1. ~Expired(it, t)
  BY DEF Live, Expired, ZeroItem, NoExpiry, Item
<1>. QED  BY <1>1 DEF Written, Expired, Item, NoExpiry

-----------------------------------------------------------------------------
\* An empty store is well formed (NewSharded).
LEMMA InitType == Init => TypeOK
  BY DEF Init, TypeOK, Item, ZeroItem, NoExpiry, EmptyLog

\* Every operation on a key preserves the types.
LEMMA OperationType ==
  ASSUME TypeOK, NEW k \in Key, Operation(k)
  PROVE  TypeOK'
<1>. USE StoreAssumption
<1>1. /\ now \in Nat
      /\ Live(values[k], now) \in Item
      /\ Live(leases[k], now) \in LeaseItem
      /\ timestamps[k] \in [Instant -> Nat]
  BY LiveType DEF TypeOK, LeaseItem
<1>2. CASE Get(k)
  BY <1>1, <1>2 DEF Get, TypeOK, sweeper
<1>3. CASE Delete(k)
  BY <1>3 DEF Delete, TypeOK, sweeper, ZeroItem, Item, NoExpiry, EmptyLog
<1>4. CASE ReleaseLease(k)
  <2>1. Live(leases[k], now).value > 0
          => [Live(leases[k], now) EXCEPT !.value = @ - 1] \in LeaseItem
    BY <1>1 DEF LeaseItem
  <2>. QED  BY <1>1, <1>4, <2>1 DEF ReleaseLease, TypeOK, sweeper, LeaseItem
<1>5. CASE \E t \in Instant : CountAfter(k, t)
  BY <1>1, <1>5 DEF CountAfter, TypeOK, sweeper, EmptyLog, NoExpiry
<1>6. ASSUME NEW t \in Instant, TrimBefore(k, t)
      PROVE  TypeOK'
  <2>1. Trimmed(timestamps[k], t) \in [Instant -> Nat]
    BY <1>1, LogType
  <2>. QED  BY <1>6, <2>1 DEF TrimBefore, TypeOK, sweeper
<1>7. ASSUME NEW ttl \in TTL, NEW v \in Amount, Increment(k, v, ttl) \/ Set(k, v, ttl)
      PROVE  TypeOK'
  <2>1. /\ Written(Live(values[k], now), Live(values[k], now).value + v, ttl, now) \in Item
        /\ Written(ZeroItem, v, ttl, now) \in Item
    BY <1>1 DEF Written, Item, ZeroItem, NoExpiry
  <2>. QED  BY <1>7, <2>1 DEF Increment, Set, TypeOK, sweeper
<1>8. ASSUME NEW ttl \in TTL, NEW old \in Amount, NEW new \in Amount,
             CompareAndSwap(k, old, new, ttl)
      PROVE  TypeOK'
  <2>1. Written(Live(values[k], now), new, ttl, now) \in Item
    BY ZenonT(40), <1>1, WrittenType
  <2>. QED  BY <1>1, <1>8, <2>1 DEF CompareAndSwap, TypeOK, sweeper
<1>9. ASSUME NEW ttl \in TTL, NEW ts \in Instant, AddTimestamp(k, ts, ttl)
      PROVE  TypeOK'
  <2>1. Added(timestamps[k], ts, 1) \in [Instant -> Nat]
    BY ZenonT(40), <1>1, LogType
  <2>2. timestamps' \in [Key -> [Instant -> Nat]]
    BY <1>9, <2>1 DEF AddTimestamp, TypeOK
  <2>. QED  BY <1>9, <2>2 DEF AddTimestamp, TypeOK, sweeper
<1>10. ASSUME NEW ttl \in TTL, NEW limit \in Limit, AcquireLease(k, limit, ttl)
       PROVE  TypeOK'
  <2>1. Written(Live(leases[k], now), Live(leases[k], now).value + 1, ttl, now) \in LeaseItem
    <3>1. Live(leases[k], now).value + 1 \in Nat
      BY <1>1 DEF LeaseItem
    <3>2. ttl \in Nat
      OBVIOUS
    <3>. QED  BY ZenonT(40), <1>1, <3>1, <3>2, WrittenType
  <2>. QED  BY <1>1, <1>10, <2>1 DEF AcquireLease, TypeOK, sweeper, LeaseItem
<1>11. ASSUME NEW ttl \in TTL, NEW cutoff \in Instant, NEW ts \in Instant,
              NEW limit \in Limit, NEW cost \in Cost,
              CheckAndAddTimestamps(k, cutoff, limit, cost, ts, ttl)
       PROVE  TypeOK'
  <2>1. /\ Trimmed(timestamps[k], cutoff) \in [Instant -> Nat]
        /\ Added(Trimmed(timestamps[k], cutoff), ts, cost) \in [Instant -> Nat]
    BY ZenonT(40), <1>1, LogType
  <2>2. timestamps' \in [Key -> [Instant -> Nat]]
    BY <1>11, <2>1 DEF CheckAndAddTimestamps, TypeOK
  <2>. QED  BY <1>11, <2>2 DEF CheckAndAddTimestamps, TypeOK, sweeper
<1>. QED
  BY <1>2, <1>3, <1>4, <1>5, <1>6, <1>7, <1>8, <1>9, <1>10, <1>11 DEF Operation, CounterCall, LogCall, LeaseCall

\* So does the sweep, which never holds an instant that is still to come.
LEMMA SweepType ==
  ASSUME TypeOK, Sweep
  PROVE  TypeOK'
<1>1. CASE SweepStart
  BY <1>1 DEF SweepStart, TypeOK, data
<1>2. ASSUME NEW s \in Shard, SweepShard(s)
      PROVE  TypeOK'
  <2>1. /\ sweepNow \in Nat
        /\ \A k \in Key : Live(values[k], sweepNow) \in Item
        /\ \A k \in Key : Live(leases[k], sweepNow) \in LeaseItem
    BY LiveType DEF TypeOK, LeaseItem
  <2>. QED  BY <1>2, <2>1 DEF SweepShard, TypeOK, LeaseItem, EmptyLog, NoExpiry
<1>. QED  BY <1>1, <1>2 DEF Sweep

\* TypeOK is inductive: every operation of store.go keeps the maps well formed.
THEOREM TypeCorrect == Spec => []TypeOK
<1>1. TypeOK /\ [Next]_vars => TypeOK'
  <2>. SUFFICES ASSUME TypeOK, [Next]_vars  PROVE TypeOK'
    OBVIOUS
  <2>1. CASE Tick
    BY <2>1 DEF Tick, TypeOK, data, sweeper
  <2>2. CASE Stop \/ GCExit
    BY <2>2 DEF Stop, GCExit, TypeOK, data
  <2>3. CASE \E limit \in Limit : AcquireLeaseRefused(limit)
    BY <2>3 DEF AcquireLeaseRefused, TypeOK, data, sweeper
  <2>4. CASE UNCHANGED vars
    BY <2>4 DEF vars, TypeOK, data, sweeper
  <2>. QED  BY <2>1, <2>2, <2>3, <2>4, OperationType, SweepType DEF Next
<1>. QED  BY <1>1, InitType, PTL DEF Spec

-----------------------------------------------------------------------------
(* The refinement.  oV and oL are the counters and the leases as a reader    *)
(* sees them now.                                                           *)

oV == [k \in Key |-> Live(values[k], now)]
oL == [k \in Key |-> Live(leases[k], now)]

\* Both modules count a log alike.
LEMMA SameCount ==
  \A log, cutoff : Observed!CountFrom(log, cutoff) = CountFrom(log, cutoff)
  BY ZenonT(40) DEF CountFrom, Observed!CountFrom, SumFunctionOnSet, Observed!SumFunctionOnSet,
     FoldFunctionOnSet, Observed!FoldFunctionOnSet, MapThenFoldSet, Observed!MapThenFoldSet

\* An empty store is an empty abstract store.
LEMMA InitRefines == Init => Observed!Init
  BY DEF Init, Observed!Init, Live, Expired, ZeroItem, NoExpiry,
         Observed!ZeroItem, Observed!NoExpiry, Observed!EmptyLog, EmptyLog,
         NoReply, Observed!NoReply

\* A sweep of one shard is invisible but for the logs it forgets, and those
\* are past their expiry.
LEMMA SweepRefines ==
  ASSUME TypeOK, NEW s \in Shard, SweepShard(s)
  PROVE  Observed!Next
<1>. DEFINE S == {k \in Key : shardFor[k] = s /\ tsExpiry[k] # NoExpiry
                               /\ sweepNow > tsExpiry[k]}
<1>1. oV' = oV
  <2>1. \A k \in Key : Live(Live(values[k], sweepNow), now) = Live(values[k], now)
    BY LiveAfterLive DEF TypeOK
  <2>. QED  BY <2>1 DEF SweepShard, oV
<1>2. oL' = oL
  <2>1. \A k \in Key : Live(Live(leases[k], sweepNow), now) = Live(leases[k], now)
    BY LiveAfterLive DEF TypeOK, Item
  <2>. QED  BY <2>1 DEF SweepShard, oL
<1>3. /\ timestamps' = [k \in Key |-> IF k \in S THEN EmptyLog(Instant) ELSE timestamps[k]]
      /\ tsExpiry' = [k \in Key |-> IF k \in S THEN NoExpiry ELSE tsExpiry[k]]
  BY DEF SweepShard
<1>4. \A k \in S : tsExpiry[k] # NoExpiry /\ now >= tsExpiry[k]
  BY DEF TypeOK
<1>5. Observed!Forget(S)
  BY <1>1, <1>2, <1>3, <1>4 DEF SweepShard, Observed!Forget, Observed!LogDead,
     Observed!NoExpiry, NoExpiry, Observed!EmptyLog, EmptyLog, oV, oL
<1>. QED  BY <1>5 DEF Observed!Next

\* The clock: what expires in the store expires in the abstract store.
LEMMA TickRefines ==
  ASSUME TypeOK, Tick
  PROVE  Observed!Next
<1>1. /\ \A k \in Key : Live(Live(values[k], now), now + 1) = Live(values[k], now + 1)
      /\ \A k \in Key : Live(Live(leases[k], now), now + 1) = Live(leases[k], now + 1)
  BY LiveAfterLive DEF TypeOK, Item
<1>2. /\ timestamps' = [k \in Key |-> IF k \in {} THEN EmptyLog(Instant) ELSE timestamps[k]]
      /\ tsExpiry' = [k \in Key |-> IF k \in {} THEN NoExpiry ELSE tsExpiry[k]]
  BY DEF Tick, data, TypeOK
<1>3. Observed!Tick({})
  BY <1>1, <1>2 DEF Tick, Observed!Tick, data, Observed!Live, Live, Observed!Expired,
     Expired, Observed!ZeroItem, ZeroItem, Observed!NoExpiry, NoExpiry,
     Observed!EmptyLog, EmptyLog
<1>. QED  BY <1>3 DEF Observed!Next

\* An operation on one key writes an item that is alive; what is observed of
\* the other keys, and of the map it does not touch, stays.
LEMMA CounterRefines ==
  ASSUME TypeOK, UNCHANGED <<now, leases, timestamps, tsExpiry>>
  PROVE  \A k \in Key : \A new \in Item :
           /\ Live(new, now) = new
           /\ values' = [values EXCEPT ![k] = new]
           => Observed!CounterOp(k, new, reply')
<1>. SUFFICES ASSUME NEW k \in Key, NEW new \in Item,
                     Live(new, now) = new, values' = [values EXCEPT ![k] = new]
              PROVE  Observed!CounterOp(k, new, reply')
  BY ZenonT(40)
<1>1. oV' = [oV EXCEPT ![k] = new]
  BY ZenonT(40) DEF TypeOK, oV
<1>2. oL' = oL
  BY DEF oL
<1>. QED  BY <1>1, <1>2 DEF Observed!CounterOp, Observed!Answer, oV, oL

\* The lease operations do to the live entry what the abstract ones do.
LEMMA LeaseRefines ==
  ASSUME TypeOK, UNCHANGED <<now, values, timestamps, tsExpiry>>
  PROVE  \A k \in Key : \A new \in LeaseItem :
           /\ Live(new, now) = new
           /\ leases' = [leases EXCEPT ![k] = new]
           => Observed!LeaseOp(k, new, reply')
<1>. SUFFICES ASSUME NEW k \in Key, NEW new \in LeaseItem,
                     Live(new, now) = new, leases' = [leases EXCEPT ![k] = new]
              PROVE  Observed!LeaseOp(k, new, reply')
  BY ZenonT(40)
<1>1. oL' = [oL EXCEPT ![k] = new]
  BY ZenonT(40) DEF TypeOK, oL
<1>2. oV' = oV
  BY DEF oV
<1>. QED  BY <1>1, <1>2 DEF Observed!LeaseOp, Observed!Answer, oV, oL

\* Every operation is the abstract operation of the same name.
LEMMA OperationRefines ==
  ASSUME TypeOK, NEW k \in Key, Operation(k)
  PROVE  Observed!Next
<1>. USE StoreAssumption
<1>. DEFINE v == Live(values[k], now)
            l == Live(leases[k], now)
<1>1. /\ now \in Nat
      /\ values[k] \in Item /\ v \in Item
      /\ leases[k] \in LeaseItem /\ l \in LeaseItem /\ l \in Item /\ l.value \in Nat
      /\ Live(v, now) = v /\ Live(l, now) = l
  <2>1. now \in Nat /\ values[k] \in Item /\ leases[k] \in LeaseItem
    BY DEF TypeOK, LeaseItem
  <2>2. v \in Item /\ l \in LeaseItem
    BY <2>1, LiveType
  <2>3. LeaseItem \subseteq Item
    BY DEF LeaseItem, Item
  <2>4. Live(v, now) = v /\ Live(l, now) = l
    BY <2>1, <2>3, LiveAfterLive
  <2>5. l.value \in Nat
    BY <2>2 DEF LeaseItem
  <2>. QED  BY <2>1, <2>2, <2>3, <2>4, <2>5
<1>. HIDE DEF v, l
<1>2. oV[k] = v /\ oL[k] = l
  BY DEF oV, oL, v, l
<1>3. CASE Get(k)
  <2>1. Observed!CounterOp(k, v, v.value)
    BY ZenonT(40), <1>1, <1>3, CounterRefines DEF Get, v
  <2>. QED  BY <1>2, <2>1 DEF Observed!Next, Observed!Counter, oV
<1>4. ASSUME NEW ttl \in TTL, NEW a \in Amount, Increment(k, a, ttl)
      PROVE  Observed!Next
  <2>1. /\ Written(v, v.value + a, ttl, now) \in Item
        /\ Live(Written(v, v.value + a, ttl, now), now) = Written(v, v.value + a, ttl, now)
    <3>1. v.value + a \in Int
      <4>1. v \in Item /\ a \in Int
        BY <1>1
      <4>. QED  BY <4>1 DEF Item
    <3>2. ttl \in Nat
      OBVIOUS
    <3>. QED  BY ZenonT(40), <1>1, <3>1, <3>2, WrittenType, LiveWritten
  <2>2. Observed!CounterOp(k, Written(v, v.value + a, ttl, now), v.value + a)
    BY ZenonT(40), <1>4, <2>1, CounterRefines DEF Increment, v
  <2>3. Observed!Counter(k)
    BY ZenonT(40), <1>2, <2>2 DEF Observed!Counter, Observed!Written, Written, oV
  <2>. QED  BY <2>3 DEF Observed!Next
<1>5. ASSUME NEW ttl \in TTL, NEW a \in Amount, Set(k, a, ttl)
      PROVE  Observed!Next
  <2>1. /\ Written(ZeroItem, a, ttl, now) \in Item
        /\ Live(Written(ZeroItem, a, ttl, now), now) = Written(ZeroItem, a, ttl, now)
    <3>1. ZeroItem \in Item /\ Live(ZeroItem, now) = ZeroItem
      BY DEF ZeroItem, Item, Live, NoExpiry
    <3>. QED  BY ZenonT(40), <1>1, <3>1, LiveWritten, WrittenType
  <2>2. Observed!CounterOp(k, Written(ZeroItem, a, ttl, now), NoReply)
    BY ZenonT(40), <1>5, <2>1, CounterRefines DEF Set
  <2>3. Observed!Counter(k)
    BY <2>2 DEF Observed!Counter, Observed!Written, Written, Observed!ZeroItem,
       ZeroItem, Observed!NoExpiry, NoExpiry, Observed!NoReply, NoReply
  <2>. QED  BY <2>3 DEF Observed!Next
<1>6. ASSUME NEW ttl \in TTL, NEW old \in Amount, NEW new \in Amount,
             CompareAndSwap(k, old, new, ttl)
      PROVE  Observed!Next
  <2>1. /\ Written(v, new, ttl, now) \in Item
        /\ Live(Written(v, new, ttl, now), now) = Written(v, new, ttl, now)
    BY ZenonT(40), <1>1, WrittenType, LiveWritten
  <2>2. IF v.value = old THEN Observed!CounterOp(k, Written(v, new, ttl, now), 1)
                         ELSE Observed!CounterOp(k, v, 0)
    BY ZenonT(40), <1>1, <1>6, <2>1, CounterRefines DEF CompareAndSwap, v
  <2>3. Observed!Counter(k)
    BY <1>2, <2>2 DEF Observed!Counter, Observed!Written, Written, oV
  <2>. QED  BY <2>3 DEF Observed!Next
<1>7. ASSUME NEW ttl \in TTL, NEW limit \in Limit, AcquireLease(k, limit, ttl)
      PROVE  Observed!Next
  <2>1. /\ Written(l, l.value + 1, ttl, now) \in LeaseItem
        /\ Live(Written(l, l.value + 1, ttl, now), now) = Written(l, l.value + 1, ttl, now)
    <3>1. l.value + 1 \in Nat /\ l.value + 1 \in Int
      BY <1>1
    <3>2. ttl \in Nat
      OBVIOUS
    <3>. QED  BY ZenonT(40), <1>1, <3>1, <3>2, WrittenType, LiveWritten
  <2>2. IF l.value < limit
        THEN Observed!LeaseOp(k, Written(l, l.value + 1, ttl, now), 1)
        ELSE Observed!LeaseOp(k, l, 0)
    <3>1. l.value >= limit \/ l.value < limit
      <4>1. l.value \in Int /\ limit \in Int
        BY <1>1
      <4>. QED  BY <4>1
    <3>2. ~(l.value >= limit /\ l.value < limit)
      <4>1. l.value \in Int /\ limit \in Int
        BY <1>1
      <4>. QED  BY <4>1
    <3>3. CASE l.value >= limit
      <4>1. ~(l.value < limit)
        BY ZenonT(40), <3>2, <3>3
      <4>. QED  BY <1>1, <1>7, <3>3, <4>1, LeaseRefines DEF AcquireLease, l
    <3>4. CASE l.value < limit
      <4>1. ~(l.value >= limit)
        BY <1>1, <3>4 DEF LeaseItem
      <4>. QED  BY <1>7, <2>1, <3>4, <4>1, LeaseRefines DEF AcquireLease, l
    <3>. QED  BY ZenonT(40), <3>1, <3>2, <3>3, <3>4
  <2>3. Observed!Lease(k)
    BY <1>2, <2>2 DEF Observed!Lease, Observed!Written, Written, oL
  <2>. QED  BY <2>3 DEF Observed!Next
<1>8. CASE ReleaseLease(k)
  <2>1. CASE l.value > 0
    <3>1. /\ [l EXCEPT !.value = @ - 1] \in LeaseItem
          /\ Live([l EXCEPT !.value = @ - 1], now) = [l EXCEPT !.value = @ - 1]
      BY <1>1, <2>1 DEF LeaseItem, Live, Expired, ZeroItem, NoExpiry
    <3>2. Observed!LeaseOp(k, [l EXCEPT !.value = @ - 1], NoReply)
      BY ZenonT(40), <1>8, <2>1, <3>1, LeaseRefines DEF ReleaseLease, l
    <3>3. Observed!Lease(k)
      BY <1>2, <2>1, <3>2 DEF Observed!Lease, Observed!NoReply, NoReply, oL
    <3>. QED  BY <3>3 DEF Observed!Next
  <2>2. CASE l.value = 0
    <3>1. leases' = [leases EXCEPT ![k] = l]
      BY <1>8, <2>2 DEF ReleaseLease, l
    <3>2. Observed!LeaseOp(k, l, NoReply)
      BY ZenonT(40), <1>1, <1>8, <3>1, LeaseRefines DEF ReleaseLease
    <3>3. Observed!Lease(k)
      BY <1>2, <2>2, <3>2 DEF Observed!Lease, Observed!NoReply, NoReply, oL
    <3>. QED  BY <3>3 DEF Observed!Next
  <2>. QED  BY <1>1, <2>1, <2>2 DEF LeaseItem
<1>9. CASE Delete(k)
  <2>1. oV' = [oV EXCEPT ![k] = ZeroItem] /\ oL' = [oL EXCEPT ![k] = ZeroItem]
    BY ZenonT(40), <1>9 DEF Delete, TypeOK, oV, oL, Live, Expired, ZeroItem, NoExpiry
  <2>2. Observed!Delete(k)
    BY <1>9, <2>1 DEF Delete, Observed!Delete, Observed!ZeroItem, ZeroItem,
       Observed!NoExpiry, NoExpiry, Observed!EmptyLog, EmptyLog,
       Observed!NoReply, NoReply, oV, oL
  <2>. QED  BY <2>2 DEF Observed!Next
<1>10. (\/ \E t \in Instant : CountAfter(k, t) \/ TrimBefore(k, t)
        \/ \E ttl \in TTL, ts \in Instant : AddTimestamp(k, ts, ttl)
        \/ \E ttl \in TTL, cutoff \in Instant, ts \in Instant, limit \in Limit, cost \in Cost :
             CheckAndAddTimestamps(k, cutoff, limit, cost, ts, ttl))
       => oV' = oV /\ oL' = oL /\ now' = now
  BY DEF CountAfter, TrimBefore, AddTimestamp, CheckAndAddTimestamps, oV, oL
<1>. USE DEF Observed!NoExpiry, NoExpiry, Observed!NoReply, NoReply, Observed!LogDead, LogDead,
             Observed!NewExpiry
<1>11. ASSUME NEW t \in Instant, CountAfter(k, t)
       PROVE  Observed!Log(k)
  <2>1. CASE LogDead(k)
    <3>1. Observed!LogOp(k, EmptyLog(Instant), NoExpiry, CountFrom(EmptyLog(Instant), t))
      BY ZenonT(40), <1>10, <1>11, <2>1 DEF CountAfter, Observed!LogOp, Observed!Answer, oV, oL
    <3>. QED  BY <2>1, <3>1, SameCount DEF Observed!Log, Observed!EmptyLog, EmptyLog
  <2>2. CASE ~LogDead(k)
    <3>1. Observed!LogOp(k, timestamps[k], tsExpiry[k], CountFrom(timestamps[k], t))
      BY ZenonT(40), <1>10, <1>11, <2>2 DEF CountAfter, Observed!LogOp, Observed!Answer, oV, oL
    <3>. QED  BY <2>2, <3>1, SameCount DEF Observed!Log
  <2>. QED  BY <2>1, <2>2
<1>12. ASSUME NEW t \in Instant, TrimBefore(k, t)
       PROVE  Observed!Log(k)
  <2>1. tsExpiry' = [tsExpiry EXCEPT ![k] = tsExpiry[k]]
    BY <1>12 DEF TrimBefore, TypeOK
  <2>2. Observed!LogOp(k, Trimmed(timestamps[k], t), tsExpiry[k], NoReply)
    BY ZenonT(40), <1>10, <1>12, <2>1 DEF TrimBefore, Observed!LogOp, Observed!Answer, oV, oL
  <2>3. tsExpiry[k] \in Observed!NewExpiry(k, Trimmed(timestamps[k], t), 0)
    OBVIOUS
  <2>. QED  BY ZenonT(40), <2>2, <2>3 DEF Observed!Log, Observed!Trimmed, Trimmed
<1>13. ASSUME NEW ttl \in TTL, NEW ts \in Instant, AddTimestamp(k, ts, ttl)
       PROVE  Observed!Log(k)
  <2>1. Observed!LogOp(k, Added(timestamps[k], ts, 1),
                       IF ttl > 0 THEN now + ttl ELSE tsExpiry[k], NoReply)
    BY <1>10, <1>13 DEF AddTimestamp, Observed!LogOp, Observed!Answer, oV, oL
  <2>2. (IF ttl > 0 THEN now + ttl ELSE tsExpiry[k]) \in Observed!NewExpiry(k, timestamps[k], ttl)
    OBVIOUS
  <2>. QED  BY ZenonT(40), <2>1, <2>2 DEF Observed!Log, Observed!Grown, Observed!Added, Added
<1>14. ASSUME NEW ttl \in TTL, NEW cutoff \in Instant, NEW ts \in Instant,
              NEW limit \in Limit, NEW cost \in Cost,
              CheckAndAddTimestamps(k, cutoff, limit, cost, ts, ttl)
       PROVE  Observed!Log(k)
  <2>. DEFINE rest == Trimmed(timestamps[k], cutoff)
  <2>1. IF CountFrom(rest, cutoff) + cost <= limit
        THEN Observed!LogOp(k, Added(rest, ts, cost),
                            IF ttl > 0 THEN now + ttl ELSE tsExpiry[k], 1)
        ELSE Observed!LogOp(k, rest, tsExpiry[k], 0)
    BY <1>10, <1>14 DEF CheckAndAddTimestamps, Observed!LogOp, Observed!Answer, oV, oL
  <2>2. /\ (IF ttl > 0 THEN now + ttl ELSE tsExpiry[k]) \in Observed!NewExpiry(k, rest, ttl)
        /\ tsExpiry[k] \in Observed!NewExpiry(k, rest, 0)
    OBVIOUS
  <2>. QED  BY ZenonT(40), <2>1, <2>2, SameCount DEF Observed!Log, Observed!Grown, Observed!Added, Added,
              Observed!Trimmed, Trimmed
<1>. QED
  BY <1>3, <1>4, <1>5, <1>6, <1>7, <1>8, <1>9, <1>11, <1>12, <1>13, <1>14
  DEF Operation, CounterCall, LogCall, LeaseCall, Observed!Next

\* The store implements the store without cleanup: every step of store.go, the
\* sweep included, is a step its clients could see of TTLStore, or none.
THEOREM Refinement == Spec => ImplementsTTLStore
<1>1. TypeOK /\ [Next]_vars => [Observed!Next]_(Observed!vars)
  <2>. SUFFICES ASSUME TypeOK, [Next]_vars
                PROVE  Observed!Next \/ UNCHANGED Observed!vars
    OBVIOUS
  <2>1. CASE UNCHANGED vars \/ SweepStart \/ Stop \/ GCExit
    BY <2>1 DEF vars, data, SweepStart, Stop, GCExit, Observed!vars
  <2>2. CASE \E limit \in Limit : AcquireLeaseRefused(limit)
    BY <2>2 DEF AcquireLeaseRefused, data, Observed!Next, Observed!Refuse,
       Observed!NoReply, NoReply
  <2>. QED
    BY <2>1, <2>2, TickRefines, SweepRefines, OperationRefines DEF Next, Sweep
<1>. QED
  BY <1>1, InitRefines, TypeCorrect, PTL DEF Spec, ImplementsTTLStore, Observed!Spec

-----------------------------------------------------------------------------
(* Policy administration *)

\* An audit entry.
Entry == [action : {"upsert", "delete"},
          old : Policy \union {Absent}, new : Policy \union {Absent}]

\* A version of a policy.
Snapshot == [version : Nat, snapshot : Policy]

\* The elements of a sequence over S are in S.
LEMMA ElementTyped ==
  ASSUME NEW S, NEW s \in Seq(S), NEW k \in 1 .. Len(s)
  PROVE  s[k] \in S
OBVIOUS

\* Appending to one of a family of sequences over S leaves sequences over S.
LEMMA AppendTyped ==
  ASSUME NEW S, NEW f \in [Id -> Seq(S)], NEW i \in Id, NEW e \in S
  PROVE  [f EXCEPT ![i] = Append(@, e)] \in [Id -> Seq(S)]
<1>1. Append(f[i], e) \in Seq(S)
  OBVIOUS
<1> QED
  BY <1>1

\* Storing a policy keeps the three parts of the file well-typed.
LEMMA UpsertTyped ==
  ASSUME AdminTypeOK, NEW i \in Id, NEW p \in Policy, UpsertPolicy(i, p)
  PROVE  /\ policies' \in [Id -> Policy \union {Absent}]
         /\ versions' \in [Id -> Seq(Snapshot)]
         /\ audits' \in [Id -> Seq(Entry)]
<1> DEFINE number == IF versions[i] = << >> THEN 1
                     ELSE versions[i][Len(versions[i])].version + 1
<1>1. number \in Nat
  <2>1. CASE versions[i] = << >>
    BY <2>1
  <2>2. CASE versions[i] # << >>
    <3>1. versions[i] \in Seq(Snapshot)
      BY ZenonT(40) DEF AdminTypeOK, Snapshot
    <3>2. Len(versions[i]) \in 1 .. Len(versions[i])
      BY <2>2, <3>1
    <3>3. versions[i][Len(versions[i])] \in Snapshot
      BY <3>1, <3>2, ElementTyped
    <3> QED
      BY <2>2, <3>3 DEF Snapshot
  <2> QED
    BY <2>1, <2>2
<1>2. [version |-> number, snapshot |-> p] \in Snapshot
  BY <1>1 DEF Snapshot
<1>3. [action |-> "upsert", old |-> policies[i], new |-> p] \in Entry
  BY DEF AdminTypeOK, Entry
<1>4. versions' = [versions EXCEPT ![i] = Append(@, [version |-> number, snapshot |-> p])]
  BY DEF UpsertPolicy
<1>5. audits' = [audits EXCEPT ![i] =
                   Append(@, [action |-> "upsert", old |-> policies[i], new |-> p])]
  BY DEF UpsertPolicy, Audited
<1> HIDE DEF number
<1>6. policies' \in [Id -> Policy \union {Absent}]
  BY DEF AdminTypeOK, UpsertPolicy
<1>7. versions' \in [Id -> Seq(Snapshot)]
  <2>1. versions \in [Id -> Seq(Snapshot)]
    BY ZenonT(40) DEF AdminTypeOK, Snapshot
  <2> QED
    BY <1>2, <1>4, <2>1, AppendTyped
<1>8. audits' \in [Id -> Seq(Entry)]
  <2>1. audits \in [Id -> Seq(Entry)]
    BY ZenonT(40) DEF AdminTypeOK, Entry
  <2> QED
    BY <1>3, <1>5, <2>1, AppendTyped
<1> QED
  BY <1>6, <1>7, <1>8

\* So does deleting one.
LEMMA DeleteTyped ==
  ASSUME AdminTypeOK, NEW i \in Id, DeletePolicy(i)
  PROVE  /\ policies' \in [Id -> Policy \union {Absent}]
         /\ versions' = versions
         /\ audits' \in [Id -> Seq(Entry)]
<1>1. [action |-> "delete", old |-> policies[i], new |-> Absent] \in Entry
  BY DEF AdminTypeOK, Entry
<1>2. audits' = [audits EXCEPT ![i] =
                   Append(@, [action |-> "delete", old |-> policies[i], new |-> Absent])]
  BY DEF DeletePolicy, Audited
<1>3. audits' \in [Id -> Seq(Entry)]
  <2>1. audits \in [Id -> Seq(Entry)]
    BY ZenonT(40) DEF AdminTypeOK, Entry
  <2> QED
    BY <1>1, <1>2, <2>1, AppendTyped
<1>4. policies' \in [Id -> Policy \union {Absent}] /\ versions' = versions
  BY DEF AdminTypeOK, DeletePolicy
<1> QED
  BY <1>3, <1>4

\* The locals of the handlers, whose typing is the rest of AdminTypeOK.
LocalOK ==
  /\ stage \in [AdminHandler -> {"idle", "rollout", "rollback"}]
  /\ target \in [AdminHandler -> Id \union {Absent}]
  /\ draft \in [AdminHandler -> Policy \union {Absent}]
  /\ \A h \in AdminHandler : stage[h] # "idle" => target[h] \in Id /\ draft[h] \in Policy

\* A request that has read a policy holds one to store.
LEMMA PreparedTyped ==
  ASSUME AdminTypeOK, NEW h \in AdminHandler, NEW to \in {"rollout", "rollback"},
         NEW i \in Id, NEW p \in Policy, Prepared(h, to, i, p)
  PROVE  AdminTypeOK'
<1>1. LocalOK'
  BY DEF AdminTypeOK, LocalOK, Prepared
<1>2. UNCHANGED file
  BY DEF Prepared
<1> QED
  BY ZenonT(40), <1>1, <1>2 DEF AdminTypeOK, LocalOK, file

\* A handler that returns holds nothing.
LEMMA ReturnTyped ==
  ASSUME AdminTypeOK, NEW h \in AdminHandler,
         stage' = [stage EXCEPT ![h] = "idle"],
         target' = [target EXCEPT ![h] = Absent],
         draft' = [draft EXCEPT ![h] = Absent]
  PROVE  LocalOK'
BY DEF AdminTypeOK, LocalOK

\* What a rollout stores is a policy.
LEMMA RolloutTyped ==
  ASSUME AdminTypeOK, NEW i \in Id, NEW r \in Rollout, policies[i] # Absent
  PROVE  [policies[i] EXCEPT !.rollout = r] \in Policy
<1>1. policies[i] \in Policy
  BY DEF AdminTypeOK
<1> QED
  BY <1>1 DEF Policy

\* The version selected for a rollback is one of the policy's versions.
LEMMA SelectedExists ==
  ASSUME AdminTypeOK, NEW i \in Id, NEW number \in Nat,
         NEW k \in selectVersionForRollback(i, number)
  PROVE  k \in DOMAIN versions[i] /\ versions[i][k].snapshot \in Policy
<1>1. versions[i] \in Seq(Snapshot)
  BY ZenonT(40) DEF AdminTypeOK, Snapshot
<1>2. k \in 1 .. Len(versions[i])
  BY <1>1 DEF selectVersionForRollback
<1>3. versions[i][k] \in Snapshot
  BY <1>1, <1>2, ElementTyped
<1> QED
  BY <1>1, <1>2, <1>3 DEF Snapshot

\* Types, for any number of handlers, policies and changes.
THEOREM AdminTypeCorrect == AdminSpec => []AdminTypeOK
<1>1. AdminInit => AdminTypeOK
  <2> SUFFICES ASSUME AdminInit PROVE AdminTypeOK
    OBVIOUS
  <2>1. versions \in [Id -> Seq(Snapshot)] /\ audits \in [Id -> Seq(Entry)]
    BY DEF AdminInit
  <2>2. LocalOK /\ policies \in [Id -> Policy \union {Absent}]
    BY DEF AdminInit, LocalOK
  <2> QED
    BY ZenonT(40), <2>1, <2>2 DEF AdminTypeOK, LocalOK, Snapshot, Entry
<1>2. AdminTypeOK /\ [AdminNext]_adminVars => AdminTypeOK'
  <2> SUFFICES ASSUME AdminTypeOK, [AdminNext]_adminVars PROVE AdminTypeOK'
    OBVIOUS
  <2>1. ASSUME NEW h \in AdminHandler, NEW from \in {"rollout", "rollback"}, Finish(h, from)
        PROVE  AdminTypeOK'
    <3>1. target[h] \in Id /\ draft[h] \in Policy
      BY <2>1 DEF Finish, AdminTypeOK
    <3>2. UpsertPolicy(target[h], draft[h])
      BY <2>1 DEF Finish
    <3>3. LocalOK'
      BY ZenonT(40), <2>1, ReturnTyped DEF Finish
    <3> QED
      BY ZenonT(40), <3>1, <3>2, <3>3, UpsertTyped DEF AdminTypeOK, LocalOK, Snapshot, Entry
  <2>2. ASSUME NEW h \in AdminHandler, Fails(h)
        PROVE  AdminTypeOK'
    <3>1. LocalOK' /\ UNCHANGED file
      BY ZenonT(40), <2>2, ReturnTyped DEF Fails
    <3> QED
      BY ZenonT(40), <3>1 DEF AdminTypeOK, LocalOK, file
  <2>3. ASSUME NEW h \in AdminHandler, NEW i \in Id, HandleDelete(h, i)
        PROVE  AdminTypeOK'
    <3>1. DeletePolicy(i) /\ UNCHANGED request
      BY <2>3 DEF HandleDelete
    <3> QED
      BY ZenonT(40), <3>1, DeleteTyped DEF AdminTypeOK, request, Entry
  <2>4. ASSUME NEW h \in AdminHandler, NEW i \in Id, NEW p \in Policy, HandlePut(h, i, p)
        PROVE  AdminTypeOK'
    <3>1. UpsertPolicy(i, p) /\ UNCHANGED request
      BY <2>4 DEF HandlePut
    <3> QED
      BY ZenonT(40), <3>1, UpsertTyped DEF AdminTypeOK, request, Snapshot, Entry
  <2>5. ASSUME NEW h \in AdminHandler, NEW i \in Id, NEW r \in Rollout, RolloutGet(h, i, r)
        PROVE  AdminTypeOK'
    BY <2>5, RolloutTyped, PreparedTyped DEF RolloutGet
  <2>6. ASSUME NEW h \in AdminHandler, NEW i \in Id, NEW number \in 0 .. MaxAudits,
               RollbackList(h, i, number)
        PROVE  AdminTypeOK'
    <3>1. number \in Nat
      BY AdminAssumption
    <3>2. PICK k \in selectVersionForRollback(i, number) :
            Prepared(h, "rollback", i, versions[i][k].snapshot)
      BY <2>6 DEF RollbackList
    <3> QED
      BY <3>1, <3>2, SelectedExists, PreparedTyped
  <2>7. CASE UNCHANGED adminVars
    BY ZenonT(40), <2>7 DEF AdminTypeOK, adminVars, file, request
  <2> QED
    BY <2>1, <2>2, <2>3, <2>4, <2>5, <2>6, <2>7 DEF AdminNext
<1> QED
  BY <1>1, <1>2, PTL DEF AdminSpec

-----------------------------------------------------------------------------

\* The audit trail of one policy has no gap.
Gapless(i) ==
  /\ \A k \in 1 .. Len(audits[i]) - 1 : audits[i][k + 1].old = audits[i][k].new
  /\ audits[i] # << >> => audits[i][Len(audits[i])].new = policies[i]

\* An audited change, whatever it stores, leaves every trail gapless.
LEMMA AuditedGapless ==
  ASSUME AdminTypeOK, AuditTrail, NEW i \in Id, NEW action, NEW new,
         Audited(i, action, new), policies' = [policies EXCEPT ![i] = new]
  PROVE  AuditTrail'
<1> SUFFICES ASSUME NEW j \in Id PROVE Gapless(j)'
  BY ZenonT(40) DEF AuditTrail, Gapless
<1> DEFINE e == [action |-> action, old |-> policies[i], new |-> new]
<1>1. Gapless(j)
  BY DEF AuditTrail, Gapless
<1>2. audits \in [Id -> Seq(Entry)] /\ policies \in [Id -> Policy \union {Absent}]
  BY ZenonT(40) DEF AdminTypeOK, Entry
<1>3. audits' = [audits EXCEPT ![i] = Append(@, e)]
  BY DEF Audited
<1>4. CASE j # i
  BY <1>1, <1>2, <1>3, <1>4 DEF Gapless
<1>5. CASE j = i
  <2> DEFINE n == Len(audits[i])
  <2>1. audits[i] \in Seq(Entry) /\ n \in Nat
    BY <1>2
  <2>2. audits'[i] = Append(audits[i], e) /\ policies'[i] = new
    BY <1>2, <1>3
  <2>3. /\ Len(audits'[i]) = n + 1
        /\ audits'[i][n + 1] = e
        /\ \A k \in 1 .. n : audits'[i][k] = audits[i][k]
    BY <2>1, <2>2
  <2>4. e.old = policies[i] /\ e.new = new
    OBVIOUS
  <2> HIDE DEF e
  <2>5. ASSUME NEW k \in 1 .. n PROVE audits'[i][k + 1].old = audits'[i][k].new
    <3>1. CASE k < n
      <4>1. k \in 1 .. n - 1 /\ k + 1 \in 1 .. n
        BY <2>1, <3>1
      <4>2. audits[i][k + 1].old = audits[i][k].new
        BY <1>1, <1>5, <4>1 DEF Gapless
      <4>3. audits'[i][k + 1] = audits[i][k + 1] /\ audits'[i][k] = audits[i][k]
        BY <2>3, <4>1
      <4> QED
        BY <4>2, <4>3
    <3>2. CASE k = n
      <4>1. audits[i] # << >>
        BY <2>1, <3>2
      <4> QED
        BY <1>1, <1>5, <2>1, <2>3, <2>4, <3>2, <4>1 DEF Gapless
    <3> QED
      BY <2>1, <3>1, <3>2
  <2> QED
    BY <1>5, <2>1, <2>2, <2>3, <2>4, <2>5 DEF Gapless
<1> QED
  BY <1>4, <1>5

\* No request, and no interleaving of requests, leaves a gap in the audit
\* trail of a policy: UpsertPolicy and DeletePolicy record what they replace.
THEOREM AuditTrailKept == AdminSpec => []AuditTrail
<1>1. AdminInit => AuditTrail
  BY DEF AdminInit, AuditTrail
<1>2. AdminTypeOK /\ AuditTrail /\ [AdminNext]_adminVars => AuditTrail'
  <2> SUFFICES ASSUME AdminTypeOK, AuditTrail, [AdminNext]_adminVars PROVE AuditTrail'
    OBVIOUS
  <2>1. ASSUME NEW h \in AdminHandler, NEW from, Finish(h, from), from # "idle"
        PROVE  AuditTrail'
    <3>1. target[h] \in Id
      BY <2>1 DEF Finish, AdminTypeOK
    <3> QED
      BY ZenonT(40), <2>1, <3>1, AuditedGapless DEF Finish, UpsertPolicy
  <2>2. ASSUME NEW h \in AdminHandler, NEW i \in Id, HandleDelete(h, i)
        PROVE  AuditTrail'
    BY ZenonT(40), <2>2, AuditedGapless DEF HandleDelete, DeletePolicy
  <2>3. ASSUME NEW h \in AdminHandler, NEW i \in Id, NEW p \in Policy, HandlePut(h, i, p)
        PROVE  AuditTrail'
    BY ZenonT(40), <2>3, AuditedGapless DEF HandlePut, UpsertPolicy
  <2>4. CASE UNCHANGED file
    BY <2>4 DEF AuditTrail, file
  <2> QED
    BY <2>1, <2>2, <2>3, <2>4
       DEF AdminNext, Fails, RolloutGet, RollbackList, Prepared, adminVars
<1> QED
  BY <1>1, <1>2, AdminTypeCorrect, PTL DEF AdminSpec

-----------------------------------------------------------------------------

\* Versions are append-only.
LEMMA VersionsGrow ==
  ASSUME AdminTypeOK, NEW i \in Id, NEW p \in Policy, UpsertPolicy(i, p), NEW j \in Id,
         NEW k \in DOMAIN versions[j]
  PROVE  k \in DOMAIN versions'[j] /\ versions'[j][k] = versions[j][k]
<1> DEFINE number == IF versions[i] = << >> THEN 1
                     ELSE versions[i][Len(versions[i])].version + 1
<1> DEFINE v == [version |-> number, snapshot |-> p]
<1>1. versions \in [Id -> Seq(Snapshot)]
  BY ZenonT(40) DEF AdminTypeOK, Snapshot
<1>2. versions' = [versions EXCEPT ![i] = Append(@, v)]
  BY DEF UpsertPolicy
<1> HIDE DEF v
<1>3. CASE j # i
  BY <1>1, <1>2, <1>3
<1>4. CASE j = i
  <2>1. versions[i] \in Seq(Snapshot) /\ versions'[i] = Append(versions[i], v)
    BY <1>1, <1>2
  <2> QED
    BY <1>4, <2>1
<1> QED
  BY <1>3, <1>4

\* A rollback stores a version of its policy, however long other requests
\* held it up: versions are never changed or removed.
THEOREM RollbackIsToAVersion == AdminSpec => []RollbackRestores
<1>1. AdminInit => RollbackRestores
  BY DEF AdminInit, RollbackRestores
<1>2. AdminTypeOK /\ RollbackRestores /\ [AdminNext]_adminVars => RollbackRestores'
  <2> SUFFICES ASSUME AdminTypeOK, RollbackRestores, [AdminNext]_adminVars, NEW g \in AdminHandler,
                      stage'[g] = "rollback"
               PROVE  \E k \in DOMAIN versions'[target'[g]] :
                        versions'[target'[g]][k].snapshot = draft'[g]
    BY DEF RollbackRestores
  <2>1. ASSUME NEW i \in Id, NEW p \in Policy, UpsertPolicy(i, p),
               stage[g] = "rollback", target'[g] = target[g], draft'[g] = draft[g]
        PROVE  \E k \in DOMAIN versions'[target'[g]] :
                 versions'[target'[g]][k].snapshot = draft'[g]
    <3>1. target[g] \in Id
      BY <2>1 DEF AdminTypeOK
    <3>2. PICK k \in DOMAIN versions[target[g]] : versions[target[g]][k].snapshot = draft[g]
      BY <2>1 DEF RollbackRestores
    <3> QED
      BY <2>1, <3>1, <3>2, VersionsGrow
  <2>2. ASSUME NEW h \in AdminHandler, NEW from \in {"rollout", "rollback"}, Finish(h, from)
        PROVE  \E k \in DOMAIN versions'[target'[g]] :
                 versions'[target'[g]][k].snapshot = draft'[g]
    <3>1. target[h] \in Id /\ draft[h] \in Policy /\ UpsertPolicy(target[h], draft[h])
      BY <2>2 DEF Finish, AdminTypeOK
    <3>2. g # h /\ stage[g] = "rollback" /\ target'[g] = target[g] /\ draft'[g] = draft[g]
      BY <2>2 DEF Finish, AdminTypeOK
    <3> QED
      BY <2>1, <3>1, <3>2
  <2>3. ASSUME NEW h \in AdminHandler, NEW i \in Id, NEW p \in Policy, HandlePut(h, i, p)
        PROVE  \E k \in DOMAIN versions'[target'[g]] :
                 versions'[target'[g]][k].snapshot = draft'[g]
    BY <2>1, <2>3 DEF HandlePut, request
  <2>4. ASSUME NEW h \in AdminHandler, NEW i \in Id, HandleDelete(h, i)
        PROVE  \E k \in DOMAIN versions'[target'[g]] :
                 versions'[target'[g]][k].snapshot = draft'[g]
    BY <2>4 DEF HandleDelete, DeletePolicy, request, RollbackRestores
  <2>5. ASSUME NEW h \in AdminHandler, Fails(h)
        PROVE  \E k \in DOMAIN versions'[target'[g]] :
                 versions'[target'[g]][k].snapshot = draft'[g]
    BY ZenonT(40), <2>5 DEF Fails, file, AdminTypeOK, RollbackRestores
  <2>6. ASSUME NEW h \in AdminHandler, NEW i \in Id, NEW r \in Rollout, RolloutGet(h, i, r)
        PROVE  \E k \in DOMAIN versions'[target'[g]] :
                 versions'[target'[g]][k].snapshot = draft'[g]
    BY ZenonT(40), <2>6 DEF RolloutGet, Prepared, file, AdminTypeOK, RollbackRestores
  <2>7. ASSUME NEW h \in AdminHandler, NEW i \in Id, NEW number \in 0 .. MaxAudits,
               RollbackList(h, i, number)
        PROVE  \E k \in DOMAIN versions'[target'[g]] :
                 versions'[target'[g]][k].snapshot = draft'[g]
    <3>1. number \in Nat
      BY AdminAssumption
    <3>2. PICK k \in selectVersionForRollback(i, number) :
            Prepared(h, "rollback", i, versions[i][k].snapshot)
      BY <2>7 DEF RollbackList
    <3>3. k \in DOMAIN versions[i]
      BY <3>1, <3>2, SelectedExists
    <3>4. CASE g = h
      BY <3>2, <3>3, <3>4 DEF Prepared, file, AdminTypeOK
    <3>5. CASE g # h
      BY ZenonT(40), <3>2, <3>5 DEF Prepared, file, AdminTypeOK, RollbackRestores
    <3> QED
      BY <3>4, <3>5
  <2>8. CASE UNCHANGED adminVars
    BY <2>8 DEF adminVars, file, request, RollbackRestores
  <2> QED
    BY <2>2, <2>3, <2>4, <2>5, <2>6, <2>7, <2>8 DEF AdminNext
<1> QED
  BY <1>1, <1>2, AdminTypeCorrect, PTL DEF AdminSpec

-----------------------------------------------------------------------------

\* Versions are numbered by their place.  This is what lets UpsertPolicy take
\* the number of the last one for their count.
Numbered == \A i \in Id : \A k \in DOMAIN versions[i] : versions[i][k].version = k

\* The version that an upsert adds to a policy's versions.
LEMMA VersionAdded ==
  ASSUME AdminTypeOK, Numbered, NEW i \in Id, NEW p \in Policy, UpsertPolicy(i, p)
  PROVE  versions' = [versions EXCEPT ![i] =
                        Append(@, [version |-> Len(versions[i]) + 1, snapshot |-> p])]
<1>1. versions[i] \in Seq(Snapshot)
  BY ZenonT(40) DEF AdminTypeOK, Snapshot
<1>2. versions[i] # << >> => versions[i][Len(versions[i])].version = Len(versions[i])
  BY <1>1 DEF Numbered
<1>3. Len(versions[i]) + 1 = IF versions[i] = << >> THEN 1
                             ELSE versions[i][Len(versions[i])].version + 1
  BY <1>1, <1>2
<1> QED
  BY ZenonT(40), <1>3 DEF UpsertPolicy

\* How many upserts there are among the changes, before and after a new one.
LEMMA UpsertsCounted ==
  ASSUME AdminTypeOK, NEW i \in Id, NEW n \in Nat
  PROVE  /\ IsFiniteSet(Upserts(i, n)) /\ Cardinality(Upserts(i, n)) \in Nat
         /\ \A k \in Upserts(i, n) :
              Cardinality(Upserts(i, k)) \in 1 .. Cardinality(Upserts(i, n))
<1>1. ASSUME NEW m \in Nat
      PROVE  IsFiniteSet(Upserts(i, m)) /\ Cardinality(Upserts(i, m)) \in Nat
  <2>1. IsFiniteSet(1..m)
    BY CardInterval
  <2>2. Upserts(i, m) \in SUBSET (1..m)
    BY DEF Upserts
  <2>3. IsFiniteSet(Upserts(i, m))
    BY <2>1, <2>2, CardSubset
  <2> QED
    BY <2>3, CardType
<1>2. ASSUME NEW k \in Upserts(i, n)
      PROVE  Cardinality(Upserts(i, k)) \in 1 .. Cardinality(Upserts(i, n))
  <2>1. k \in Nat /\ k \in Upserts(i, k) /\ Upserts(i, k) \in SUBSET Upserts(i, n)
    BY DEF Upserts
  <2>2. Cardinality(Upserts(i, k)) <= Cardinality(Upserts(i, n))
    BY <1>1, <2>1, CardSubset
  <2>3. Cardinality(Upserts(i, k)) # 0
    BY <1>1, <2>1, CardEmpty
  <2> QED
    BY <1>1, <2>1, <2>2, <2>3
<1> QED
  BY <1>1, <1>2

\* The change number n + 1 of a policy is audited as e.
Appended(i, e, n) ==
  /\ n = Len(audits[i])
  /\ audits' = [audits EXCEPT ![i] = Append(@, e)]

\* An entry appended to one history leaves the others alone.
LEMMA EntryAppended ==
  ASSUME AdminTypeOK, NEW i \in Id, NEW action, NEW new, Audited(i, action, new)
  PROVE  \E n, e : n \in Nat /\ Appended(i, e, n) /\ e.action = action /\ e.new = new
<1> DEFINE e == [action |-> action, old |-> policies[i], new |-> new]
<1>1. Appended(i, e, Len(audits[i]))
  BY DEF Appended, Audited
<1>2. e.action = action /\ e.new = new /\ Len(audits[i]) \in Nat
  BY DEF AdminTypeOK
<1> HIDE DEF e
<1> QED
  BY <1>1, <1>2

\* An audited change leaves the ranks of the earlier upserts alone, and an upsert
\* comes last.
LEMMA RanksKept ==
  ASSUME AdminTypeOK, NEW i \in Id, NEW e, NEW n \in Nat, Appended(i, e, n)
  PROVE  /\ \A j \in Id \ {i} : /\ audits'[j] = audits[j]
                                /\ \A k \in Nat : Upserts(j, k)' = Upserts(j, k)
         /\ Len(audits'[i]) = n + 1
         /\ audits'[i][n + 1] = e
         /\ \A k \in 1..n : audits'[i][k] = audits[i][k] /\ Upserts(i, k)' = Upserts(i, k)
         /\ e.action = "upsert" => Upserts(i, n + 1)' = Upserts(i, n) \union {n + 1}
         /\ e.action # "upsert" => Upserts(i, n + 1)' = Upserts(i, n)
<1>1. audits \in [Id -> Seq(Entry)] /\ audits[i] \in Seq(Entry) /\ n = Len(audits[i])
  <2>1. audits \in [Id -> Seq(Entry)]
    BY ZenonT(40) DEF AdminTypeOK, Entry
  <2> QED
    BY <2>1 DEF Appended
<1>2. audits'[i] = Append(audits[i], e) /\ \A j \in Id \ {i} : audits'[j] = audits[j]
  BY <1>1 DEF Appended
<1>3. /\ Len(audits'[i]) = n + 1 /\ audits'[i][n + 1] = e
      /\ \A k \in 1..n : audits'[i][k] = audits[i][k]
  BY <1>1, <1>2
<1>4. ASSUME NEW k \in 1..n PROVE Upserts(i, k)' = Upserts(i, k)
  <2>1. \A m \in 1..k : m \in 1..n
    OBVIOUS
  <2> QED
    BY <1>3, <2>1 DEF Upserts
<1>5. /\ e.action = "upsert" => Upserts(i, n + 1)' = Upserts(i, n) \union {n + 1}
      /\ e.action # "upsert" => Upserts(i, n + 1)' = Upserts(i, n)
  <2>1. \A k : k \in Upserts(i, n + 1)' <=> k \in 1 .. n + 1 /\ audits'[i][k].action = "upsert"
    BY DEF Upserts
  <2>2. \A k : k \in Upserts(i, n) <=> k \in 1..n /\ audits[i][k].action = "upsert"
    BY DEF Upserts
  <2>3. \A k : k \in 1 .. n + 1 <=> k \in 1..n \/ k = n + 1
    OBVIOUS
  <2>4. n + 1 \notin 1..n
    OBVIOUS
  <2>5. \A k : k \in Upserts(i, n + 1)' <=>
                 k \in Upserts(i, n) \/ (k = n + 1 /\ e.action = "upsert")
    BY ZenonT(40), <1>3, <2>1, <2>2, <2>3, <2>4
  <2> QED
    BY <2>5
<1>6. \A j \in Id \ {i} : \A k \in Nat : Upserts(j, k)' = Upserts(j, k)
  BY <1>2 DEF Upserts
<1> QED
  BY <1>2, <1>3, <1>4, <1>5, <1>6

\* VersionsMatchAudits, for one policy.
Matches(i) ==
  /\ Len(versions[i]) = Cardinality(Upserts(i, Len(audits[i])))
  /\ \A k \in Upserts(i, Len(audits[i])) :
       versions[i][Cardinality(Upserts(i, k))] =
         [version |-> Cardinality(Upserts(i, k)), snapshot |-> audits[i][k].new]

\* A policy a step does not touch keeps its versions and audits.
LEMMA OthersMatch ==
  ASSUME AdminTypeOK, NEW i \in Id, NEW e, NEW n \in Nat, Appended(i, e, n),
         NEW j \in Id, j # i, Matches(j), versions'[j] = versions[j]
  PROVE  Matches(j)'
<1>1. Len(audits[j]) \in Nat
  BY DEF AdminTypeOK
<1>2. audits'[j] = audits[j] /\ \A k \in Nat : Upserts(j, k)' = Upserts(j, k)
  BY RanksKept
<1>3. \A k \in Upserts(j, Len(audits[j])) : k \in Nat
  BY <1>1 DEF Upserts
<1> QED
  BY <1>1, <1>2, <1>3 DEF Matches

\* An upsert records one version and one audit entry.
LEMMA UpsertMatches ==
  ASSUME AdminTypeOK, Numbered, VersionsMatchAudits, NEW i \in Id, NEW p \in Policy, UpsertPolicy(i, p)
  PROVE  Numbered' /\ VersionsMatchAudits'
<1>c. PICK c \in Nat : c = Len(versions[i])
  BY DEF AdminTypeOK
<1> DEFINE v == [version |-> c + 1, snapshot |-> p]
<1>1. versions \in [Id -> Seq(Snapshot)] /\ versions[i] \in Seq(Snapshot)
  <2>1. versions \in [Id -> Seq(Snapshot)]
    BY ZenonT(40) DEF AdminTypeOK, Snapshot
  <2> QED
    BY <2>1
<1>2. versions' = [versions EXCEPT ![i] = Append(@, v)]
  BY <1>c, VersionAdded
<1>3. v.version = c + 1
  OBVIOUS
<1>4. PICK n, e : n \in Nat /\ Appended(i, e, n) /\ e.action = "upsert" /\ e.new = p
  BY EntryAppended DEF UpsertPolicy
<1>5. \A j \in Id : Matches(j)
  BY DEF VersionsMatchAudits, Matches
<1> HIDE DEF v
<1>6. /\ versions'[i] = Append(versions[i], v)
      /\ \A j \in Id : j # i => versions'[j] = versions[j]
  BY <1>1, <1>2
<1>7. /\ DOMAIN versions'[i] = 1 .. c + 1 /\ Len(versions'[i]) = c + 1
      /\ versions'[i][c + 1] = v
      /\ DOMAIN versions[i] = 1..c
      /\ \A k \in 1..c : versions'[i][k] = versions[i][k]
  BY <1>1, <1>c, <1>6
<1>8. Numbered'
  <2>1. \A k \in 1 .. c + 1 : k = c + 1 \/ k \in 1..c
    BY <1>1
  <2>2. \A k \in 1..c : versions[i][k].version = k
    BY <1>7 DEF Numbered
  <2>3. \A k \in DOMAIN versions'[i] : versions'[i][k].version = k
    BY <1>3, <1>7, <2>1, <2>2
  <2> QED
    BY <1>6, <2>3 DEF Numbered
<1>9. Matches(i)'
  <2>1. /\ Len(audits'[i]) = n + 1 /\ audits'[i][n + 1].new = p
        /\ \A k \in 1..n : audits'[i][k] = audits[i][k] /\ Upserts(i, k)' = Upserts(i, k)
        /\ Upserts(i, n + 1)' = Upserts(i, n) \union {n + 1}
    <3>1. audits'[i][n + 1] = e
      BY <1>4, RanksKept
    <3>2. /\ Len(audits'[i]) = n + 1
          /\ \A k \in 1..n : audits'[i][k] = audits[i][k] /\ Upserts(i, k)' = Upserts(i, k)
      BY <1>4, RanksKept
    <3>3. Upserts(i, n + 1)' = Upserts(i, n) \union {n + 1}
      BY <1>4, RanksKept
    <3> QED
      BY <1>4, <3>1, <3>2, <3>3
  <2>2. c = Cardinality(Upserts(i, n)) /\ Upserts(i, n) \subseteq 1..n
    BY <1>c, <1>4, <1>5 DEF Matches, Upserts, Appended
  <2>3. Cardinality(Upserts(i, n + 1)') = c + 1
    <3>1. IsFiniteSet(Upserts(i, n)) /\ n + 1 \notin Upserts(i, n)
      BY <1>1, <1>4, <2>2, UpsertsCounted
    <3> QED
      BY <2>1, <2>2, <3>1, CardAdd
  <2>4. ASSUME NEW k \in Upserts(i, n)
        PROVE  versions'[i][Cardinality(Upserts(i, k)')] =
                 [version |-> Cardinality(Upserts(i, k)'), snapshot |-> audits'[i][k].new]
    <3>1. k \in 1..n /\ Cardinality(Upserts(i, k)) \in 1..c
      BY <1>1, <1>4, <2>2, UpsertsCounted
    <3> QED
      BY <1>4, <1>5, <1>7, <2>1, <3>1 DEF Matches, Appended
  <2>5. versions'[i][c + 1] = [version |-> c + 1, snapshot |-> p]
    BY <1>7 DEF v
  <2>6. ASSUME NEW k \in Upserts(i, n + 1)'
        PROVE  versions'[i][Cardinality(Upserts(i, k)')] =
                 [version |-> Cardinality(Upserts(i, k)'), snapshot |-> audits'[i][k].new]
    BY <2>1, <2>3, <2>4, <2>5
  <2> QED
    BY <1>7, <2>1, <2>3, <2>6 DEF Matches
<1>10. \A j \in Id : Matches(j)'
  BY <1>4, <1>5, <1>6, <1>9, OthersMatch
<1> QED
  BY <1>8, <1>10 DEF VersionsMatchAudits, Matches

\* A delete is audited and makes no version.
LEMMA DeleteMatches ==
  ASSUME AdminTypeOK, Numbered, VersionsMatchAudits, NEW i \in Id, DeletePolicy(i)
  PROVE  Numbered' /\ VersionsMatchAudits'
<1>1. PICK n, e : n \in Nat /\ Appended(i, e, n) /\ e.action = "delete"
  BY EntryAppended DEF DeletePolicy
<1>2. \A j \in Id : Matches(j)
  BY DEF VersionsMatchAudits, Matches
<1>3. Matches(i)'
  <2>1. /\ Len(audits'[i]) = n + 1
        /\ \A k \in 1..n : audits'[i][k] = audits[i][k] /\ Upserts(i, k)' = Upserts(i, k)
        /\ Upserts(i, n + 1)' = Upserts(i, n)
    BY <1>1, RanksKept
  <2>2. Upserts(i, n) \subseteq 1..n
    BY DEF Upserts
  <2>3. /\ Len(versions[i]) = Cardinality(Upserts(i, n))
        /\ \A k \in Upserts(i, n) :
             versions[i][Cardinality(Upserts(i, k))] =
               [version |-> Cardinality(Upserts(i, k)), snapshot |-> audits[i][k].new]
    BY ZenonT(40), <1>1, <1>2 DEF Matches, Appended
  <2>4. versions' = versions
    BY DEF DeletePolicy
  <2> QED
    BY ZenonT(40), <2>1, <2>2, <2>3, <2>4 DEF Matches
<1>4. \A j \in Id : Matches(j)'
  BY <1>1, <1>2, <1>3, OthersMatch DEF DeletePolicy
<1> QED
  BY <1>4 DEF VersionsMatchAudits, Matches, Numbered, DeletePolicy

\* The versions are what the audited upserts stored, in their order and numbered
\* from 1, for any number of handlers, policies, changes, deletions and failures
\* (store.go:97-105).
THEOREM VersionsAudited == AdminSpec => []VersionsMatchAudits
<1>1. AdminInit => Numbered /\ VersionsMatchAudits
  <2> SUFFICES ASSUME AdminInit, NEW i \in Id
               PROVE  /\ \A k \in DOMAIN versions[i] : versions[i][k].version = k
                      /\ Matches(i)
    BY DEF Numbered, VersionsMatchAudits, Matches
  <2>1. versions[i] = << >> /\ audits[i] = << >>
    BY DEF AdminInit
  <2>2. Upserts(i, 0) = {} /\ Len(audits[i]) = 0 /\ Len(versions[i]) = 0
    BY <2>1 DEF Upserts
  <2>3. Cardinality({}) = 0
    BY CardEmpty
  <2>4. DOMAIN versions[i] = {}
    BY <2>1
  <2> QED
    BY ZenonT(40), <2>2, <2>3, <2>4 DEF Matches
<1>2. AdminTypeOK /\ Numbered /\ VersionsMatchAudits /\ [AdminNext]_adminVars => Numbered' /\ VersionsMatchAudits'
  <2> SUFFICES ASSUME AdminTypeOK, Numbered, VersionsMatchAudits, [AdminNext]_adminVars
               PROVE  Numbered' /\ VersionsMatchAudits'
    OBVIOUS
  <2>1. ASSUME NEW h \in AdminHandler, NEW from, Finish(h, from), from # "idle"
        PROVE  Numbered' /\ VersionsMatchAudits'
    <3>1. target[h] \in Id /\ draft[h] \in Policy
      BY <2>1 DEF Finish, AdminTypeOK
    <3> QED
      BY <2>1, <3>1, UpsertMatches DEF Finish
  <2>2. ASSUME NEW h \in AdminHandler, NEW i \in Id, HandleDelete(h, i)
        PROVE  Numbered' /\ VersionsMatchAudits'
    BY <2>2, DeleteMatches DEF HandleDelete
  <2>3. ASSUME NEW h \in AdminHandler, NEW i \in Id, NEW p \in Policy, HandlePut(h, i, p)
        PROVE  Numbered' /\ VersionsMatchAudits'
    BY <2>3, UpsertMatches DEF HandlePut
  <2>4. CASE UNCHANGED file
    BY <2>4 DEF Numbered, VersionsMatchAudits, Upserts, file
  <2> QED
    BY <2>1, <2>2, <2>3, <2>4
       DEF AdminNext, Fails, RolloutGet, RollbackList, Prepared, adminVars
<1> QED
  BY <1>1, <1>2, AdminTypeCorrect, PTL DEF AdminSpec
=============================================================================
