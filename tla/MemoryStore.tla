----------------------------- MODULE MemoryStore -----------------------------
(***************************************************************************)
(* The in-process counter store, internal/store/counter/memory/store.go.   *)
(* Every operation holds the lock of its key's shard from start to end, so *)
(* it is one step.  The background sweep reads the clock once and then     *)
(* locks one shard after the other: operations and the passing of time     *)
(* interleave with it, and it works on with the instant it read.           *)
(*                                                                         *)
(* reply is the value the last reading operation returned.                 *)
(***************************************************************************)
EXTENDS CounterItems

CONSTANTS Key, Shard, shardFor,  \* shardFor[k] is the shard of key k
          Amount,                \* values written or added
          TTL,                   \* ttl arguments, 0 for "none"
          Limit, Cost,           \* limit and cost arguments
          Instant,               \* instants a log entry may carry
          MaxTime, MaxValue      \* bounds of the clock, and of a counter or a log

ASSUME StoreAssumption ==
  /\ shardFor \in [Key -> Shard]
  /\ Amount \subseteq Int /\ TTL \subseteq Nat
  /\ Limit \subseteq Int /\ Cost \subseteq Nat \ {0}
  /\ Instant \subseteq Nat
  /\ MaxTime \in Nat /\ MaxValue \in Nat

VARIABLES now, values, leases, timestamps, tsExpiry, reply,
          gc, sweepNow, unswept

data == <<values, leases, timestamps, tsExpiry>>
sweeper == <<gc, sweepNow, unswept>>
vars == <<now, data, reply, sweeper>>

NoReply == -1

Init ==
  /\ now = 1
  /\ values = [k \in Key |-> ZeroItem]
  /\ leases = [k \in Key |-> ZeroItem]
  /\ timestamps = [k \in Key |-> EmptyLog(Instant)]
  /\ tsExpiry = [k \in Key |-> NoExpiry]
  /\ reply = NoReply
  /\ gc = "idle" /\ sweepNow = 0 /\ unswept = {}

Tick ==
  /\ now < MaxTime
  /\ now' = now + 1
  /\ UNCHANGED <<data, reply, sweeper>>

-----------------------------------------------------------------------------
(* Counters *)

Increment(k, v, ttl) ==
  LET it == Live(values[k], now)
  IN  /\ it.value + v <= MaxValue
      /\ values' = [values EXCEPT ![k] = Written(it, it.value + v, ttl, now)]
      /\ reply' = it.value + v
      /\ UNCHANGED <<now, leases, timestamps, tsExpiry, sweeper>>

Get(k) ==
  /\ values' = [values EXCEPT ![k] = Live(values[k], now)]
  /\ reply' = Live(values[k], now).value
  /\ UNCHANGED <<now, leases, timestamps, tsExpiry, sweeper>>

\* Set starts from a fresh item: without a ttl the old expiry is dropped.
Set(k, v, ttl) ==
  /\ values' = [values EXCEPT ![k] = Written(ZeroItem, v, ttl, now)]
  /\ reply' = NoReply
  /\ UNCHANGED <<now, leases, timestamps, tsExpiry, sweeper>>

CompareAndSwap(k, old, new, ttl) ==
  LET it == Live(values[k], now)
  IN  /\ values' = [values EXCEPT ![k] =
                      IF it.value = old THEN Written(it, new, ttl, now) ELSE it]
      /\ reply' = IF it.value = old THEN 1 ELSE 0
      /\ UNCHANGED <<now, leases, timestamps, tsExpiry, sweeper>>

Delete(k) ==
  /\ values' = [values EXCEPT ![k] = ZeroItem]
  /\ leases' = [leases EXCEPT ![k] = ZeroItem]
  /\ timestamps' = [timestamps EXCEPT ![k] = EmptyLog(Instant)]
  /\ tsExpiry' = [tsExpiry EXCEPT ![k] = NoExpiry]
  /\ reply' = NoReply
  /\ UNCHANGED <<now, sweeper>>

-----------------------------------------------------------------------------
(* Timestamp logs *)

\* Does not look at tsExpiry: entries of a log past its expiry that nobody
\* has removed yet come back to life with the new expiry.
AddTimestamp(k, ts, ttl) ==
  /\ CountFrom(timestamps[k], 0) < MaxValue
  /\ timestamps' = [timestamps EXCEPT ![k] = Added(@, ts, 1)]
  /\ tsExpiry' = [tsExpiry EXCEPT ![k] = IF ttl > 0 THEN now + ttl ELSE @]
  /\ reply' = NoReply
  /\ UNCHANGED <<now, values, leases, sweeper>>

\* cleanTSLocked: a log is dead from its expiry on, not strictly after it.
LogDead(k) == tsExpiry[k] # NoExpiry /\ now >= tsExpiry[k]

CountAfter(k, after) ==
  LET log == IF LogDead(k) THEN EmptyLog(Instant) ELSE timestamps[k]
  IN  /\ timestamps' = [timestamps EXCEPT ![k] = log]
      /\ tsExpiry' = [tsExpiry EXCEPT ![k] = IF LogDead(k) THEN NoExpiry ELSE @]
      /\ reply' = CountFrom(log, after)
      /\ UNCHANGED <<now, values, leases, sweeper>>

TrimBefore(k, before) ==
  /\ timestamps' = [timestamps EXCEPT ![k] = Trimmed(@, before)]
  /\ reply' = NoReply
  /\ UNCHANGED <<now, values, leases, tsExpiry, sweeper>>

CheckAndAddTimestamps(k, cutoff, limit, cost, ts, ttl) ==
  LET log   == Trimmed(timestamps[k], cutoff)
      count == CountFrom(log, cutoff)
      fits  == count + cost <= limit
  IN  /\ timestamps' = [timestamps EXCEPT ![k] =
                          IF fits THEN Added(log, ts, cost) ELSE log]
      /\ tsExpiry' = [tsExpiry EXCEPT ![k] =
                        IF fits /\ ttl > 0 THEN now + ttl ELSE @]
      /\ reply' = IF fits THEN 1 ELSE 0
      /\ UNCHANGED <<now, values, leases, sweeper>>

-----------------------------------------------------------------------------
(* Leases *)

AcquireLease(k, limit, ttl) ==
  LET it == Live(leases[k], now)
  IN  /\ limit > 0
      /\ IF it.value >= limit
         THEN /\ leases' = [leases EXCEPT ![k] = it]
              /\ reply' = 0
         ELSE /\ leases' = [leases EXCEPT ![k] = Written(it, it.value + 1, ttl, now)]
              /\ reply' = 1
      /\ UNCHANGED <<now, values, timestamps, tsExpiry, sweeper>>

\* The argument check, before any lock: the error leaves the store alone.
AcquireLeaseRefused(limit) ==
  /\ limit <= 0
  /\ reply' = NoReply
  /\ UNCHANGED <<now, data, sweeper>>

ReleaseLease(k) ==
  LET it == Live(leases[k], now)
  IN  /\ leases' = [leases EXCEPT ![k] =
                      IF it.value > 0 THEN [it EXCEPT !.value = @ - 1] ELSE it]
      /\ reply' = NoReply
      /\ UNCHANGED <<now, values, timestamps, tsExpiry, sweeper>>

-----------------------------------------------------------------------------
(* Background cleanup *)

\* Variant: the loop over the shards misses one of them.
SweepStart_off_by_one ==
  /\ gc \in {"idle", "stopping"} /\ unswept = {}
  /\ sweepNow' = now
  /\ unswept' = Shard \ {CHOOSE s \in Shard : TRUE}
  /\ UNCHANGED <<now, data, reply, gc>>

\* The ticker fires.  After Stop the select may still pick a pending tick.
SweepStart ==
  /\ gc \in {"idle", "stopping"} /\ unswept = {}
  /\ sweepNow' = now
  /\ unswept' = Shard
  /\ UNCHANGED <<now, data, reply, gc>>

\* Variant: removes an item at its expiry instead of strictly after it.
SweepShard_early(s) ==
  LET due(it)    == it.expiry # NoExpiry /\ sweepNow >= it.expiry
      dead(k)    == shardFor[k] = s /\ tsExpiry[k] # NoExpiry /\ sweepNow > tsExpiry[k]
      swept(map) == [k \in Key |-> IF shardFor[k] = s /\ due(map[k]) THEN ZeroItem
                                                                      ELSE map[k]]
  IN  /\ s \in unswept
      /\ values' = swept(values)
      /\ leases' = swept(leases)
      /\ timestamps' = [k \in Key |-> IF dead(k) THEN EmptyLog(Instant) ELSE timestamps[k]]
      /\ tsExpiry' = [k \in Key |-> IF dead(k) THEN NoExpiry ELSE tsExpiry[k]]
      /\ unswept' = unswept \ {s}
      /\ UNCHANGED <<now, reply, gc, sweepNow>>

SweepShard(s) ==
  LET dead(k)    == shardFor[k] = s /\ tsExpiry[k] # NoExpiry /\ sweepNow > tsExpiry[k]
      swept(map) == [k \in Key |-> IF shardFor[k] = s THEN Live(map[k], sweepNow)
                                                      ELSE map[k]]
  IN  /\ s \in unswept
      /\ values' = swept(values)
      /\ leases' = swept(leases)
      /\ timestamps' = [k \in Key |-> IF dead(k) THEN EmptyLog(Instant) ELSE timestamps[k]]
      /\ tsExpiry' = [k \in Key |-> IF dead(k) THEN NoExpiry ELSE tsExpiry[k]]
      /\ unswept' = unswept \ {s}
      /\ UNCHANGED <<now, reply, gc, sweepNow>>

Stop ==
  /\ gc = "idle"
  /\ gc' = "stopping"
  /\ UNCHANGED <<now, data, reply, sweepNow, unswept>>

GCExit ==
  /\ gc = "stopping" /\ unswept = {}
  /\ gc' = "stopped"
  /\ UNCHANGED <<now, data, reply, sweepNow, unswept>>

-----------------------------------------------------------------------------
CounterCall(k) ==
  \/ Get(k)
  \/ \E ttl \in TTL :
       \/ \E v \in Amount : Increment(k, v, ttl) \/ Set(k, v, ttl)
       \/ \E old, new \in Amount : CompareAndSwap(k, old, new, ttl)

LogCall(k) ==
  \/ \E t \in Instant : CountAfter(k, t) \/ TrimBefore(k, t)
  \/ \E ttl \in TTL :
       \/ \E ts \in Instant : AddTimestamp(k, ts, ttl)
       \/ \E cutoff, ts \in Instant, limit \in Limit, cost \in Cost :
            CheckAndAddTimestamps(k, cutoff, limit, cost, ts, ttl)

LeaseCall(k) ==
  \/ ReleaseLease(k)
  \/ \E ttl \in TTL, limit \in Limit : AcquireLease(k, limit, ttl)

Operation(k) == CounterCall(k) \/ LogCall(k) \/ LeaseCall(k) \/ Delete(k)

Sweep == SweepStart \/ \E s \in Shard : SweepShard(s)

Next ==
  \/ Tick \/ Stop \/ GCExit \/ Sweep
  \/ \E k \in Key : Operation(k)
  \/ \E limit \in Limit : AcquireLeaseRefused(limit)

Spec == Init /\ [][Next]_vars

-----------------------------------------------------------------------------
(* Properties *)

\* The maps hold well-formed items and logs, no lease count is negative, and
\* the sweep works with an instant that has already passed (store.go:285).
TypeOK ==
  /\ now \in Nat
  /\ values \in [Key -> Item]
  /\ leases \in [Key -> [value : Nat, expiry : Nat]]
  /\ timestamps \in [Key -> [Instant -> Nat]]
  /\ tsExpiry \in [Key -> Nat]
  /\ gc \in {"idle", "stopping", "stopped"}
  /\ sweepNow \in 0..now /\ unswept \subseteq Shard

\* What clients observe of the store is a store without any cleanup, in which
\* an item is gone from the first instant after its expiry on: neither the
\* lazy deletion of getValueLocked and getLeaseLocked nor a sweep that holds
\* an outdated clock value (store.go:285) ever shows in a reply.
Observed == INSTANCE TTLStore WITH
  values <- [k \in Key |-> Live(values[k], now)],
  leases <- [k \in Key |-> Live(leases[k], now)],
  Cutoff <- Instant, Lax <- FALSE

ImplementsTTLStore == Observed!Spec

\* An item past its expiry does not stay in memory: it is swept, or replaced
\* by a new write, unless the cleanup is stopped first (store.go:270-307).
ExpiredItemsGoAway ==
  \A k \in Key : Expired(values[k], now) \/ Expired(leases[k], now)
                   ~> \/ ~Expired(values[k], now) /\ ~Expired(leases[k], now)
                      \/ gc = "stopped"
=============================================================================
