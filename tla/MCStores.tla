------------------------------ MODULE MCStores ------------------------------
(***************************************************************************)
(* Small instances of the two counter stores, MemoryStore and RedisStore,  *)
(* for TLC.  The maps of a store share nothing but the clock, the sweep    *)
(* and Delete, so each behaviour is about calls of one kind to one store:  *)
(* use says which.  Logs are the largest data, so the calls on logs keep   *)
(* to LogKey; the calls to Redis are those of one goroutine on RedisKey,   *)
(* but for use = "breaker", where several goroutines only read.            *)
(***************************************************************************)
EXTENDS MemoryStore

CONSTANTS LogKey, RedisKey, RedisTTL, RedisMaxTime, Milli, Proc, NoProc, Threshold, MaxProbe

VARIABLES use,
          counters, slots, zsets, zexpiry, answer,
          state, failures, probeCount, waited, mu, pc, healthy

Redis == INSTANCE RedisStore WITH Key <- RedisKey, TTL <- RedisTTL, MaxTime <- RedisMaxTime

redisOnly == <<counters, slots, zsets, zexpiry, answer,
               state, failures, probeCount, waited, mu, pc, healthy>>
mcVars == <<vars, redisOnly, use>>

MCshardFor == [k \in Key |-> k]

MemoryUse == {"counters", "leases", "logs"}
RedisUse == {"redis counters", "redis leases", "redis logs", "breaker"}

MCInit ==
  /\ Init /\ Redis!Init
  /\ use \in MemoryUse \cup RedisUse
  /\ use \in MemoryUse => healthy

-----------------------------------------------------------------------------
Background ==
  \/ Tick \/ Stop \/ GCExit \/ Sweep
  \/ \E limit \in Limit : AcquireLeaseRefused(limit)

MemoryNext ==
  /\ \/ Background
     \/ use = "counters" /\ \E k \in Key : CounterCall(k) \/ Delete(k)
     \/ use = "leases" /\ \E k \in Key : LeaseCall(k) \/ Delete(k)
     \/ use = "logs" /\ \E k \in LogKey : LogCall(k) \/ Delete(k)
  /\ UNCHANGED <<redisOnly, use>>

\* The goroutines that call Redis.
Caller == IF use = "breaker" THEN Proc ELSE {CHOOSE p \in Proc : TRUE}

Command ==
  \E k \in RedisKey :
    \/ use = "redis counters" /\ Redis!CounterCall(k)
    \/ use = "redis leases" /\ Redis!LeaseCall(k)
    \/ use = "redis logs" /\ Redis!LogCall(k)
    \/ use = "breaker" /\ Redis!Get(k)

RedisNext ==
  /\ \/ \E p \in Caller : Redis!Guard(p) \/ Redis!Unreached(p) \/ Redis!Run(p, Command)
     \/ use # "breaker" /\ Redis!Tick
     \/ Redis!Environment
  /\ UNCHANGED <<data, reply, sweeper, use>>

MCNext ==
  \/ use \in MemoryUse /\ MemoryNext
  \/ use \in RedisUse /\ RedisNext

-----------------------------------------------------------------------------
\* The gcLoop goroutine keeps running until it is stopped.  Operations on
\* Redis keep coming and running, time passes, and sync.Mutex does not starve
\* a waiting goroutine.
MCSpec ==
  /\ MCInit /\ [][MCNext]_mcVars
  /\ WF_sweeper(use \in MemoryUse /\ SweepStart)
  /\ \A s \in Shard : WF_sweeper(use \in MemoryUse /\ SweepShard(s))
  /\ WF_waited(use \in RedisUse /\ Redis!CB!Wait)
  /\ \A p \in Proc : SF_pc(use \in RedisUse /\ p \in Caller /\ Redis!CB!Step(p))

-----------------------------------------------------------------------------
(* Properties of the parts *)

\* See RedisStore: what Redis promises (redis/store.go:303-534).
RedisImplementsTTLStore == Redis!RedisImplementsTTLStore

\* See CircuitBreaker: the breaker closes again (redis/store.go:222-280).
Recovers == Redis!CB!Recovers
=============================================================================
