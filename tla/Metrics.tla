------------------------------- MODULE Metrics -------------------------------
(***************************************************************************)
(* The metrics collector (internal/metrics/metrics.go): goroutines record  *)
(* decisions while one reads a latency percentile.  Every atomic add and   *)
(* load, and every locked section, is a step.  The sum of the latencies is *)
(* left out.                                                               *)
(*                                                                         *)
(* A map from ids to counters is the set of its ids, registered, and their *)
(* counts.  There is one per dimension (tenant, policy) and direction (was *)
(* the decision to allow?).  recorded is a history variable: how often     *)
(* each id was recorded.                                                   *)
(***************************************************************************)
EXTENDS Naturals, FiniteSets

CONSTANTS Proc, Id, NoId,
          Decision,              \* the decisions that are recorded
          Bound,                 \* the finite buckets are 1..Bound
          maxCardinalityPerMap,
          Percent,               \* the percentiles that are asked for
          MaxDecisions           \* bound of the decisions

ASSUME MetricsAssumption ==
  /\ IsFiniteSet(Proc) /\ NoId \notin Id
  /\ Bound \in Nat \ {0} /\ maxCardinalityPerMap \in Nat /\ Percent \subseteq 0..100
  /\ Decision # {}
  /\ Decision \subseteq [tenant : Id \union {NoId}, policy : Id \union {NoId},
                          allowed : BOOLEAN, bucket : 1..(Bound + 1)]

VARIABLES total, directions,     \* DecisionsTotal; DecisionsAllowed and -Denied
          counts, observed,      \* the histogram: its buckets and its total
          registered, count, recorded,
          pc, dim, decision,     \* of each goroutine
          reader                 \* of Percentile

sums == <<total, directions>>
histogram == <<counts, observed>>
maps == <<registered, count>>
metricsVars == <<sums, histogram, maps, recorded, pc, dim, decision, reader>>

Bucket == 1..(Bound + 1)
Dimension == {"tenant", "policy"}

Maps == Dimension \X BOOLEAN

\* The map goroutine p works on, and the id it has there.
MyMap(p) == <<dim[p], decision[p].allowed>>
MyId(p) == decision[p][dim[p]]

NoReading == [at |-> 0, target |-> 0, cum |-> 0, fell |-> FALSE]

MetricsInit ==
  /\ total = 0 /\ directions = [b \in BOOLEAN |-> 0]
  /\ counts = [b \in Bucket |-> 0] /\ observed = 0
  /\ registered = [m \in Maps |-> {}]
  /\ count = [m \in Maps |-> [id \in Id |-> 0]]
  /\ recorded = [m \in Maps |-> [id \in Id |-> 0]]
  /\ pc = [p \in Proc |-> "idle"]
  /\ dim = [p \in Proc |-> "tenant"]
  /\ decision \in [Proc -> {CHOOSE d \in Decision : TRUE}]
  /\ reader = NoReading

Goto(p, from, to) == pc[p] = from /\ pc' = [pc EXCEPT ![p] = to]

-----------------------------------------------------------------------------
(* RecordDecision *)

Begin(p, d) ==
  /\ total < MaxDecisions
  /\ Goto(p, "idle", "bucket")
  /\ decision' = [decision EXCEPT ![p] = d]
  /\ total' = total + 1
  /\ recorded' = [m \in Maps |-> [id \in Id |->
       recorded[m][id] + IF m[2] = d.allowed /\ d[m[1]] = id THEN 1 ELSE 0]]
  /\ UNCHANGED <<directions, histogram, maps, dim, reader>>

\* Variant: Observe counts the observation before it puts it into its bucket.
Observe_total_first(p) ==
  /\ \/ Goto(p, "bucket", "total") /\ observed' = observed + 1 /\ UNCHANGED counts
     \/ /\ Goto(p, "total", "direction")
        /\ counts' = [counts EXCEPT ![decision[p].bucket] = @ + 1]
        /\ UNCHANGED observed
  /\ UNCHANGED <<sums, maps, recorded, dim, decision, reader>>

\* Observe: first the bucket, then the total.
Observe(p) ==
  /\ \/ /\ Goto(p, "bucket", "total")
        /\ counts' = [counts EXCEPT ![decision[p].bucket] = @ + 1]
        /\ UNCHANGED observed
     \/ Goto(p, "total", "direction") /\ observed' = observed + 1 /\ UNCHANGED counts
  /\ UNCHANGED <<sums, maps, recorded, dim, decision, reader>>

CountDirection(p) ==
  /\ Goto(p, "direction", "look")
  /\ directions' = [directions EXCEPT ![decision[p].allowed] = @ + 1]
  /\ UNCHANGED <<total, histogram, maps, recorded, dim, decision, reader>>

\* The end of the work in one dimension: on to the next, or done.
Leave(p, from) ==
  /\ Goto(p, from, IF dim[p] = "tenant" THEN "look" ELSE "idle")
  /\ dim' = [dim EXCEPT ![p] = IF @ = "tenant" THEN "policy" ELSE "tenant"]

\* tenantCounter and policyCounter, the look-up under the read lock; an empty
\* id has no counter.
Lookup(p) ==
  /\ \/ MyId(p) = NoId /\ Leave(p, "look")
     \/ /\ MyId(p) # NoId
        /\ Goto(p, "look", IF MyId(p) \in registered[MyMap(p)] THEN "add" ELSE "create")
        /\ UNCHANGED dim
  /\ UNCHANGED <<sums, histogram, maps, recorded, decision, reader>>

\* Variant: does not look again under the write lock.
Create_blind(p) ==
  /\ Goto(p, "create", "add")
  /\ registered' = [registered EXCEPT ![MyMap(p)] = @ \union {MyId(p)}]
  /\ count' = [count EXCEPT ![MyMap(p)][MyId(p)] = 0]
  /\ UNCHANGED <<sums, histogram, recorded, dim, decision, reader>>

\* The second look, under the write lock, and the new counter.  When the map
\* is full the decision is counted by a counter nobody keeps.
Create(p) ==
  /\ \/ /\ \/ MyId(p) \in registered[MyMap(p)]
           \/ Cardinality(registered[MyMap(p)]) < maxCardinalityPerMap
        /\ registered' = [registered EXCEPT ![MyMap(p)] = @ \union {MyId(p)}]
        /\ Goto(p, "create", "add")
        /\ UNCHANGED dim
     \/ /\ MyId(p) \notin registered[MyMap(p)]
        /\ Cardinality(registered[MyMap(p)]) >= maxCardinalityPerMap
        /\ Leave(p, "create")
        /\ UNCHANGED registered
  /\ UNCHANGED <<sums, histogram, count, recorded, decision, reader>>

Add(p) ==
  /\ Leave(p, "add")
  /\ count' = [count EXCEPT ![MyMap(p)][MyId(p)] = @ + 1]
  /\ UNCHANGED <<sums, histogram, registered, recorded, decision, reader>>

-----------------------------------------------------------------------------
(* Percentile *)

\* The total is read first.  Without observations the answer is 0.
ReadTotal(percent) ==
  /\ reader.at = 0
  /\ observed > 0
  /\ reader' = [at |-> 1, target |-> (observed * percent + 99) \div 100, cum |-> 0, fell |-> FALSE]
  /\ UNCHANGED <<sums, histogram, maps, recorded, pc, dim, decision>>

\* One bucket after the other, until the target is reached or none is left.
ReadBucket ==
  LET cum == reader.cum + counts[reader.at]
      done == cum >= reader.target
  IN  /\ reader.at \in 1..Bound
      /\ reader' = IF done \/ reader.at = Bound THEN [NoReading EXCEPT !.fell = ~done]
                   ELSE [reader EXCEPT !.at = @ + 1, !.cum = cum]
      /\ UNCHANGED <<sums, histogram, maps, recorded, pc, dim, decision>>

-----------------------------------------------------------------------------
RecordStep(p) ==
  \/ \E d \in Decision : Begin(p, d)
  \/ Observe(p) \/ CountDirection(p) \/ Lookup(p) \/ Create(p) \/ Add(p)

MetricsNext ==
  \/ \E p \in Proc : RecordStep(p)
  \/ \E percent \in Percent : ReadTotal(percent)
  \/ ReadBucket

MetricsSpec == MetricsInit /\ [][MetricsNext]_metricsVars

-----------------------------------------------------------------------------
(* Properties *)

\* The decisions of id in map m that are recorded but not yet counted there.
Pending(m, id) ==
  {p \in Proc : /\ pc[p] # "idle"
                /\ m[2] = decision[p].allowed /\ decision[p][m[1]] = id
                /\ m[1] = dim[p] \/ m[1] = "policy"}

\* A counter that exists has counted every decision ever recorded for its id,
\* whichever goroutine created it, and also if the map filled up meanwhile: no
\* id gets a counter after one of its decisions went uncounted, and no map
\* outgrows its cap (metrics.go:85-134).
CountsExact ==
  \A m \in Maps :
    /\ Cardinality(registered[m]) <= maxCardinalityPerMap
    /\ \A id \in registered[m] : count[m][id] + Cardinality(Pending(m, id)) = recorded[m][id]

\* A percentile falls off the end of the finite buckets only if an observation
\* did: it reads the total before the buckets, Observe writes them in the other
\* order, so the buckets it reads hold at least the total (metrics.go:165-190).
PercentileSound == reader.fell => counts[Bound + 1] > 0

\* A counter has counted every decision of its id, and a percentile that is read
\* while others write is one of the times (metrics.go:85-134, 165-190).
MetricsSound == CountsExact /\ PercentileSound
=============================================================================
