-------------------------- MODULE Telemetry_proofs --------------------------
(***************************************************************************)
(* For every number of goroutines, identifiers, buckets and records: the   *)
(* metrics count every decision they have a counter for and a percentile   *)
(* falls off the buckets only if an observation did; the summaries of the  *)
(* analytics recorder add up; and Close of the asynchronous audit logger   *)
(* loses no record that was accepted before it.                            *)
(*                                                                         *)
(* The metrics and the recorder count by sums over sets, which SumTheorems *)
(* takes apart one element at a time.                                      *)
(***************************************************************************)
EXTENDS Metrics, Analytics, AuditLog, SumTheorems

\* The time a prover has for a leaf that names none.
USE SMTT(40), ZenonT(40)

-----------------------------------------------------------------------------
(* The metrics collector *)

\* The steps of one RecordDecision.
PC == {"idle", "bucket", "total", "direction", "look", "create", "add"}

\* The types of the collector's state.
MetricsTypes ==
  /\ counts \in [Bucket -> Nat] /\ observed \in Nat
  /\ registered \in [Maps -> SUBSET Id]
  /\ count \in [Maps -> [Id -> Nat]] /\ recorded \in [Maps -> [Id -> Nat]]
  /\ pc \in [Proc -> PC]
  /\ dim \in [Proc -> Dimension] /\ decision \in [Proc -> Decision]
  /\ reader \in [at : 0..Bound, target : Nat, cum : Nat, fell : BOOLEAN]

\* How far a goroutine is: it starts with the tenant, and adds to a counter that
\* is registered.
AtWork ==
  \A p \in Proc :
    /\ pc[p] \in {"idle", "bucket", "total", "direction"} => dim[p] = "tenant"
    /\ pc[p] \in {"create", "add"} => MyId(p) # NoId
    /\ pc[p] = "add" => MyId(p) \in registered[MyMap(p)]

\* What holds of the counters: while an id has a counter, or its map has room for
\* one, every decision of the id is counted or about to be.
CountsKept ==
  \A m \in Maps :
    /\ IsFiniteSet(registered[m]) /\ Cardinality(registered[m]) <= maxCardinalityPerMap
    /\ \A id \in Id :
         id \in registered[m] \/ Cardinality(registered[m]) < maxCardinalityPerMap =>
           count[m][id] + Cardinality(Pending(m, id)) = recorded[m][id]

\* A decision names a tenant and a policy.
LEMMA DecisionFacts ==
  ASSUME NEW d \in Decision
  PROVE  /\ d.allowed \in BOOLEAN /\ d.bucket \in Bucket
         /\ \A e \in Dimension : d[e] \in Id \union {NoId}
BY MetricsAssumption DEF Dimension, Bucket

\* The map and the id a goroutine is at.
LEMMA MyFacts ==
  ASSUME MetricsTypes, NEW p \in Proc
  PROVE  MyMap(p) \in Maps /\ MyId(p) \in Id \union {NoId}
<1>1. decision[p] \in Decision /\ dim[p] \in Dimension
  BY DEF MetricsTypes
<1> QED
  BY <1>1, DecisionFacts DEF MyMap, MyId, Maps

\* A goroutine goes on to another step, and no other one does.
LEMMA LeaveFacts ==
  ASSUME MetricsTypes, NEW p \in Proc, NEW from, Leave(p, from)
  PROVE  /\ pc[p] = from /\ pc' \in [Proc -> PC] /\ dim' \in [Proc -> Dimension]
         /\ pc'[p] \in {"look", "idle"}
         /\ dim[p] = "tenant" => pc'[p] = "look" /\ dim'[p] = "policy"
         /\ dim[p] = "policy" => pc'[p] = "idle" /\ dim'[p] = "tenant"
         /\ \A q \in Proc \ {p} : pc'[q] = pc[q] /\ dim'[q] = dim[q]
BY DEF MetricsTypes, Leave, Goto, Dimension, PC

\* A goroutine that goes on leaves the others where they are.
LEMMA GotoFacts ==
  ASSUME MetricsTypes, NEW p \in Proc, NEW from, NEW to \in PC, Goto(p, from, to)
  PROVE  /\ pc[p] = from /\ pc' \in [Proc -> PC] /\ pc'[p] = to
         /\ \A q \in Proc \ {p} : pc'[q] = pc[q]
BY DEF MetricsTypes, Goto, PC

\* No step leaves the types.
LEMMA MetricsTypesKept ==
  ASSUME MetricsTypes, AtWork, [MetricsNext]_metricsVars
  PROVE  MetricsTypes'
<1> USE DEF MetricsTypes, PC
<1>1. ASSUME NEW p \in Proc, NEW d \in Decision, Begin(p, d) PROVE MetricsTypes'
  <2>1. \A m \in Maps : [id \in Id |-> recorded[m][id] + IF m[2] = d.allowed /\ d[m[1]] = id THEN 1 ELSE 0]
                          \in [Id -> Nat]
    OBVIOUS
  <2>2. recorded' \in [Maps -> [Id -> Nat]]
    BY <1>1, <2>1 DEF Begin
  <2> QED
    BY <1>1, <2>2 DEF Begin, Goto, histogram, maps
<1>2. ASSUME NEW p \in Proc, Observe(p) PROVE MetricsTypes'
  <2>1. decision[p].bucket \in Bucket
    BY DecisionFacts
  <2>2. counts' \in [Bucket -> Nat] /\ observed' \in Nat
    BY <1>2, <2>1 DEF Observe
  <2>3. pc' \in [Proc -> PC]
    BY <1>2 DEF Observe, Goto
  <2> QED
    BY <1>2, <2>2, <2>3 DEF Observe, maps
<1>3. ASSUME NEW p \in Proc, CountDirection(p) PROVE MetricsTypes'
  BY <1>3 DEF CountDirection, Goto, histogram, maps
<1>4. ASSUME NEW p \in Proc, Lookup(p) PROVE MetricsTypes'
  <2>1. CASE Leave(p, "look")
    BY <1>4, <2>1, LeaveFacts DEF Lookup, histogram, maps
  <2>2. CASE ~Leave(p, "look")
    BY <1>4, <2>2 DEF Lookup, Goto, histogram, maps
  <2> QED
    BY <2>1, <2>2
<1>5. ASSUME NEW p \in Proc, Create(p) PROVE MetricsTypes'
  <2>1. MyMap(p) \in Maps /\ (pc[p] = "create" => MyId(p) \in Id)
    BY MyFacts DEF AtWork
  <2>2. registered' \in [Maps -> SUBSET Id]
    BY <1>5, <2>1 DEF Create, Goto
  <2>3. dim' \in [Proc -> Dimension]
    BY <1>5 DEF Create, Leave, Dimension
  <2>4. pc' \in [Proc -> PC]
    BY <1>5 DEF Create, Leave, Goto
  <2> QED
    BY <1>5, <2>2, <2>3, <2>4 DEF Create, histogram
<1>6. ASSUME NEW p \in Proc, Add(p) PROVE MetricsTypes'
  <2>1. MyMap(p) \in Maps /\ MyId(p) \in Id
    BY <1>6, MyFacts DEF AtWork, Add, Leave, Goto
  <2>2. count' \in [Maps -> [Id -> Nat]]
    BY <1>6, <2>1 DEF Add
  <2> QED
    BY <1>6, <2>2 DEF Add, Leave, Goto, histogram, Dimension
<1>7. ASSUME NEW percent \in Percent, ReadTotal(percent) PROVE MetricsTypes'
  <2>1. (observed * percent + 99) \div 100 \in Nat /\ 1 \in 0..Bound
    <3>1. percent \in Nat /\ observed \in Nat /\ 1 \in 0..Bound
      BY MetricsAssumption
    <3>2. observed * percent \in Nat
      BY <3>1
    <3>3. \A n \in Nat : (n + 99) \div 100 \in Nat
      OBVIOUS
    <3> QED
      BY <3>1, <3>2, <3>3
  <2> QED
    BY <1>7, <2>1 DEF ReadTotal, histogram, maps
<1>8. CASE ReadBucket
  <2>1. reader.at \in 1..Bound /\ counts[reader.at] \in Nat /\ Bound \in Nat
    BY <1>8, MetricsAssumption DEF ReadBucket, Bucket
  <2> DEFINE c == reader.cum + counts[reader.at]
  <2>2. \/ \E b \in BOOLEAN : reader' = [at |-> 0, target |-> 0, cum |-> 0, fell |-> b]
        \/ reader.at # Bound /\ reader' = [reader EXCEPT !.at = @ + 1, !.cum = c]
    BY ZenonT(40), <1>8 DEF ReadBucket, NoReading
  <2>3. c \in Nat /\ (reader.at # Bound => reader.at + 1 \in 0..Bound)
    <3>1. \A a \in 1..Bound : a # Bound => a + 1 \in 0..Bound
      BY <2>1
    <3>2. \A a, b \in Nat : a + b \in Nat
      OBVIOUS
    <3>3. reader.cum \in Nat
      OBVIOUS
    <3> QED
      BY ZenonT(40), <2>1, <3>1, <3>2, <3>3
  <2> HIDE DEF c
  <2>4. reader' \in [at : 0..Bound, target : Nat, cum : Nat, fell : BOOLEAN]
    <3>1. 0 \in 0..Bound
      BY <2>1
    <3>2. CASE reader.at # Bound /\ reader' = [reader EXCEPT !.at = @ + 1, !.cum = c]
      <4>1. reader = [at |-> reader.at, target |-> reader.target, cum |-> reader.cum, fell |-> reader.fell]
        OBVIOUS
      <4>2. reader' = [at |-> reader.at + 1, target |-> reader.target, cum |-> c, fell |-> reader.fell]
        BY ZenonT(40), <3>2, <4>1
      <4> QED
        BY <2>3, <3>2, <4>2
    <3> QED
      BY <2>2, <3>1, <3>2
  <2> QED
    BY <1>8, <2>4 DEF ReadBucket, histogram, maps
<1>9. CASE UNCHANGED metricsVars
  BY <1>9 DEF metricsVars, histogram, maps
<1> QED
  BY <1>1, <1>2, <1>3, <1>4, <1>5, <1>6, <1>7, <1>8, <1>9 DEF MetricsNext, RecordStep

\* No step breaks how far the goroutines are.
LEMMA AtWorkKept ==
  ASSUME MetricsTypes, AtWork, [MetricsNext]_metricsVars
  PROVE  AtWork'
<1> USE DEF MetricsTypes, AtWork, MyMap, MyId
<1>1. ASSUME NEW p \in Proc, NEW d \in Decision, Begin(p, d) PROVE AtWork'
  BY <1>1 DEF Begin, Goto, maps
<1>2. ASSUME NEW p \in Proc, Observe(p) PROVE AtWork'
  BY <1>2 DEF Observe, Goto, sums, maps
<1>3. ASSUME NEW p \in Proc, CountDirection(p) PROVE AtWork'
  BY <1>3 DEF CountDirection, Goto, histogram, maps
<1>4. ASSUME NEW p \in Proc, Lookup(p) PROVE AtWork'
  <2>1. CASE Leave(p, "look")
    <3>1. /\ pc'[p] \in {"look", "idle"} /\ (pc'[p] = "idle" => dim'[p] = "tenant")
          /\ \A q \in Proc \ {p} : pc'[q] = pc[q] /\ dim'[q] = dim[q]
      BY <2>1, LeaveFacts DEF Dimension
    <3> QED
      BY <1>4, <3>1 DEF Lookup, maps
  <2>2. CASE ~Leave(p, "look")
    BY ZenonT(40), <1>4, <2>2 DEF Lookup, Goto, maps
  <2> QED
    BY <2>1, <2>2
<1>5. ASSUME NEW p \in Proc, Create(p) PROVE AtWork'
  <2> HIDE DEF MyMap, MyId
  <2>1. \A q \in Proc : MyMap(q) \in Maps
    BY MyFacts
  <2>2. \A m \in Maps : registered[m] \subseteq registered'[m]
    <3>1. MyMap(p) \in Maps /\ (registered' = registered \/
                               registered' = [registered EXCEPT ![MyMap(p)] = @ \union {MyId(p)}])
      BY <1>5, <2>1 DEF Create
    <3> QED
      BY <3>1
  <2>3. CASE pc'[p] = "add"
    <3>1. /\ dim' = dim /\ decision' = decision /\ MyId(p) \in registered'[MyMap(p)]
          /\ pc[p] = "create" /\ pc' = [pc EXCEPT ![p] = "add"]
      BY <1>5, <2>1, <2>3 DEF Create, Leave, Goto
    <3>2. \A q \in Proc : MyMap(q)' = MyMap(q) /\ MyId(q)' = MyId(q)
      BY <3>1 DEF MyMap, MyId
    <3> QED
      BY <2>1, <2>2, <3>1, <3>2
  <2>4. CASE pc'[p] # "add"
    <3>1. Leave(p, "create") /\ decision' = decision
      BY <1>5, <2>4 DEF Create, Goto
    <3>2. \A q \in Proc \ {p} : MyMap(q)' = MyMap(q) /\ MyId(q)' = MyId(q) /\ dim'[q] = dim[q] /\ pc'[q] = pc[q]
      BY <3>1 DEF MyMap, MyId, Leave, Goto
    <3>3. pc'[p] \in {"look", "idle"} /\ (pc'[p] = "idle" => dim'[p] = "tenant")
      BY <3>1 DEF Leave, Goto, Dimension
    <3> QED
      BY <2>1, <2>2, <3>2, <3>3
  <2> QED
    BY <2>3, <2>4
<1>6. ASSUME NEW p \in Proc, Add(p) PROVE AtWork'
  <2>1. Leave(p, "add") /\ decision' = decision /\ registered' = registered
    BY <1>6 DEF Add
  <2>2. /\ pc'[p] \in {"look", "idle"} /\ (pc'[p] = "idle" => dim'[p] = "tenant")
        /\ \A q \in Proc \ {p} : pc'[q] = pc[q] /\ dim'[q] = dim[q]
    BY <2>1, LeaveFacts DEF Dimension
  <2> QED
    BY <2>1, <2>2
<1>7. ASSUME NEW percent \in Percent, ReadTotal(percent) PROVE AtWork'
  BY <1>7 DEF ReadTotal, histogram, maps
<1>8. CASE ReadBucket
  BY <1>8 DEF ReadBucket, histogram, maps
<1>9. CASE UNCHANGED metricsVars
  BY <1>9 DEF metricsVars, histogram, maps
<1> QED
  BY ZenonT(40), <1>1, <1>2, <1>3, <1>4, <1>5, <1>6, <1>7, <1>8, <1>9 DEF MetricsNext, RecordStep

\* The goroutine that leaves a dimension no longer counts as pending there.
LEMMA PendingLeft ==
  ASSUME MetricsTypes, NEW p \in Proc, NEW from \in {"look", "create", "add"}, Leave(p, from),
         decision' = decision, NEW m \in Maps, NEW id \in Id
  PROVE  /\ Pending(m, id)' = IF m = MyMap(p) /\ id = MyId(p) THEN Pending(m, id) \ {p}
                                                              ELSE Pending(m, id)
         /\ m = MyMap(p) /\ id = MyId(p) => p \in Pending(m, id)
<1>1. PICK e \in Dimension, b \in BOOLEAN : m = <<e, b>> /\ m[1] = e /\ m[2] = b
  BY DEF Maps
<1>2. dim[p] \in Dimension
  BY DEF MetricsTypes
<1>3. (p \in Pending(m, id)) = (b = decision[p].allowed /\ decision[p][e] = id /\ (e = dim[p] \/ e = "policy"))
  BY <1>1, LeaveFacts DEF Pending
<1>4. (p \in Pending(m, id)') = (/\ dim[p] = "tenant" /\ e = "policy"
                                /\ b = decision[p].allowed /\ decision[p][e] = id)
  BY <1>1, <1>2, LeaveFacts DEF Pending, Dimension
<1>5. \A q \in Proc \ {p} : (q \in Pending(m, id)') = (q \in Pending(m, id))
  BY LeaveFacts DEF Pending
<1>6. Pending(m, id)' \subseteq Proc /\ Pending(m, id) \subseteq Proc
  BY DEF Pending
<1>7. (m = MyMap(p) /\ id = MyId(p)) = (e = dim[p] /\ b = decision[p].allowed /\ decision[p][e] = id)
  BY <1>1 DEF MyMap, MyId
<1> QED
  BY <1>2, <1>3, <1>4, <1>5, <1>6, <1>7 DEF Dimension

\* A goroutine that goes on within its decision is as pending as before.
LEMMA PendingStays ==
  ASSUME MetricsTypes, NEW p \in Proc, NEW from \in PC \ {"idle"}, NEW to \in PC \ {"idle"},
         Goto(p, from, to), UNCHANGED <<dim, decision>>, NEW m, NEW id
  PROVE  Pending(m, id)' = Pending(m, id)
<1>1. \A q \in Proc : (pc'[q] # "idle") = (pc[q] # "idle")
  BY GotoFacts
<1> QED
  BY <1>1 DEF Pending

\* Finitely many goroutines are about to count a decision.
LEMMA PendingFinite == \A m, id : IsFiniteSet(Pending(m, id))
<1>1. \A m, id : Pending(m, id) \in SUBSET Proc
  BY DEF Pending
<1> QED
  BY <1>1, CardSubset, MetricsAssumption

\* The counters stay as they are when nothing they are about changes.
LEMMA CountsSame ==
  ASSUME CountsKept, UNCHANGED <<maps, recorded>>,
         \A m \in Maps : \A id \in Id : Pending(m, id)' = Pending(m, id)
  PROVE  CountsKept'
BY DEF CountsKept, maps

\* A decision recorded is pending at once.
LEMMA CountsBegin ==
  ASSUME MetricsTypes, AtWork, CountsKept, NEW p \in Proc, NEW d \in Decision, Begin(p, d)
  PROVE  CountsKept'
<1>1. /\ pc[p] = "idle" /\ pc'[p] = "bucket" /\ decision'[p] = d /\ dim[p] = "tenant"
      /\ UNCHANGED <<registered, count, dim>>
      /\ \A q \in Proc \ {p} : pc'[q] = pc[q] /\ decision'[q] = decision[q]
  BY DEF Begin, Goto, maps, MetricsTypes, AtWork
<1>2. ASSUME NEW m \in Maps, NEW id \in Id
      PROVE  recorded'[m][id] = recorded[m][id] + IF m[2] = d.allowed /\ d[m[1]] = id THEN 1 ELSE 0
  BY <1>2 DEF Begin
<1>3. ASSUME NEW m \in Maps, NEW id \in Id
      PROVE  Pending(m, id)' = IF m[2] = d.allowed /\ d[m[1]] = id THEN Pending(m, id) \union {p}
                                                                   ELSE Pending(m, id)
  <2>1. m[1] = "tenant" \/ m[1] = "policy"
    BY DEF Maps, Dimension
  <2>2. (p \in Pending(m, id)') = (m[2] = d.allowed /\ d[m[1]] = id) /\ p \notin Pending(m, id)
    BY <1>1, <2>1 DEF Pending
  <2>3. \A q \in Proc \ {p} : (q \in Pending(m, id)') = (q \in Pending(m, id))
    BY <1>1 DEF Pending
  <2>4. Pending(m, id)' \subseteq Proc /\ Pending(m, id) \subseteq Proc
    BY DEF Pending
  <2> QED
    BY <2>2, <2>3, <2>4
<1>4. ASSUME NEW m \in Maps, NEW id \in Id
      PROVE  recorded'[m][id] - Cardinality(Pending(m, id)') = recorded[m][id] - Cardinality(Pending(m, id))
  <2>1. IsFiniteSet(Pending(m, id)) /\ Cardinality(Pending(m, id)) \in Nat
    BY PendingFinite, CardType
  <2>2. p \notin Pending(m, id)
    BY <1>1 DEF Pending
  <2>3. recorded[m][id] \in Nat
    BY DEF MetricsTypes
  <2>4. Cardinality(Pending(m, id) \union {p}) = Cardinality(Pending(m, id)) + 1
    BY ZenonT(40), <2>1, <2>2, CardAdd
  <2>5. CASE m[2] = d.allowed /\ d[m[1]] = id
    <3>1. recorded'[m][id] = recorded[m][id] + 1
      BY <1>2, <2>5
    <3>2. Cardinality(Pending(m, id)') = Cardinality(Pending(m, id)) + 1
      BY <1>3, <2>4, <2>5
    <3> QED
      BY <2>1, <2>3, <3>1, <3>2
  <2>6. CASE ~(m[2] = d.allowed /\ d[m[1]] = id)
    <3>1. recorded'[m][id] = recorded[m][id] + 0
      BY <1>2, <2>6
    <3>2. Pending(m, id)' = Pending(m, id)
      BY <1>3, <2>6
    <3> QED
      BY <2>1, <2>3, <3>1, <3>2
  <2> QED
    BY <2>5, <2>6
<1>5. ASSUME NEW m \in Maps, NEW id \in Id
      PROVE  /\ Cardinality(Pending(m, id)) \in Nat /\ Cardinality(Pending(m, id)') \in Nat
             /\ recorded[m][id] \in Nat /\ recorded'[m][id] \in Nat /\ count[m][id] \in Nat
  <2>1. IsFiniteSet(Pending(m, id)) /\ IsFiniteSet(Pending(m, id)')
    BY <1>3, PendingFinite, CardAdd
  <2>2. Cardinality(Pending(m, id)) \in Nat /\ Cardinality(Pending(m, id)') \in Nat
    BY <2>1, CardType
  <2>3. recorded[m][id] \in Nat /\ count[m][id] \in Nat
    BY DEF MetricsTypes
  <2> QED
    BY <1>2, <2>2, <2>3
<1> QED
  BY <1>1, <1>4, <1>5 DEF CountsKept

\* A counter is created with nothing pending before it, or the map is full.
LEMMA CountsCreate ==
  ASSUME MetricsTypes, AtWork, CountsKept, NEW p \in Proc, Create(p)
  PROVE  CountsKept'
<1> DEFINE mine == MyMap(p)
           myId == MyId(p)
<1>1. /\ mine \in Maps /\ myId \in Id /\ UNCHANGED <<count, recorded, decision>>
      /\ \A m \in Maps : IsFiniteSet(registered[m]) /\ Cardinality(registered[m]) \in Nat
      /\ registered \in [Maps -> SUBSET Id] /\ maxCardinalityPerMap \in Nat
  <2>1. pc[p] = "create"
    BY DEF Create, Goto, Leave
  <2> QED
    BY ZenonT(40), <2>1, MyFacts, CardType, MetricsAssumption DEF Create, AtWork, CountsKept, MetricsTypes
<1>2. CASE /\ myId \in registered[mine] \/ Cardinality(registered[mine]) < maxCardinalityPerMap
           /\ registered' = [registered EXCEPT ![mine] = @ \union {myId}]
           /\ Goto(p, "create", "add") /\ UNCHANGED dim
  <2>1. \A m \in Maps : \A id \in Id : Pending(m, id)' = Pending(m, id)
    BY <1>1, <1>2, PendingStays DEF PC
  <2> HIDE DEF mine, myId
  <2>2. \A m \in Maps \ {mine} : registered'[m] = registered[m]
    BY <1>1, <1>2
  <2>3. registered'[mine] = registered[mine] \union {myId}
    BY <1>1, <1>2
  <2>4. /\ IsFiniteSet(registered'[mine]) /\ Cardinality(registered'[mine]) \in Nat
        /\ Cardinality(registered'[mine]) = IF myId \in registered[mine] THEN Cardinality(registered[mine])
                                            ELSE Cardinality(registered[mine]) + 1
    BY <1>1, <2>3, CardAdd, CardType
  <2>5. Cardinality(registered'[mine]) <= maxCardinalityPerMap
    BY <1>1, <1>2, <2>4 DEF CountsKept
  <2>6. ASSUME NEW id \in Id,
               id \in registered'[mine] \/ Cardinality(registered'[mine]) < maxCardinalityPerMap
        PROVE  id \in registered[mine] \/ Cardinality(registered[mine]) < maxCardinalityPerMap
    BY <1>1, <1>2, <2>3, <2>4, <2>6
  <2> QED
    BY <1>1, <2>1, <2>2, <2>4, <2>5, <2>6 DEF CountsKept
<1>3. CASE /\ myId \notin registered[mine] /\ Cardinality(registered[mine]) >= maxCardinalityPerMap
           /\ Leave(p, "create") /\ UNCHANGED registered
  <2>1. \A m \in Maps : \A id \in Id : (m = mine /\ id = myId) \/ Pending(m, id)' = Pending(m, id)
    BY <1>1, <1>3, PendingLeft
  <2> HIDE DEF mine, myId
  <2>2. ~(myId \in registered'[mine] \/ Cardinality(registered'[mine]) < maxCardinalityPerMap)
    BY <1>1, <1>3
  <2> QED
    BY <1>1, <1>3, <2>1, <2>2 DEF CountsKept
<1> QED
  BY <1>2, <1>3 DEF Create

\* A decision that is added to its counter is no longer pending.
LEMMA CountsAdd ==
  ASSUME MetricsTypes, AtWork, CountsKept, NEW p \in Proc, Add(p)
  PROVE  CountsKept'
<1> DEFINE mine == MyMap(p)
           myId == MyId(p)
<1>1. /\ mine \in Maps /\ myId \in Id /\ UNCHANGED <<registered, recorded, decision>>
      /\ count' = [count EXCEPT ![mine][myId] = @ + 1] /\ Leave(p, "add")
  BY MyFacts DEF Add, Leave, Goto, AtWork
<1>2. \A m \in Maps : \A id \in Id :
        Pending(m, id)' = IF m = mine /\ id = myId THEN Pending(m, id) \ {p} ELSE Pending(m, id)
  BY <1>1, PendingLeft
<1>3. p \in Pending(mine, myId)
  BY <1>1, PendingLeft
<1> HIDE DEF mine, myId
<1>4. \A m \in Maps : \A id \in Id :
        count'[m][id] = count[m][id] + IF m = mine /\ id = myId THEN 1 ELSE 0
  BY <1>1 DEF MetricsTypes
<1>5. ASSUME NEW m \in Maps, NEW id \in Id
      PROVE  count'[m][id] + Cardinality(Pending(m, id)') = count[m][id] + Cardinality(Pending(m, id))
  <2>1. IsFiniteSet(Pending(m, id)) /\ Cardinality(Pending(m, id)) \in Nat /\ count[m][id] \in Nat
    BY PendingFinite, CardType DEF MetricsTypes
  <2>2. p \in Pending(m, id) => Cardinality(Pending(m, id) \ {p}) = Cardinality(Pending(m, id)) - 1
    BY ZenonT(40), <2>1, CardRemove
  <2>3. CASE m = mine /\ id = myId
    <3>1. count'[m][id] = count[m][id] + 1
      BY <1>4, <2>3
    <3>2. Cardinality(Pending(m, id)') = Cardinality(Pending(m, id)) - 1
      BY <1>2, <1>3, <2>2, <2>3
    <3> QED
      BY <2>1, <3>1, <3>2
  <2>4. CASE ~(m = mine /\ id = myId)
    <3>1. count'[m][id] = count[m][id] + 0 /\ Pending(m, id)' = Pending(m, id)
      BY <1>2, <1>4, <2>4
    <3> QED
      BY <2>1, <3>1
  <2> QED
    BY <2>3, <2>4
<1> QED
  BY <1>1, <1>5 DEF CountsKept

\* The counters stay right in every step.
LEMMA CountsAreKept ==
  ASSUME MetricsTypes, AtWork, CountsKept, [MetricsNext]_metricsVars
  PROVE  CountsKept'
<1>1. ASSUME NEW p \in Proc, NEW d \in Decision, Begin(p, d) PROVE CountsKept'
  BY <1>1, CountsBegin
<1>2. ASSUME NEW p \in Proc, Observe(p) PROVE CountsKept'
  <2>1. /\ Goto(p, "bucket", "total") \/ Goto(p, "total", "direction")
        /\ UNCHANGED <<maps, recorded, dim, decision>>
    BY <1>2 DEF Observe
  <2> QED
    BY <2>1, PendingStays, CountsSame DEF PC
<1>3. ASSUME NEW p \in Proc, CountDirection(p) PROVE CountsKept'
  <2>1. Goto(p, "direction", "look") /\ UNCHANGED <<maps, recorded, dim, decision>>
    BY <1>3 DEF CountDirection
  <2> QED
    BY <2>1, PendingStays, CountsSame DEF PC
<1>4. ASSUME NEW p \in Proc, Lookup(p) PROVE CountsKept'
  <2>1. CASE MyId(p) = NoId /\ Leave(p, "look")
    <3>1. UNCHANGED <<maps, recorded, decision>> /\ MyId(p) \notin Id
      BY <1>4, <2>1, MetricsAssumption DEF Lookup
    <3>2. \A m \in Maps : \A id \in Id : Pending(m, id)' = Pending(m, id)
      BY <2>1, <3>1, PendingLeft
    <3> QED
      BY <3>1, <3>2, CountsSame
  <2>2. CASE ~(MyId(p) = NoId /\ Leave(p, "look"))
    <3>1. /\ Goto(p, "look", "add") \/ Goto(p, "look", "create")
          /\ UNCHANGED <<maps, recorded, dim, decision>>
      BY <1>4, <2>2 DEF Lookup
    <3> QED
      BY <3>1, PendingStays, CountsSame DEF PC
  <2> QED
    BY <2>1, <2>2
<1>5. ASSUME NEW p \in Proc, Create(p) PROVE CountsKept'
  BY <1>5, CountsCreate
<1>6. ASSUME NEW p \in Proc, Add(p) PROVE CountsKept'
  BY <1>6, CountsAdd
<1>7. ASSUME NEW percent \in Percent, ReadTotal(percent) PROVE CountsKept'
  BY <1>7, CountsSame DEF ReadTotal, Pending
<1>8. CASE ReadBucket
  BY <1>8, CountsSame DEF ReadBucket, Pending
<1>9. CASE UNCHANGED metricsVars
  BY <1>9, CountsSame DEF metricsVars, Pending
<1> QED
  BY <1>1, <1>2, <1>3, <1>4, <1>5, <1>6, <1>7, <1>8, <1>9 DEF MetricsNext, RecordStep

\* The goroutines that have put their time into its bucket, and not yet counted it.
Observing == {p \in Proc : pc[p] = "total"}

\* What the buckets from b on have counted.
Above(b) == SumFunctionOnSet(counts, b..(Bound + 1))

\* What holds of the histogram: its buckets hold the total and what is about to be
\* counted, and the buckets ahead of a reader hold what it still looks for.
TailKept ==
  /\ observed + Cardinality(Observing) = Above(1)
  /\ reader.at > 0 => reader.target <= reader.cum + Above(reader.at)
  /\ PercentileSound

\* The buckets from b on hold what b does and what those after it do.
LEMMA AboveFacts ==
  ASSUME MetricsTypes, NEW b \in 1..(Bound + 1)
  PROVE  /\ Above(b) \in Nat /\ counts[b] \in Nat
         /\ b <= Bound => Above(b) = counts[b] + Above(b + 1)
         /\ Above(Bound + 1) = counts[Bound + 1]
<1>1. Bound \in Nat /\ \A x \in 1..(Bound + 1) : counts[x] \in Nat
  BY MetricsAssumption DEF MetricsTypes, Bucket
<1>2. \A a \in 1..(Bound + 1) : IsFiniteSet(a..(Bound + 1))
  <2> TAKE a \in 1..(Bound + 1)
  <2>1. IsFiniteSet(1..(Bound + 1)) /\ a..(Bound + 1) \in SUBSET (1..(Bound + 1))
    BY <1>1, CardInterval
  <2> QED
    BY ZenonT(40), <2>1, CardSubset
<1>3. \A a \in 1..(Bound + 1) : Above(a) \in Nat
  BY <1>1, <1>2, SumNat DEF Above
<1>4. ASSUME NEW a \in 1..(Bound + 1)
      PROVE  Above(a) = counts[a] + SumFunctionOnSet(counts, (a..(Bound + 1)) \ {a})
  <2>1. a \in a..(Bound + 1) /\ \A x \in a..(Bound + 1) : counts[x] \in Int
    BY <1>1
  <2>2. PICK f, S, y : f = counts /\ S = a..(Bound + 1) /\ y = a
    OBVIOUS
  <2>3. IsFiniteSet(S) /\ y \in S /\ \A x \in S : f[x] \in Int
    BY <1>2, <2>1, <2>2
  <2>4. SumFunctionOnSet(f, S) = f[y] + SumFunctionOnSet(f, S \ {y})
    BY ONLY <2>3, SumTake
  <2> QED
    BY <2>2, <2>4 DEF Above
<1>5. b <= Bound => (b..(Bound + 1)) \ {b} = (b + 1)..(Bound + 1)
  BY <1>1
<1>6. ((Bound + 1)..(Bound + 1)) \ {Bound + 1} = {}
  BY <1>1
<1>7. Above(Bound + 1) = counts[Bound + 1]
  <2>1. Bound + 1 \in 1..(Bound + 1) /\ counts[Bound + 1] \in Nat
    BY <1>1
  <2>2. Above(Bound + 1) = counts[Bound + 1] + 0
    BY <1>4, <1>6, <2>1, SumFacts
  <2> QED
    BY <2>1, <2>2
<1> QED
  BY ZenonT(40), <1>1, <1>3, <1>4, <1>5, <1>7 DEF Above

\* The histogram stays as it is when nothing it is about changes.
LEMMA TailSame ==
  ASSUME TailKept, UNCHANGED <<counts, observed, reader>>, Observing' = Observing
  PROVE  TailKept'
BY DEF TailKept, PercentileSound, Above

\* Finitely many goroutines have counted into a bucket but not into the total.
LEMMA ObservingFinite == IsFiniteSet(Observing) /\ Cardinality(Observing) \in Nat
<1>1. Observing \in SUBSET Proc
  BY DEF Observing
<1> QED
  BY <1>1, CardSubset, CardType, MetricsAssumption

\* A goroutine adds to its bucket, then to the total.
LEMMA TailObserve ==
  ASSUME MetricsTypes, TailKept, NEW p \in Proc, Observe(p)
  PROVE  TailKept'
<1>1. Bound \in Nat /\ 1 \in 1..(Bound + 1) /\ Above(1) \in Nat /\ observed \in Nat
  <2>1. Bound \in Nat /\ 1 \in 1..(Bound + 1)
    BY MetricsAssumption
  <2> QED
    BY <2>1, AboveFacts DEF MetricsTypes
<1>2. CASE /\ Goto(p, "bucket", "total") /\ UNCHANGED observed
           /\ counts' = [counts EXCEPT ![decision[p].bucket] = @ + 1]
  <2>1. PICK k \in Bucket : counts' = [counts EXCEPT ![k] = counts[k] + 1]
    BY ZenonT(40), <1>2, DecisionFacts DEF MetricsTypes
  <2>2. Observing' = Observing \union {p} /\ p \notin Observing
    BY <1>2, GotoFacts DEF PC, Observing
  <2>3. Cardinality(Observing') = Cardinality(Observing) + 1
    BY ZenonT(40), <2>2, ObservingFinite, CardAdd
  <2>4. ASSUME NEW b \in 1..(Bound + 1)
        PROVE  Above(b)' = Above(b) + IF b <= k THEN 1 ELSE 0
    <3>1. IsFiniteSet(b..(Bound + 1))
      <4>1. IsFiniteSet(1..(Bound + 1)) /\ b..(Bound + 1) \in SUBSET (1..(Bound + 1))
        BY <1>1, CardInterval
      <4> QED
        BY ZenonT(40), <4>1, CardSubset
    <3>2. /\ \A x \in b..(Bound + 1) : counts[x] \in Int
          /\ counts'[k] = counts[k] + 1 /\ \A x \in (b..(Bound + 1)) \ {k} : counts'[x] = counts[x]
      BY <1>1, <2>1 DEF MetricsTypes, Bucket
    <3>3. CASE b <= k
      <4>1. k \in b..(Bound + 1)
        BY <1>1, <3>3 DEF Bucket
      <4>2. SumFunctionOnSet(counts', b..(Bound + 1)) = SumFunctionOnSet(counts, b..(Bound + 1)) + 1
        <5>1. PICK f, g, S : f = counts /\ g = counts' /\ S = b..(Bound + 1)
          OBVIOUS
        <5>2. /\ IsFiniteSet(S) /\ k \in S /\ 1 \in Int /\ \A x \in S : f[x] \in Int
              /\ g[k] = f[k] + 1 /\ \A x \in S \ {k} : g[x] = f[x]
          BY <3>1, <3>2, <4>1, <5>1
        <5>3. SumFunctionOnSet(g, S) = SumFunctionOnSet(f, S) + 1
          BY ONLY <5>2, SumChanged
        <5> QED
          BY <5>1, <5>3
      <4> QED
        BY <3>3, <4>2 DEF Above
    <3>4. CASE ~(b <= k)
      <4>1. \A x \in b..(Bound + 1) : counts[x] \in Int /\ counts[x] = counts'[x]
        BY <1>1, <3>2, <3>4 DEF Bucket
      <4>2. SumFunctionOnSet(counts, b..(Bound + 1)) = SumFunctionOnSet(counts', b..(Bound + 1))
        BY ZenonT(40), <3>1, <4>1, SumSame
      <4>3. Above(b)' = Above(b) /\ Above(b) \in Nat
        BY <4>2, AboveFacts DEF Above
      <4> QED
        BY <3>4, <4>3
    <3> QED
      BY <3>3, <3>4
  <2>5. k >= 1
    BY DEF Bucket
  <2>6. (observed + Cardinality(Observing) = Above(1))'
    <3>1. Above(1)' = Above(1) + 1
      BY <1>1, <2>4, <2>5
    <3> QED
      BY <1>1, <1>2, <2>3, <3>1, ObservingFinite DEF TailKept
  <2>7. reader' = reader
    BY DEF Observe
  <2>8. (reader.at > 0 => reader.target <= reader.cum + Above(reader.at))'
    <3> SUFFICES ASSUME reader.at > 0 PROVE reader.target <= reader.cum + Above(reader.at)'
      BY <2>7 DEF Above
    <3>1. reader.at \in 1..(Bound + 1) /\ reader.target \in Nat /\ reader.cum \in Nat
      BY <1>1 DEF MetricsTypes
    <3>2. PICK a \in 1..(Bound + 1) : a = reader.at
      BY <3>1
    <3>3. Above(a) <= Above(a)' /\ Above(a) \in Nat /\ Above(a)' \in Nat
      BY <2>4, AboveFacts
    <3>4. reader.target <= reader.cum + Above(a)
      BY <3>2 DEF TailKept
    <3>5. reader.target <= reader.cum + Above(a)'
      BY <3>1, <3>3, <3>4
    <3> QED
      BY <2>7, <3>2, <3>5 DEF Above
  <2>9. PercentileSound'
    BY <1>1, <2>1, <2>7 DEF TailKept, PercentileSound, MetricsTypes, Bucket
  <2> QED
    BY <2>6, <2>8, <2>9 DEF TailKept
<1>3. CASE Goto(p, "total", "direction") /\ observed' = observed + 1 /\ UNCHANGED counts
  <2>1. Observing' = Observing \ {p} /\ p \in Observing
    BY <1>3, GotoFacts DEF PC, Observing
  <2>2. Cardinality(Observing') = Cardinality(Observing) - 1
    BY <2>1, ObservingFinite, CardRemove
  <2>3. reader' = reader /\ \A b : Above(b)' = Above(b)
    BY <1>3 DEF Observe, Above
  <2>4. observed' + Cardinality(Observing') = Above(1)
    BY <1>1, <1>3, <2>2, ObservingFinite DEF TailKept
  <2> QED
    BY <1>3, <2>3, <2>4 DEF TailKept, PercentileSound
<1> QED
  BY <1>2, <1>3 DEF Observe

\* A reader that starts takes a total which the buckets already hold.
LEMMA TailRead ==
  ASSUME MetricsTypes, TailKept, NEW percent \in Percent, ReadTotal(percent)
  PROVE  TailKept'
<1> DEFINE target == (observed * percent + 99) \div 100
<1>1. Bound \in Nat /\ percent \in 0..100 /\ observed \in Nat /\ 1 \in 1..(Bound + 1)
  BY MetricsAssumption DEF MetricsTypes
<1>2. target <= observed
  <2>1. PICK n \in Nat, q \in 0..100 : n = observed /\ q = percent
    BY <1>1
  <2>2. n * q <= n * 100
    BY <2>1
  <2>3. PICK k \in Nat : k = n * q
    BY <2>1
  <2>4. (k + 99) \div 100 <= n
    BY <2>2, <2>3
  <2> QED
    BY <2>1, <2>3, <2>4
<1>3. observed <= Above(1) /\ Above(1) \in Nat
  BY <1>1, AboveFacts, ObservingFinite DEF TailKept
<1>4. /\ reader'.at = 1 /\ reader'.target = target /\ reader'.cum = 0 /\ reader'.fell = FALSE
      /\ UNCHANGED <<counts, observed, pc>>
  BY DEF ReadTotal, histogram
<1>5. target \in Nat
  BY MetricsTypesKept, <1>1
<1> HIDE DEF target
<1>6. \A b : Above(b)' = SumFunctionOnSet(counts, b..(Bound + 1))
  BY <1>4 DEF Above
<1>7. (reader.target <= reader.cum + Above(reader.at))'
  BY <1>1, <1>2, <1>3, <1>4, <1>5, <1>6 DEF Above
<1> QED
  BY <1>4, <1>7 DEF TailKept, PercentileSound, Observing, Above

\* A reader adds one bucket after the other to what it has.
LEMMA TailReadBucket ==
  ASSUME MetricsTypes, TailKept, ReadBucket
  PROVE  TailKept'
<1>1. /\ Bound \in Nat \ {0} /\ reader.at \in 1..Bound
      /\ reader.target \in Nat /\ reader.cum \in Nat /\ UNCHANGED <<counts, observed, pc>>
  BY MetricsAssumption DEF ReadBucket, histogram, MetricsTypes
<1>2. PICK a \in 1..Bound : a = reader.at
  BY <1>1
<1>3. PICK c \in Nat : c = reader.cum + counts[a] /\ counts[a] \in Nat
  BY <1>1 DEF MetricsTypes, Bucket
<1>4. /\ Above(a) = counts[a] + Above(a + 1) /\ Above(a + 1) \in Nat
      /\ Above(Bound + 1) = counts[Bound + 1] /\ counts[Bound + 1] \in Nat
  <2>1. a \in 1..(Bound + 1) /\ a + 1 \in 1..(Bound + 1) /\ a <= Bound /\ Bound + 1 \in 1..(Bound + 1)
    BY <1>1
  <2> QED
    BY <2>1, AboveFacts
<1>5. reader.target <= c + Above(a + 1)
  <2>1. reader.target <= reader.cum + Above(a)
    BY <1>1, <1>2 DEF TailKept
  <2> QED
    BY <1>1, <1>3, <1>4, <2>1
<1>6. \A b : Above(b)' = Above(b)
  BY <1>1 DEF Above
<1>7. (observed + Cardinality(Observing) = Above(1))'
  BY <1>1, <1>6 DEF TailKept, Observing
<1>8. CASE c >= reader.target \/ a = Bound
  <2>1. reader' = [at |-> 0, target |-> 0, cum |-> 0, fell |-> ~(c >= reader.target)]
    BY <1>2, <1>3, <1>8 DEF ReadBucket, NoReading
  <2>2. ~(c >= reader.target) => counts[Bound + 1] > 0
    BY <1>1, <1>3, <1>4, <1>5, <1>8
  <2>3. reader'.at = 0 /\ reader'.fell = ~(c >= reader.target)
    BY <2>1
  <2>4. PercentileSound'
    BY ZenonT(40), <1>1, <2>2, <2>3 DEF PercentileSound
  <2>5. ~(reader'.at > 0)
    BY <2>3
  <2> QED
    BY <1>7, <2>4, <2>5 DEF TailKept
<1>9. CASE ~(c >= reader.target \/ a = Bound)
  <2>1. reader' = [reader EXCEPT !.at = a + 1, !.cum = c]
    BY <1>2, <1>3, <1>9 DEF ReadBucket
  <2>2. /\ reader'.at = a + 1 /\ reader'.cum = c /\ reader'.target = reader.target
        /\ reader'.fell = reader.fell
    BY <2>1 DEF MetricsTypes
  <2>3. (reader.target <= reader.cum + Above(reader.at))'
    BY <1>1, <1>5, <1>6, <2>2 DEF Above
  <2>4. PercentileSound'
    BY <1>1, <2>2 DEF TailKept, PercentileSound
  <2> QED
    BY <1>7, <2>3, <2>4 DEF TailKept
<1> QED
  BY <1>8, <1>9

\* The histogram stays right in every step.
LEMMA TailIsKept ==
  ASSUME MetricsTypes, TailKept, [MetricsNext]_metricsVars
  PROVE  TailKept'
<1>1. ASSUME NEW p \in Proc, NEW from \in PC \ {"total"}, NEW to \in PC \ {"total"}, Goto(p, from, to)
      PROVE  Observing' = Observing
  BY <1>1, GotoFacts DEF Observing
<1>2. ASSUME NEW p \in Proc, NEW from \in PC \ {"total"}, Leave(p, from) PROVE Observing' = Observing
  BY <1>2, LeaveFacts DEF Observing
<1>3. ASSUME NEW p \in Proc, NEW d \in Decision, Begin(p, d) PROVE TailKept'
  BY <1>1, <1>3, TailSame DEF Begin, histogram, PC
<1>4. ASSUME NEW p \in Proc, Observe(p) PROVE TailKept'
  BY <1>4, TailObserve
<1>5. ASSUME NEW p \in Proc, CountDirection(p) PROVE TailKept'
  BY <1>1, <1>5, TailSame DEF CountDirection, histogram, PC
<1>6. ASSUME NEW p \in Proc, Lookup(p) PROVE TailKept'
  BY <1>1, <1>2, <1>6, TailSame DEF Lookup, histogram, PC
<1>7. ASSUME NEW p \in Proc, Create(p) PROVE TailKept'
  BY <1>1, <1>2, <1>7, TailSame DEF Create, histogram, PC
<1>8. ASSUME NEW p \in Proc, Add(p) PROVE TailKept'
  BY <1>2, <1>8, TailSame DEF Add, histogram, PC
<1>9. ASSUME NEW percent \in Percent, ReadTotal(percent) PROVE TailKept'
  BY <1>9, TailRead
<1>10. CASE ReadBucket
  BY <1>10, TailReadBucket
<1>11. CASE UNCHANGED metricsVars
  BY <1>11, TailSame DEF metricsVars, histogram, Observing
<1> QED
  BY <1>3, <1>4, <1>5, <1>6, <1>7, <1>8, <1>9, <1>10, <1>11 DEF MetricsNext, RecordStep

\* The inductive invariant.
MetricsInv == MetricsTypes /\ AtWork /\ CountsKept /\ TailKept

\* Nothing is recorded at first.
LEMMA MetricsInitially == MetricsInit => MetricsInv
<1> SUFFICES ASSUME MetricsInit PROVE MetricsInv
  OBVIOUS
<1>1. Bound \in Nat \ {0} /\ maxCardinalityPerMap \in Nat /\ Decision # {}
  BY MetricsAssumption
<1>2. /\ reader.at = 0 /\ reader.fell = FALSE
      /\ reader \in [at : 0..Bound, target : Nat, cum : Nat, fell : BOOLEAN]
  BY <1>1 DEF MetricsInit, NoReading
<1>3. MetricsTypes
  <2>1. decision \in [Proc -> Decision]
    BY <1>1 DEF MetricsInit
  <2> QED
    BY <1>2, <2>1 DEF MetricsInit, MetricsTypes, PC, Dimension
<1>4. AtWork
  BY DEF MetricsInit, AtWork
<1>5. \A m, id : Pending(m, id) = {}
  BY DEF MetricsInit, Pending
<1>6. CountsKept
  BY <1>1, <1>5, CardEmpty DEF MetricsInit, CountsKept
<1>7. Observing = {}
  BY DEF MetricsInit, Observing
<1>8. Above(1) = 0
  <2> DEFINE C == {S \in SUBSET Bucket : SumFunctionOnSet(counts, S) = 0}
  <2>1. IsFiniteSet(Bucket) /\ \A b \in Bucket : counts[b] = 0
    BY <1>1, CardInterval DEF Bucket, MetricsInit
  <2>2. ASSUME NEW S \in SUBSET Bucket, \A x \in S : S \ {x} \in C PROVE S \in C
    <3>1. CASE S = {}
      BY <3>1, SumFacts
    <3>2. CASE S # {}
      <4>1. PICK x \in S : TRUE
        BY <3>2
      <4>2. IsFiniteSet(S) /\ \A y \in S : counts[y] \in Int
        BY <2>1, CardSubset
      <4>3. SumFunctionOnSet(counts, S) = counts[x] + SumFunctionOnSet(counts, S \ {x})
        BY <4>2, SumTake
      <4>4. SumFunctionOnSet(counts, S \ {x}) = 0
        BY <2>2
      <4> QED
        BY <2>1, <4>3, <4>4
    <3> QED
      BY <3>1, <3>2
  <2> HIDE DEF C
  <2>3. \A S \in SUBSET Bucket : S \in C
    BY ZenonT(40), <2>1, <2>2, SubsetInduction
  <2>4. Bucket \in C
    BY <2>3
  <2> QED
    BY <2>4 DEF C, Above, Bucket
<1>9. TailKept
  BY <1>2, <1>7, <1>8, CardEmpty DEF TailKept, MetricsInit, PercentileSound
<1> QED
  BY <1>3, <1>4, <1>6, <1>9 DEF MetricsInv

\* For any number of goroutines, ids, buckets and any cap: a counter has counted
\* every decision of its id, and a percentile falls off the finite buckets only if
\* an observation did (metrics.go:85-134, 165-190).
THEOREM MetricsAreSound == MetricsSpec => []MetricsSound
<1>1. MetricsInv /\ [MetricsNext]_metricsVars => MetricsInv'
  BY MetricsTypesKept, AtWorkKept, CountsAreKept, TailIsKept DEF MetricsInv
<1>2. MetricsInv => MetricsSound
  BY DEF MetricsInv, MetricsTypes, CountsKept, TailKept, MetricsSound, CountsExact
<1> QED
  BY MetricsInitially, <1>1, <1>2, PTL DEF MetricsSpec

-----------------------------------------------------------------------------
(* The analytics recorder *)

\* The types of the recorder's state.
AnalyticsTypes ==
  /\ eventCount \in [Event -> Nat] /\ tagCount \in [Tag -> Nat] /\ events \in Nat
  /\ summary \in [step : {"none", "events", "tags", "done"}, byEvent : [Event -> Nat],
                  byTag : [Tag -> Nat], total : Nat]

\* No map counts more than was recorded; one that counts less events is full.
RecorderKept ==
  /\ Cardinality(Keys(eventCount)) <= maxAnalyticsKeys
  /\ SumFunctionOnSet(eventCount, Event) <= events
  /\ SumFunctionOnSet(eventCount, Event) = events \/ Cardinality(Keys(eventCount)) = maxAnalyticsKeys
  /\ \A t \in Tag : tagCount[t] <= events

\* Nor does what a summary has read so far.
SummaryKept ==
  /\ summary.step \in {"events", "tags"} => SumFunctionOnSet(summary.byEvent, Event) <= events
  /\ summary.step = "tags" => \A t \in Tag : summary.byTag[t] <= events
  /\ summary.step = "done" => /\ SumFunctionOnSet(summary.byEvent, Event) <= summary.total
                              /\ \A t \in Tag : summary.byTag[t] <= summary.total

\* The inductive invariant.
AnalyticsInv == AnalyticsTypes /\ RecorderKept /\ SummaryKept

\* The sum over all events, written both ways.
LEMMA SumOfEvents ==
  ASSUME NEW f \in [Event -> Nat]
  PROVE  SumFunctionOnSet(f, Event) \in Nat /\ SumFunction(f) = SumFunctionOnSet(f, Event)
<1>1. SumFunctionOnSet(f, Event) \in Nat
  BY SumNat, AnalyticsAssumption
<1>2. SumFunction(f) = SumFunctionOnSet(f, Event)
  BY DEF SumFunction, FoldFunction, SumFunctionOnSet
<1> QED
  BY <1>1, <1>2

\* One event more.
LEMMA EventCounted ==
  ASSUME AnalyticsTypes, RecorderKept, NEW e \in Event, NEW f, f = Counted(eventCount, e)
  PROVE  /\ f \in [Event -> Nat]
         /\ Cardinality(Keys(f)) <= maxAnalyticsKeys
         /\ SumFunctionOnSet(f, Event) <= events + 1
         /\ SumFunctionOnSet(f, Event) = events + 1 \/ Cardinality(Keys(f)) = maxAnalyticsKeys
<1>1. eventCount \in [Event -> Nat] /\ events \in Nat /\ maxAnalyticsKeys \in Nat /\ IsFiniteSet(Event)
  BY AnalyticsAssumption DEF AnalyticsTypes
<1>2. PICK n \in Nat : n = SumFunctionOnSet(eventCount, Event)
  BY <1>1, SumOfEvents
<1>3. /\ Keys(eventCount) \in SUBSET Event /\ IsFiniteSet(Keys(eventCount))
      /\ Cardinality(Keys(eventCount)) \in Nat
  <2>1. Keys(eventCount) \in SUBSET Event
    BY <1>1 DEF Keys
  <2> QED
    BY <1>1, <2>1, CardSubset, CardType
<1>4. CASE e \in Keys(eventCount) \/ Cardinality(Keys(eventCount)) < maxAnalyticsKeys
  <2>1. f = [eventCount EXCEPT ![e] = eventCount[e] + 1]
    BY <1>4 DEF Counted
  <2>2. f \in [Event -> Nat] /\ f[e] = eventCount[e] + 1 /\ \A x \in Event \ {e} : f[x] = eventCount[x]
    BY <1>1, <2>1
  <2>3. SumFunctionOnSet(f, Event) = SumFunctionOnSet(eventCount, Event) + 1
    <3>1. PICK g, S, y : g = eventCount /\ S = Event /\ y = e
      OBVIOUS
    <3>2. /\ IsFiniteSet(S) /\ y \in S /\ 1 \in Int /\ \A x \in S : g[x] \in Int
          /\ f[y] = g[y] + 1 /\ \A x \in S \ {y} : f[x] = g[x]
      BY <1>1, <2>2, <3>1
    <3>3. SumFunctionOnSet(f, S) = SumFunctionOnSet(g, S) + 1
      BY ONLY <3>2, SumChanged
    <3> QED
      BY <3>1, <3>3
  <2>4. Keys(f) = Keys(eventCount) \union {e}
    BY <1>1, <2>2 DEF Keys
  <2>5. Cardinality(Keys(f)) = IF e \in Keys(eventCount) THEN Cardinality(Keys(eventCount))
                               ELSE Cardinality(Keys(eventCount)) + 1
    BY ZenonT(40), <1>3, <2>4, CardAdd
  <2> QED
    BY <1>1, <1>2, <1>3, <1>4, <2>2, <2>3, <2>5 DEF RecorderKept
<1>5. CASE ~(e \in Keys(eventCount) \/ Cardinality(Keys(eventCount)) < maxAnalyticsKeys)
  <2>1. f = eventCount
    BY <1>5 DEF Counted
  <2> QED
    BY <1>1, <1>2, <1>3, <1>5, <2>1 DEF RecorderKept
<1> QED
  BY <1>4, <1>5

\* No row that is cut off adds anything.
LEMMA RowsCut ==
  ASSUME NEW K, NEW f \in [K -> Nat], NEW n
  PROVE  FirstRows(f, n) \in [K -> Nat] /\ \A k \in K : FirstRows(f, n)[k] <= f[k]
BY DEF FirstRows

\* Recording an event: it is counted in its map unless the map is full.
LEMMA RecordKeeps ==
  ASSUME AnalyticsInv, NEW e \in Event, NEW tags \in SUBSET Tag, Record(e, tags)
  PROVE  AnalyticsInv'
<1> USE DEF AnalyticsInv
<1>1. /\ eventCount' = Counted(eventCount, e) /\ events' = events + 1 /\ events \in Nat
      /\ tagCount' \in CountedAll(tagCount, tags) /\ summary' = summary
  BY DEF Record, AnalyticsTypes
<1>2. tagCount' \in [Tag -> Nat] /\ \A t \in Tag : tagCount'[t] <= tagCount[t] + 1
  <2>1. tagCount \in [Tag -> Nat]
    BY DEF AnalyticsTypes
  <2>2. PICK T : tagCount' = [k \in Tag |-> IF k \in T THEN tagCount[k] + 1 ELSE tagCount[k]]
    BY ZenonT(40), <1>1, <2>1 DEF CountedAll
  <2> QED
    BY <2>1, <2>2
<1>3. \A t \in Tag : tagCount'[t] <= events'
  BY <1>1, <1>2 DEF AnalyticsTypes, RecorderKept
<1>4. /\ eventCount' \in [Event -> Nat]
      /\ Cardinality(Keys(eventCount')) <= maxAnalyticsKeys
      /\ SumFunctionOnSet(eventCount', Event) <= events + 1
      /\ SumFunctionOnSet(eventCount', Event) = events + 1 \/ Cardinality(Keys(eventCount')) = maxAnalyticsKeys
  BY <1>1, EventCounted
<1>5. AnalyticsTypes' /\ RecorderKept'
  BY <1>1, <1>2, <1>3, <1>4 DEF AnalyticsTypes, RecorderKept
<1>6. SummaryKept'
  <2>1. SumFunctionOnSet(summary.byEvent, Event) \in Nat /\ \A t \in Tag : summary.byTag[t] \in Nat
    BY SumOfEvents DEF AnalyticsTypes
  <2> QED
    BY <1>1, <2>1 DEF SummaryKept
<1> QED
  BY <1>5, <1>6

\* Every step keeps the invariant.
LEMMA AnalyticsKept == AnalyticsInv /\ [AnalyticsNext]_analyticsVars => AnalyticsInv'
<1> SUFFICES ASSUME AnalyticsInv, [AnalyticsNext]_analyticsVars PROVE AnalyticsInv'
  OBVIOUS
<1> USE DEF AnalyticsInv
<1>1. ASSUME NEW e \in Event, NEW tags \in SUBSET Tag, Record(e, tags) PROVE AnalyticsInv'
  BY <1>1, RecordKeeps
<1>2. ASSUME UNCHANGED <<eventCount, tagCount, events>>, SummaryKept',
             summary' \in [step : {"none", "events", "tags", "done"}, byEvent : [Event -> Nat],
                           byTag : [Tag -> Nat], total : Nat]
      PROVE  AnalyticsInv'
  BY <1>2 DEF AnalyticsTypes, RecorderKept
<1>3. CASE Snapshot
  <2>1. /\ summary' = [step |-> "events", byEvent |-> eventCount, byTag |-> [t \in Tag |-> 0], total |-> 0]
        /\ UNCHANGED <<eventCount, tagCount, events>>
    BY ZenonT(40), <1>3 DEF Snapshot, NoSummary, Empty
  <2>2. summary'.step = "events" /\ summary'.byEvent = eventCount
    BY <2>1
  <2>3. SummaryKept'
    BY <2>1, <2>2 DEF SummaryKept, RecorderKept
  <2>4. eventCount \in [Event -> Nat] /\ [t \in Tag |-> 0] \in [Tag -> Nat]
    BY DEF AnalyticsTypes
  <2> QED
    BY <1>2, <2>1, <2>3, <2>4
<1>4. CASE SnapshotTags
  <2>1. /\ summary' = [step |-> "tags", byEvent |-> summary.byEvent, byTag |-> tagCount, total |-> summary.total]
        /\ UNCHANGED <<eventCount, tagCount, events>> /\ summary.step = "events"
    BY ZenonT(40), <1>4 DEF SnapshotTags, AnalyticsTypes
  <2>2. summary'.step = "tags" /\ summary'.byEvent = summary.byEvent /\ summary'.byTag = tagCount
    BY <2>1
  <2>3. SummaryKept'
    BY <2>1, <2>2 DEF SummaryKept, RecorderKept
  <2>4. tagCount \in [Tag -> Nat] /\ summary.byEvent \in [Event -> Nat] /\ summary.total \in Nat
    BY DEF AnalyticsTypes
  <2> QED
    BY <1>2, <2>1, <2>3, <2>4
<1>5. ASSUME NEW top \in Top, Total(top) PROVE AnalyticsInv'
  <2>1. /\ summary' = [step |-> "done", byEvent |-> FirstRows(summary.byEvent, top),
                       byTag |-> FirstRows(summary.byTag, top), total |-> events]
        /\ UNCHANGED <<eventCount, tagCount, events>> /\ summary.step = "tags"
    BY <1>5 DEF Total
  <2>2. PICK f \in [Event -> Nat], g \in [Tag -> Nat] : f = summary.byEvent /\ g = summary.byTag
    BY DEF AnalyticsTypes
  <2>3. /\ FirstRows(f, top) \in [Event -> Nat] /\ \A k \in Event : FirstRows(f, top)[k] <= f[k]
        /\ FirstRows(g, top) \in [Tag -> Nat] /\ \A k \in Tag : FirstRows(g, top)[k] <= g[k]
    BY RowsCut
  <2>4. PICK F, G : F = FirstRows(f, top) /\ G = FirstRows(g, top)
    OBVIOUS
  <2>5. SumFunctionOnSet(F, Event) <= SumFunctionOnSet(f, Event)
    BY <2>3, <2>4, SumMonotone, AnalyticsAssumption
  <2>6. /\ SumFunctionOnSet(f, Event) <= events /\ \A t \in Tag : g[t] <= events
        /\ SumFunctionOnSet(f, Event) \in Nat /\ SumFunctionOnSet(F, Event) \in Nat /\ events \in Nat
    BY <2>1, <2>2, <2>3, <2>4, SumOfEvents DEF SummaryKept, AnalyticsTypes
  <2>7. SumFunctionOnSet(F, Event) <= events /\ \A t \in Tag : G[t] <= events
    BY <2>3, <2>4, <2>5, <2>6
  <2>8. summary'.step = "done" /\ summary'.byEvent = F /\ summary'.byTag = G /\ summary'.total = events
    BY <2>1, <2>2, <2>4
  <2>9. SummaryKept'
    BY <2>7, <2>8 DEF SummaryKept
  <2> QED
    BY <1>2, <2>1, <2>2, <2>3, <2>6, <2>9
<1>6. CASE BadRequest
  <2>1. /\ summary' = [step |-> "none", byEvent |-> [e \in Event |-> 0], byTag |-> [t \in Tag |-> 0], total |-> 0]
        /\ UNCHANGED <<eventCount, tagCount, events>>
    BY <1>6 DEF BadRequest, NoSummary, Empty
  <2>2. summary'.step = "none"
    BY <2>1
  <2>3. SummaryKept'
    BY <2>2 DEF SummaryKept
  <2> QED
    BY <1>2, <2>1, <2>3
<1>7. CASE UNCHANGED analyticsVars
  BY <1>7 DEF analyticsVars, AnalyticsTypes, RecorderKept, SummaryKept
<1> QED
  BY <1>1, <1>3, <1>4, <1>5, <1>6, <1>7 DEF AnalyticsNext

\* Nothing is recorded at first.
LEMMA AnalyticsInitially == AnalyticsInit => AnalyticsInv
<1> SUFFICES ASSUME AnalyticsInit PROVE AnalyticsInv
  OBVIOUS
<1>1. /\ eventCount = [e \in Event |-> 0] /\ tagCount = [t \in Tag |-> 0] /\ events = 0
      /\ summary = [step |-> "none", byEvent |-> [e \in Event |-> 0], byTag |-> [t \in Tag |-> 0], total |-> 0]
  BY DEF AnalyticsInit, NoSummary, Empty
<1>2. AnalyticsTypes
  BY <1>1 DEF AnalyticsTypes
<1>3. summary.step = "none"
  BY <1>1
<1>4. Keys(eventCount) = {}
  BY <1>1 DEF Keys
<1>5. SumFunctionOnSet(eventCount, Event) = 0
  BY <1>1, SumZero, AnalyticsAssumption
<1> QED
  BY <1>1, <1>2, <1>3, <1>4, <1>5, CardEmpty, AnalyticsAssumption DEF AnalyticsInv, RecorderKept, SummaryKept

\* A summary of such a recorder adds up.
LEMMA AnalyticsAddsUp == AnalyticsInv => SummaryAddsUp
<1> SUFFICES ASSUME AnalyticsInv PROVE SummaryAddsUp
  OBVIOUS
<1>1. /\ SumFunction(eventCount) = SumFunctionOnSet(eventCount, Event)
      /\ SumFunction(summary.byEvent) = SumFunctionOnSet(summary.byEvent, Event)
  BY SumOfEvents DEF AnalyticsInv, AnalyticsTypes
<1> QED
  BY <1>1 DEF AnalyticsInv, RecorderKept, SummaryKept, SummaryAddsUp

\* Whatever is recorded while a summary reads the counters one after the other, it
\* never shows more events than its total; and the recorder counts every event as
\* long as its map has room (recorder.go:29-42, 80-115).
THEOREM SummariesAddUp == AnalyticsSpec => []SummaryAddsUp
BY AnalyticsInitially, AnalyticsKept, AnalyticsAddsUp, PTL DEF AnalyticsSpec

-----------------------------------------------------------------------------
(* The audit log *)

\* The strengthening: once the goroutine has left its loop no early record is
\* in the channel or in its hand, and none can come, since Close was called.
AuditInv ==
  /\ AuditTypeOK
  /\ closer = "open" => loop \in {"select", "write"}
  /\ closer = "returned" => loop = "exited"
  /\ loop = "exited" => \A i \in 1..Len(ch) : ch[i] # "early"

\* The logger starts open and empty.
LEMMA AuditInitially == AuditInit => AuditInv
BY DEF AuditInit, AuditInv, AuditTypeOK, LogRecord, NoRecord

\* What the channel operations do to the elements.
LEMMA ChannelFacts ==
  ASSUME NEW s \in Seq(LogRecord)
  PROVE  /\ s # <<>> => Head(s) \in LogRecord /\ Tail(s) \in Seq(LogRecord)
         /\ \A r \in LogRecord :
              /\ Append(s, r) \in Seq(LogRecord) /\ Len(Append(s, r)) = Len(s) + 1
              /\ \A i \in 1..Len(Append(s, r)) :
                   Append(s, r)[i] = IF i <= Len(s) THEN s[i] ELSE r
OBVIOUS

\* Every step keeps the invariant.
LEMMA AuditKept == AuditInv /\ [AuditNext]_auditVars => AuditInv'
<1> SUFFICES ASSUME AuditInv, [AuditNext]_auditVars PROVE AuditInv'
  OBVIOUS
<1>1. CASE Log
  <2> DEFINE rec == IF closer = "open" THEN "early" ELSE "late"
  <2>1. ch \in Seq(LogRecord) /\ rec \in LogRecord /\ ch' = Append(ch, rec)
    BY <1>1 DEF AuditInv, AuditTypeOK, Log, LogRecord
  <2>2. ch' \in Seq(LogRecord)
    BY <2>1, ChannelFacts
  <2>3. loop = "exited" => \A i \in 1..Len(ch') : ch'[i] # "early"
    BY <1>1, <2>1, ChannelFacts DEF AuditInv, Log
  <2> QED
    BY <1>1, <2>2, <2>3 DEF AuditInv, AuditTypeOK, Log
<1>2. CASE LogDropped
  BY <1>2 DEF LogDropped, AuditInv, AuditTypeOK, auditVars
<1>3. CASE Close
  BY <1>3 DEF Close, AuditInv, AuditTypeOK
<1>4. CASE CloseReturns
  BY <1>4 DEF CloseReturns, AuditInv, AuditTypeOK
<1>5. CASE ReceiveRecord
  <2>1. Head(ch) \in LogRecord /\ Tail(ch) \in Seq(LogRecord)
    BY <1>5, ChannelFacts DEF AuditInv, AuditTypeOK, ReceiveRecord
  <2> QED
    BY <1>5, <2>1 DEF ReceiveRecord, AuditInv, AuditTypeOK, LogRecord, NoRecord
<1>6. CASE Write
  BY <1>6 DEF Write, AuditInv, AuditTypeOK, LogRecord, NoRecord
<1>7. CASE ReceiveStop
  BY <1>7 DEF ReceiveStop, AuditInv, AuditTypeOK, LogRecord, NoRecord
<1>8. CASE Drained
  BY <1>8 DEF Drained, AuditInv, AuditTypeOK
<1>9. CASE UNCHANGED auditVars
  BY <1>9 DEF auditVars, AuditInv, AuditTypeOK
<1> QED
  BY <1>1, <1>2, <1>3, <1>4, <1>5, <1>6, <1>7, <1>8, <1>9 DEF AuditNext, AuditLoopStep

\* When Close has returned nothing early is left to write.
LEMMA AuditWrites == AuditInv => EarlyRecordsWritten
<1> SUFFICES ASSUME AuditInv, closer = "returned"
             PROVE  "early" \notin Range(ch) /\ hand = NoRecord
  BY DEF EarlyRecordsWritten
<1>1. hand = NoRecord
  BY DEF AuditInv, AuditTypeOK
<1>2. DOMAIN ch = 1..Len(ch)
  BY DEF AuditInv, AuditTypeOK
<1> QED
  BY <1>1, <1>2 DEF AuditInv, Range

\* For every buffer size, and whatever callers and the goroutine do: when Close
\* returns, each record whose Log call returned nil before Close was called has
\* been handed to the inner logger (audit.go:93-137).
THEOREM CloseDrains == AuditSpec => []EarlyRecordsWritten
BY AuditInitially, AuditKept, AuditWrites, PTL DEF AuditSpec
=============================================================================
