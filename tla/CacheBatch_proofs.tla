------------------------- MODULE CacheBatch_proofs --------------------------
(***************************************************************************)
(* Two components that run goroutines side by side. For any number of      *)
(* callers, namespaces and changes, the policy cache loads a namespace     *)
(* once at a time, stays within its cap, and returns no value older than a *)
(* ttl and the time a call takes. For any batch and any number of workers, *)
(* the pools of the batch processors evaluate its records as if one after  *)
(* the other. No definition of one is used in the proofs of the other.     *)
(***************************************************************************)
EXTENDS PolicyCache, TelemetryBatch, SumTheorems

\* The time a prover has for a leaf that names none.
USE SMTT(40), ZenonT(40)

-----------------------------------------------------------------------------
(* The policy cache *)

\* The steps of a caller that loads for its namespace.
Leading == {"load", "set", "done", "cleanup"}

\* How the calls in progress and their waiters hang together: a namespace's
\* call is led by the caller that is registered for it, and by no other.
CallsOK ==
  /\ \A p \in Proc : pc[p] \in Running => ns[p] \in Namespace
  /\ \A p \in Proc : pc[p] \in {"join", "wait", "done", "cleanup"} => singleflight
  /\ \A p \in Proc : singleflight /\ pc[p] \in Leading => sfCalls[ns[p]] = p
  /\ \A n \in Namespace : sfCalls[n] # NoProc =>
       singleflight /\ pc[sfCalls[n]] \in Leading /\ ns[sfCalls[n]] = n
  /\ \A p \in Proc : IF pc[p] = "wait"
                     THEN /\ leader[p] \in Proc
                          /\ pc[leader[p]] \in Leading /\ ns[leader[p]] = ns[p]
                     ELSE leader[p] = NoProc

\* How old a value can be: what a running call has loaded was current at some
\* instant of the call, and an entry was stored by such a call.
AgeOK ==
  /\ now >= 1
  /\ superseded \in [Version -> 0..now]
  /\ \A v \in Version : v >= version => superseded[v] = 0
  /\ \A p \in Proc : pc[p] \in Running => now <= since[p] + Stall
  /\ \A p \in Proc : pc[p] \in {"get", "join", "load"} => val[p] = NoValue
  /\ \A p \in Proc : pc[p] = "set" => val[p] \in Version
  /\ \A p \in Proc : pc[p] \in Leading /\ val[p] # NoValue =>
       superseded[val[p]] = 0 \/ superseded[val[p]] >= since[p]
  /\ \A n \in DOMAIN items :
       /\ items[n].expiry <= now + TTL
       /\ LET s == superseded[items[n].value]
          IN  s = 0 \/ s >= items[n].expiry - TTL - Stall

\* The inductive invariant.
CacheInv == CacheTypeOK /\ CallsOK /\ AgeOK

\* The cache is within its size.
Capped == IsFiniteSet(DOMAIN items) /\ Cardinality(DOMAIN items) <= MaxItems

\* The cache starts empty, with no call in progress.
LEMMA InitCache == CacheInit => CacheInv
<1> SUFFICES ASSUME CacheInit PROVE CacheInv
  OBVIOUS
<1>1. DOMAIN items = {}
  BY DEF CacheInit
<1>2. CacheTypeOK
  BY <1>1, CacheAssumption DEF CacheInit, CacheTypeOK, Ended, Version
<1>3. CallsOK
  BY DEF CacheInit, CallsOK, Running, Leading
<1>4. AgeOK
  BY <1>1, CacheAssumption DEF CacheInit, AgeOK, Version, Running, Leading
<1> QED
  BY <1>2, <1>3, <1>4 DEF CacheInv

\* What a step may do to the entries: each is an old one, or the new one that
\* Set stores.
LEMMA RestrictedItems ==
  ASSUME NEW S, items' = Restrict(items, S)
  PROVE  DOMAIN items' = S /\ \A n \in S : items'[n] = items[n]
BY DEF Restrict

\* Storing an entry, after an eviction or not, leaves a map of entries.
LEMMA StoredItems ==
  ASSUME NEW n, NEW v, Stored(n, v)
  PROVE  /\ DOMAIN items' \subseteq DOMAIN items \union {n}
         /\ \A m \in DOMAIN items' :
              items'[m] = IF m = n THEN [value |-> v, expiry |-> now + TTL, lastUsed |-> now]
                                   ELSE items[m]
<1> DEFINE entry == [value |-> v, expiry |-> now + TTL, lastUsed |-> now]
           map == [m \in DOMAIN items \union {n} |-> IF m = n THEN entry ELSE items[m]]
<1>1. items' \in IF Cardinality(DOMAIN map) > MaxItems THEN Evicted(map) ELSE {map}
  BY DEF Stored
<1>2. items' = map \/ \E o \in DOMAIN map : items' = Restrict(map, DOMAIN map \ {o})
  <2> HIDE DEF map
  <2> QED
    BY <1>1 DEF Evicted
<1>3. CASE items' = map
  BY <1>3
<1>4. ASSUME NEW o \in DOMAIN map, items' = Restrict(map, DOMAIN map \ {o})
      PROVE  DOMAIN items' = DOMAIN map \ {o} /\ \A m \in DOMAIN items' : items'[m] = map[m]
  BY <1>4 DEF Restrict
<1> QED
  BY ZenonT(40), <1>2, <1>3, <1>4

\* A caller that returns is registered no more, and nobody waits for it.
LEMMA ReturnedCalls ==
  ASSUME NEW P \in SUBSET Proc, NEW v, Return(P, v)
  PROVE  /\ pc' = [p \in Proc |-> IF p \in P THEN "returned" ELSE pc[p]]
         /\ val' = [p \in Proc |-> IF p \in P THEN v ELSE val[p]]
         /\ ns' = [p \in Proc |-> IF p \in P THEN NoName ELSE ns[p]]
         /\ since' = [p \in Proc |-> IF p \in P THEN 0 ELSE since[p]]
         /\ leader' = [p \in Proc |-> IF p \in P THEN NoProc ELSE leader[p]]
BY DEF Return

\* A step of the calls that leaves the map, the store and the clock alone.
LEMMA ReturnKeeps ==
  ASSUME CacheInv, NEW P \in SUBSET Proc, NEW v \in Version \union {NoValue}, Return(P, v),
         UNCHANGED <<clock, store, items, sfCalls>>,
         \A n \in Namespace : sfCalls[n] \notin P,
         \A p \in Proc : leader[p] \in P => p \in P
  PROVE  CacheInv'
<1>1. /\ pc' = [p \in Proc |-> IF p \in P THEN "returned" ELSE pc[p]]
      /\ val' = [p \in Proc |-> IF p \in P THEN v ELSE val[p]]
      /\ ns' = [p \in Proc |-> IF p \in P THEN NoName ELSE ns[p]]
      /\ since' = [p \in Proc |-> IF p \in P THEN 0 ELSE since[p]]
      /\ leader' = [p \in Proc |-> IF p \in P THEN NoProc ELSE leader[p]]
  BY ReturnedCalls
<1>2. UNCHANGED <<now, singleflight, version, superseded, items, sfCalls>>
  BY DEF clock, store
<1>3. CacheTypeOK'
  BY <1>1, <1>2 DEF CacheInv, CacheTypeOK, Ended
<1>4. CallsOK'
  BY <1>1, <1>2 DEF CacheInv, CallsOK, CacheTypeOK, Running, Leading
<1>5. AgeOK'
  BY <1>1, <1>2 DEF CacheInv, AgeOK, CacheTypeOK, Running, Leading
<1> QED
  BY <1>3, <1>4, <1>5 DEF CacheInv

\* Time passes.
LEMMA TickKeeps == CacheInv /\ Tick => CacheInv'
<1> SUFFICES ASSUME CacheInv, Tick PROVE CacheInv'
  OBVIOUS
<1>1. /\ now' = now + 1 /\ now \in Nat
      /\ UNCHANGED <<singleflight, version, superseded, items, sfCalls, pc, ns, since, val, leader>>
      /\ \A p \in Proc : pc[p] \in Running => now < since[p] + Stall
  BY DEF Tick, store, callers, CacheInv, CacheTypeOK
<1>2. CacheTypeOK'
  BY <1>1 DEF CacheInv, CacheTypeOK
<1>3. CallsOK'
  BY <1>1 DEF CacheInv, CallsOK
<1>4. AgeOK'
  BY <1>1, CacheAssumption DEF CacheInv, AgeOK, CacheTypeOK, Version
<1> QED
  BY <1>2, <1>3, <1>4 DEF CacheInv

\* The policies of the store change.
LEMMA ChangeKeeps == CacheInv /\ Change => CacheInv'
<1> SUFFICES ASSUME CacheInv, Change PROVE CacheInv'
  OBVIOUS
<1>1. /\ version < MaxVersion /\ version' = version + 1
      /\ superseded' = [superseded EXCEPT ![version] = now]
      /\ UNCHANGED <<now, singleflight, items, sfCalls, pc, ns, since, val, leader>>
  BY DEF Change, clock, callers
<1>2. CacheTypeOK'
  BY <1>1, CacheAssumption DEF CacheInv, CacheTypeOK, Version
<1>3. CallsOK'
  BY <1>1 DEF CacheInv, CallsOK
<1>4. AgeOK'
  BY <1>1, CacheAssumption DEF CacheInv, AgeOK, CacheTypeOK, Version
<1> QED
  BY <1>2, <1>3, <1>4 DEF CacheInv

\* Removing entries.
LEMMA RemovalKeeps ==
  ASSUME CacheInv, NEW S \in SUBSET DOMAIN items, items' = Restrict(items, S),
         UNCHANGED <<clock, store, sfCalls, callers>>
  PROVE  CacheInv'
<1>1. DOMAIN items' = S /\ \A n \in S : items'[n] = items[n]
  BY RestrictedItems
<1>2. UNCHANGED <<now, singleflight, version, superseded, sfCalls, pc, ns, since, val, leader>>
  BY DEF clock, store, callers
<1>3. CacheTypeOK'
  BY <1>1, <1>2 DEF CacheInv, CacheTypeOK
<1>4. CallsOK'
  BY <1>2 DEF CacheInv, CallsOK
<1>5. AgeOK'
  BY <1>1, <1>2 DEF CacheInv, AgeOK
<1> QED
  BY <1>3, <1>4, <1>5 DEF CacheInv

\* A request looks into the cache.
LEMMA StartKeeps ==
  ASSUME CacheInv, NEW p \in Proc, NEW n \in Namespace, Start(p, n)
  PROVE  CacheInv'
<1>1. /\ pc[p] \in Ended /\ pc' = [pc EXCEPT ![p] = "get"] /\ ns' = [ns EXCEPT ![p] = n]
      /\ since' = [since EXCEPT ![p] = now] /\ val' = [val EXCEPT ![p] = NoValue]
      /\ UNCHANGED <<now, singleflight, version, superseded, items, sfCalls, leader>>
  BY DEF Start, clock, store
<1>2. CacheTypeOK'
  BY <1>1 DEF CacheInv, CacheTypeOK, Running
<1>3. CallsOK'
  BY <1>1 DEF CacheInv, CallsOK, CacheTypeOK, Running, Leading, Ended
<1>4. AgeOK'
  BY <1>1, CacheAssumption DEF CacheInv, AgeOK, CacheTypeOK, Running, Leading, Ended
<1> QED
  BY <1>2, <1>3, <1>4 DEF CacheInv

\* A caller that is not registered and goes on.
LEMMA GetKeeps ==
  ASSUME CacheInv, NEW p \in Proc, Get(p)
  PROVE  CacheInv'
<1>1. pc[p] = "get" /\ UNCHANGED <<clock, store, items, sfCalls>>
  BY DEF Get
<1>2. CASE Fresh(ns[p])
  <2>1. Return({p}, items[ns[p]].value)
    BY <1>2 DEF Get
  <2>2. items[ns[p]].value \in Version
    BY <1>2 DEF Fresh, CacheInv, CacheTypeOK
  <2>3. \A n \in Namespace : sfCalls[n] # p
    BY <1>1, CacheAssumption DEF CacheInv, CallsOK, Leading
  <2>4. \A q \in Proc : leader[q] # p
    BY <1>1, CacheAssumption DEF CacheInv, CallsOK, Leading
  <2> QED
    BY <1>1, <2>1, <2>2, <2>3, <2>4, ReturnKeeps
<1>3. CASE ~Fresh(ns[p])
  <2>1. /\ pc' = [pc EXCEPT ![p] = IF singleflight THEN "join" ELSE "load"]
        /\ UNCHANGED <<now, singleflight, version, superseded, items, sfCalls, ns, since, val, leader>>
    BY <1>1, <1>3 DEF Get, clock, store
  <2>2. CacheTypeOK'
    BY <2>1 DEF CacheInv, CacheTypeOK, Running
  <2>3. CallsOK'
    BY <1>1, <2>1, CacheAssumption DEF CacheInv, CallsOK, CacheTypeOK, Running, Leading
  <2>4. AgeOK'
    BY <1>1, <2>1 DEF CacheInv, AgeOK, CacheTypeOK, Running, Leading
  <2> QED
    BY <2>2, <2>3, <2>4 DEF CacheInv
<1> QED
  BY <1>2, <1>3

\* A caller joins the call in progress, or leads a new one.
LEMMA JoinKeeps ==
  ASSUME CacheInv, NEW p \in Proc, Join(p)
  PROVE  CacheInv'
<1> DEFINE n == ns[p]
<1>1. /\ pc[p] = "join" /\ n \in Namespace /\ singleflight
      /\ UNCHANGED <<now, singleflight, version, superseded, items, ns, since, val>>
  BY DEF Join, clock, store, CacheInv, CallsOK, Running
<1>2. CASE /\ sfCalls[n] # NoProc /\ UNCHANGED sfCalls
           /\ leader' = [leader EXCEPT ![p] = sfCalls[n]]
           /\ pc' = [pc EXCEPT ![p] = "wait"]
  <2>1. CacheTypeOK'
    BY <1>1, <1>2 DEF CacheInv, CacheTypeOK, Running
  <2>2. CallsOK'
    BY <1>1, <1>2, CacheAssumption DEF CacheInv, CallsOK, CacheTypeOK, Running, Leading
  <2>3. AgeOK'
    BY <1>1, <1>2 DEF CacheInv, AgeOK, CacheTypeOK, Running, Leading
  <2> QED
    BY <2>1, <2>2, <2>3 DEF CacheInv
<1>3. CASE /\ sfCalls[n] = NoProc /\ UNCHANGED leader
           /\ sfCalls' = [sfCalls EXCEPT ![n] = p]
           /\ pc' = [pc EXCEPT ![p] = "load"]
  <2>1. CacheTypeOK'
    BY <1>1, <1>3 DEF CacheInv, CacheTypeOK, Running
  <2>2. CallsOK'
    BY <1>1, <1>3, CacheAssumption DEF CacheInv, CallsOK, CacheTypeOK, Running, Leading
  <2>3. AgeOK'
    BY <1>1, <1>3 DEF CacheInv, AgeOK, CacheTypeOK, Running, Leading
  <2> QED
    BY <2>1, <2>2, <2>3 DEF CacheInv
<1> QED
  BY <1>2, <1>3 DEF Join

\* A leader reads the store.
LEMMA LoadKeeps ==
  ASSUME CacheInv, NEW p \in Proc, Load(p)
  PROVE  CacheInv'
<1>1. /\ pc[p] = "load" /\ pc' = [pc EXCEPT ![p] = "set"] /\ val' = [val EXCEPT ![p] = version]
      /\ UNCHANGED <<now, singleflight, version, superseded, items, sfCalls, ns, since, leader>>
  BY DEF Load, clock, store
<1>2. CacheTypeOK'
  BY <1>1 DEF CacheInv, CacheTypeOK, Running
<1>3. CallsOK'
  BY <1>1, CacheAssumption DEF CacheInv, CallsOK, CacheTypeOK, Running, Leading
<1>4. AgeOK'
  BY <1>1, CacheAssumption DEF CacheInv, AgeOK, CacheTypeOK, Running, Leading, Version
<1> QED
  BY <1>2, <1>3, <1>4 DEF CacheInv

\* Calls that have nobody registered for them, and for whom nobody waits.
LEMMA AloneWithoutSingleflight ==
  ASSUME CacheInv, NEW p \in Proc, ~singleflight
  PROVE  /\ \A n \in Namespace : sfCalls[n] \notin {p}
         /\ \A q \in Proc : leader[q] \in {p} => q \in {p}
BY CacheAssumption DEF CacheInv, CallsOK

\* A leader moves on and keeps what it has loaded.
LEMMA LeadsOn ==
  ASSUME CacheInv, NEW p \in Proc, NEW to \in {"done", "cleanup"}, pc[p] \in Leading, singleflight,
         pc' = [pc EXCEPT ![p] = to],
         UNCHANGED <<now, singleflight, version, superseded, sfCalls, ns, since, val, leader>>
  PROVE  /\ CallsOK' /\ pc' \in [Proc -> Running \union Ended]
         /\ UNCHANGED items => CacheInv'
<1>1. CallsOK'
  BY CacheAssumption DEF CacheInv, CallsOK, CacheTypeOK, Running, Leading
<1>2. pc' \in [Proc -> Running \union Ended]
  BY DEF CacheInv, CacheTypeOK, Running
<1>3. ASSUME UNCHANGED items PROVE CacheTypeOK' /\ AgeOK'
  <2>1. CacheTypeOK'
    BY <1>2, <1>3 DEF CacheInv, CacheTypeOK
  <2>2. AgeOK'
    BY <1>3 DEF CacheInv, AgeOK, CacheTypeOK, Running, Leading
  <2> QED
    BY <2>1, <2>2
<1> QED
  BY <1>1, <1>2, <1>3 DEF CacheInv

\* The store fails.
LEMMA LoadFailsKeeps ==
  ASSUME CacheInv, NEW p \in Proc, LoadFails(p)
  PROVE  CacheInv'
<1>1. pc[p] = "load" /\ UNCHANGED <<clock, store, items, sfCalls>>
  BY DEF LoadFails
<1>2. CASE singleflight
  <2>1. pc' = [pc EXCEPT ![p] = "done"] /\ UNCHANGED <<ns, since, val, leader>>
    BY <1>2 DEF LoadFails
  <2> QED
    BY ZenonT(40), <1>1, <1>2, <2>1, LeadsOn DEF clock, store, Leading
<1>3. CASE ~singleflight
  <2>1. Return({p}, NoValue)
    BY <1>3 DEF LoadFails
  <2> QED
    BY <1>1, <1>3, <2>1, ReturnKeeps, AloneWithoutSingleflight
<1> QED
  BY <1>2, <1>3

\* A leader hands its result to those who wait.
LEMMA DoneKeeps ==
  ASSUME CacheInv, NEW p \in Proc, Done(p)
  PROVE  CacheInv'
<1>1. /\ pc[p] = "done" /\ pc' = [pc EXCEPT ![p] = "cleanup"] /\ singleflight
      /\ UNCHANGED <<now, singleflight, version, superseded, items, sfCalls, ns, since, val, leader>>
  BY DEF Done, clock, store, CacheInv, CallsOK
<1> QED
  BY ZenonT(40), <1>1, LeadsOn DEF Leading

\* A waiter takes the result.
LEMMA WakeKeeps ==
  ASSUME CacheInv, NEW p \in Proc, Wake(p)
  PROVE  CacheInv'
<1>1. pc[p] = "wait" /\ Return({p}, val[leader[p]]) /\ UNCHANGED <<clock, store, items, sfCalls>>
  BY DEF Wake
<1>2. leader[p] \in Proc /\ val[leader[p]] \in Version \union {NoValue}
  BY <1>1 DEF CacheInv, CallsOK, CacheTypeOK
<1>3. \A n \in Namespace : sfCalls[n] # p
  BY <1>1, CacheAssumption DEF CacheInv, CallsOK, Leading
<1>4. \A q \in Proc : leader[q] # p
  BY <1>1, CacheAssumption DEF CacheInv, CallsOK, Leading
<1> QED
  BY <1>1, <1>2, <1>3, <1>4, ReturnKeeps

\* A leader ends its call.
LEMMA CleanupKeeps ==
  ASSUME CacheInv, NEW p \in Proc, Cleanup(p)
  PROVE  CacheInv'
<1> DEFINE P == {q \in Proc : q = p \/ leader[q] = p}
<1>1. /\ pc[p] = "cleanup" /\ Return(P, val[p])
      /\ sfCalls' = [sfCalls EXCEPT ![ns[p]] = NoProc]
      /\ UNCHANGED <<now, singleflight, version, superseded, items>>
  BY DEF Cleanup, clock, store
<1>2. /\ pc' = [q \in Proc |-> IF q \in P THEN "returned" ELSE pc[q]]
      /\ val' = [q \in Proc |-> IF q \in P THEN val[p] ELSE val[q]]
      /\ ns' = [q \in Proc |-> IF q \in P THEN NoName ELSE ns[q]]
      /\ since' = [q \in Proc |-> IF q \in P THEN 0 ELSE since[q]]
      /\ leader' = [q \in Proc |-> IF q \in P THEN NoProc ELSE leader[q]]
  BY ZenonT(40), <1>1, ReturnedCalls
<1>3. singleflight /\ ns[p] \in Namespace /\ sfCalls[ns[p]] = p
  BY <1>1 DEF CacheInv, CallsOK, Running, Leading
\* Those who return with it are its waiters.
<1>4. \A q \in P : q = p \/ pc[q] = "wait"
  BY CacheAssumption DEF CacheInv, CallsOK
<1>5. \A n \in Namespace : sfCalls[n] \in P => n = ns[p]
  BY <1>4, CacheAssumption DEF CacheInv, CallsOK, Leading
<1>6. \A q \in Proc \ P : pc[q] = "wait" => leader[q] \notin P
  BY <1>4, CacheAssumption DEF CacheInv, CallsOK, Leading
<1> HIDE DEF P
<1>7. CacheTypeOK'
  BY <1>1, <1>2, <1>3 DEF CacheInv, CacheTypeOK, Ended
<1>8. CallsOK'
  <2>1. /\ p \in P /\ pc \in [Proc -> Running \union Ended]
        /\ \A n \in Namespace : sfCalls'[n] = IF n = ns[p] THEN NoProc ELSE sfCalls[n]
    BY <1>1, <1>3 DEF P, CacheInv, CacheTypeOK
  <2>2. \A q \in Proc : pc'[q] # "returned" => q \notin P
    BY <1>2
  <2>3. \A q \in Proc \ P : /\ pc'[q] = pc[q] /\ ns'[q] = ns[q] /\ leader'[q] = leader[q]
    BY <1>2
  <2>4. \A q \in Proc : singleflight' /\ pc'[q] \in Leading => sfCalls'[ns'[q]] = q
    BY <1>1, <1>3, <2>1, <2>2, <2>3 DEF CacheInv, CallsOK, Leading, Running
  <2>5. \A n \in Namespace : sfCalls'[n] # NoProc =>
          singleflight' /\ pc'[sfCalls'[n]] \in Leading /\ ns'[sfCalls'[n]] = n
    BY <1>1, <1>5, <2>1, <2>3 DEF CacheInv, CallsOK, CacheTypeOK
  <2>6. \A q \in Proc : IF pc'[q] = "wait"
                        THEN /\ leader'[q] \in Proc
                             /\ pc'[leader'[q]] \in Leading /\ ns'[leader'[q]] = ns'[q]
                        ELSE leader'[q] = NoProc
    <3>1. \A q \in P : pc'[q] = "returned" /\ leader'[q] = NoProc
      BY <1>2 DEF P
    <3> QED
      BY <1>6, <2>2, <2>3, <3>1 DEF CacheInv, CallsOK
  <2> QED
    BY <1>1, <2>2, <2>3, <2>4, <2>5, <2>6 DEF CacheInv, CallsOK, Running
<1>9. AgeOK'
  BY <1>1, <1>2 DEF CacheInv, AgeOK, CacheTypeOK, Running, Leading
<1> QED
  BY <1>7, <1>8, <1>9 DEF CacheInv

\* What Set stores is as old as its caller's load.
LEMMA SetItems ==
  ASSUME CacheInv, NEW p \in Proc, pc[p] = "set", Stored(ns[p], val[p])
  PROVE  /\ DOMAIN items' \subseteq Namespace
         /\ \A n \in DOMAIN items' :
              /\ items'[n] \in [value : Version, expiry : Nat, lastUsed : 1..now]
              /\ items'[n].expiry <= now + TTL
              /\ LET s == superseded[items'[n].value]
                 IN  s = 0 \/ s >= items'[n].expiry - TTL - Stall
<1> DEFINE entry == [value |-> val[p], expiry |-> now + TTL, lastUsed |-> now]
<1>1. /\ DOMAIN items' \subseteq DOMAIN items \union {ns[p]}
      /\ \A n \in DOMAIN items' : items'[n] = IF n = ns[p] THEN entry ELSE items[n]
  BY StoredItems
<1>2. /\ ns[p] \in Namespace /\ val[p] \in Version /\ now \in Nat /\ now >= 1
      /\ now <= since[p] + Stall /\ since[p] \in 0..now
      /\ superseded[val[p]] \in 0..now
      /\ superseded[val[p]] = 0 \/ superseded[val[p]] >= since[p]
  BY DEF CacheInv, CallsOK, AgeOK, CacheTypeOK, Running, Leading, Version, NoValue
<1>3. /\ entry \in [value : Version, expiry : Nat, lastUsed : 1..now]
      /\ entry.expiry <= now + TTL
      /\ superseded[entry.value] = 0 \/ superseded[entry.value] >= entry.expiry - TTL - Stall
  BY <1>2, CacheAssumption
<1> HIDE DEF entry
<1>4. DOMAIN items' \subseteq Namespace
  BY <1>1, <1>2 DEF CacheInv, CacheTypeOK
<1>5. ASSUME NEW n \in DOMAIN items'
      PROVE  /\ items'[n] \in [value : Version, expiry : Nat, lastUsed : 1..now]
             /\ items'[n].expiry <= now + TTL
             /\ LET s == superseded[items'[n].value]
                IN  s = 0 \/ s >= items'[n].expiry - TTL - Stall
  <2>1. CASE n = ns[p]
    BY <1>1, <1>3, <2>1
  <2>2. CASE n # ns[p]
    BY <1>1, <2>2 DEF CacheInv, CacheTypeOK, AgeOK
  <2> QED
    BY <2>1, <2>2
<1> QED
  BY <1>4, <1>5

\* A leader stores what it has loaded.
LEMMA SetKeeps ==
  ASSUME CacheInv, NEW p \in Proc, Set(p)
  PROVE  CacheInv'
<1>1. /\ pc[p] = "set" /\ Stored(ns[p], val[p]) /\ val[p] \in Version
      /\ UNCHANGED <<now, singleflight, version, superseded, sfCalls>>
  BY DEF Set, clock, store, CacheInv, AgeOK
<1>2. /\ DOMAIN items' \subseteq Namespace
      /\ \A n \in DOMAIN items' :
           /\ items'[n] \in [value : Version, expiry : Nat, lastUsed : 1..now]
           /\ items'[n].expiry <= now + TTL
           /\ LET s == superseded[items'[n].value]
              IN  s = 0 \/ s >= items'[n].expiry - TTL - Stall
  BY <1>1, SetItems
<1>3. CASE singleflight
  <2>1. pc' = [pc EXCEPT ![p] = "done"] /\ UNCHANGED <<ns, since, val, leader>>
    BY <1>3 DEF Set
  <2>2. CallsOK' /\ pc' \in [Proc -> Running \union Ended]
    BY ZenonT(40), <1>1, <1>3, <2>1, LeadsOn DEF Leading
  <2>3. CacheTypeOK'
    BY <1>1, <1>2, <2>1, <2>2 DEF CacheInv, CacheTypeOK
  <2>4. AgeOK'
    BY <1>1, <1>2, <2>1 DEF CacheInv, AgeOK, CacheTypeOK, Running, Leading
  <2> QED
    BY <2>2, <2>3, <2>4 DEF CacheInv
<1>4. CASE ~singleflight
  <2>1. Return({p}, val[p])
    BY <1>4 DEF Set
  <2>2. /\ pc' = [q \in Proc |-> IF q \in {p} THEN "returned" ELSE pc[q]]
        /\ val' = [q \in Proc |-> IF q \in {p} THEN val[p] ELSE val[q]]
        /\ ns' = [q \in Proc |-> IF q \in {p} THEN NoName ELSE ns[q]]
        /\ since' = [q \in Proc |-> IF q \in {p} THEN 0 ELSE since[q]]
        /\ leader' = [q \in Proc |-> IF q \in {p} THEN NoProc ELSE leader[q]]
    BY <2>1 DEF Return
  <2>3. CacheTypeOK'
    BY <1>1, <1>2, <2>2 DEF CacheInv, CacheTypeOK, Ended
  <2>4. CallsOK'
    BY <1>1, <1>4, <2>2, CacheAssumption DEF CacheInv, CallsOK, CacheTypeOK, Running, Leading
  <2>5. AgeOK'
    BY <1>1, <1>2, <2>2 DEF CacheInv, AgeOK, CacheTypeOK, Running, Leading
  <2> QED
    BY <2>3, <2>4, <2>5 DEF CacheInv
<1> QED
  BY <1>3, <1>4

\* Every step keeps the invariant.
LEMMA NextCache == CacheInv /\ [CacheNext]_cacheVars => CacheInv'
<1> SUFFICES ASSUME CacheInv, [CacheNext]_cacheVars PROVE CacheInv'
  OBVIOUS
<1>1. CASE UNCHANGED cacheVars
  BY <1>1 DEF cacheVars, clock, store, callers,
              CacheInv, CacheTypeOK, CallsOK, AgeOK
<1>2. CASE Tick \/ Change
  BY <1>2, TickKeeps, ChangeKeeps
<1>3. CASE sweep
  <2>1. PICK t \in 1..now : items' = Restrict(items, {n \in DOMAIN items : t <= items[n].expiry})
    BY ZenonT(40), <1>3 DEF sweep
  <2> QED
    BY <1>3, <2>1, RemovalKeeps DEF sweep
<1>4. ASSUME NEW n \in Namespace, Invalidate(n) PROVE CacheInv'
  <2>1. items' = Restrict(items, DOMAIN items \ {n}) /\ DOMAIN items \ {n} \subseteq DOMAIN items
    BY <1>4 DEF Invalidate
  <2> QED
    BY <1>4, <2>1, RemovalKeeps DEF Invalidate
<1>5. ASSUME NEW p \in Proc, Step(p) PROVE CacheInv'
  BY <1>5, GetKeeps, JoinKeeps, LoadKeeps, LoadFailsKeeps, SetKeeps, DoneKeeps, WakeKeeps,
     CleanupKeeps DEF Step
<1>6. ASSUME NEW p \in Proc, NEW n \in Namespace, Start(p, n) PROVE CacheInv'
  BY <1>6, StartKeeps
<1> QED
  BY <1>1, <1>2, <1>3, <1>4, <1>5, <1>6 DEF CacheNext

\* The invariant holds throughout.
LEMMA Cache == CacheSpec => []CacheInv
BY InitCache, NextCache, PTL DEF CacheSpec

\* The entries stay within the cap, if the one with the oldest use can always
\* be deleted: no request is without a namespace.
LEMMA StoredCapped ==
  ASSUME Capped, Unnamed \notin Namespace, DOMAIN items \subseteq Namespace,
         NEW n \in Namespace, NEW v, Stored(n, v)
  PROVE  Capped'
<1> DEFINE D == DOMAIN items \union {n}
           map == [m \in D |-> IF m = n THEN [value |-> v, expiry |-> now + TTL, lastUsed |-> now]
                                        ELSE items[m]]
<1>1. /\ IsFiniteSet(D) /\ Cardinality(D) \in Nat
      /\ Cardinality(D) <= MaxItems + 1
  <2>1. /\ IsFiniteSet(D)
        /\ Cardinality(D) = Cardinality(DOMAIN items) + 1 \/ D = DOMAIN items
    BY CardAdd DEF Capped
  <2>2. Cardinality(D) \in Nat /\ Cardinality(DOMAIN items) \in Nat
    BY <2>1, CardType DEF Capped
  <2> HIDE DEF D
  <2> QED
    BY <2>1, <2>2, CacheAssumption DEF Capped
<1>2. items' \in IF Cardinality(DOMAIN map) > MaxItems THEN Evicted(map) ELSE {map}
  BY DEF Stored
<1>3. DOMAIN map = D
  OBVIOUS
<1> HIDE DEF map, D
<1>4. CASE Cardinality(D) > MaxItems
  <2>1. PICK o \in D : items' = IF o = Unnamed THEN map ELSE Restrict(map, D \ {o})
    BY <1>2, <1>3, <1>4 DEF Evicted
  <2>2. o # Unnamed
    BY DEF D
  <2>3. DOMAIN items' = D \ {o}
    BY <2>1, <2>2 DEF Restrict
  <2>4. IsFiniteSet(D \ {o}) /\ Cardinality(D \ {o}) = Cardinality(D) - 1
    BY <1>1, CardRemove
  <2> QED
    BY <1>1, <2>3, <2>4, CacheAssumption DEF Capped
<1>5. CASE ~(Cardinality(D) > MaxItems)
  BY <1>1, <1>2, <1>3, <1>5, CacheAssumption DEF Capped
<1> QED
  BY <1>4, <1>5

\* Dropping entries leaves the cache within its size.
LEMMA RestrictedCapped ==
  ASSUME Capped, NEW S \in SUBSET DOMAIN items, items' = Restrict(items, S)
  PROVE  Capped'
<1>1. DOMAIN items' = S
  BY RestrictedItems
<1>2. IsFiniteSet(S) /\ Cardinality(S) <= Cardinality(DOMAIN items)
  BY CardSubset DEF Capped
<1>3. Cardinality(S) \in Nat /\ Cardinality(DOMAIN items) \in Nat
  BY <1>2, CardType DEF Capped
<1> QED
  BY <1>1, <1>2, <1>3, CacheAssumption DEF Capped

\* Every step keeps the cache within its size.
LEMMA CapKept ==
  ASSUME Unnamed \notin Namespace
  PROVE  CacheSpec => []Capped
<1>1. CacheInit => Capped
  <2>1. CacheInit => DOMAIN items = {}
    BY DEF CacheInit
  <2> QED
    BY <2>1, CardEmpty, CacheAssumption DEF Capped
<1>2. CacheInv /\ Capped /\ [CacheNext]_cacheVars => Capped'
  <2> SUFFICES ASSUME CacheInv, Capped, [CacheNext]_cacheVars PROVE Capped'
    OBVIOUS
  <2>1. CASE UNCHANGED items
    BY <2>1 DEF Capped
  <2>2. CASE \E t \in 1..now : items' = Restrict(items, {n \in DOMAIN items : t <= items[n].expiry})
    BY <2>2, RestrictedCapped
  <2>3. ASSUME NEW n \in Namespace, items' = Restrict(items, DOMAIN items \ {n}) PROVE Capped'
    BY <2>3, RestrictedCapped
  <2>4. ASSUME NEW p \in Proc, Set(p) PROVE Capped'
    <3>1. Stored(ns[p], val[p]) /\ ns[p] \in Namespace /\ DOMAIN items \subseteq Namespace
      BY <2>4 DEF Set, CacheInv, CallsOK, CacheTypeOK, Running
    <3> QED
      BY <3>1, StoredCapped
  <2> QED
    BY ZenonT(40), <2>1, <2>2, <2>3, <2>4
       DEF CacheNext, cacheVars, Tick, Change, sweep, Invalidate, Step, Start, Get, Join, Load,
           LoadFails, Done, Wake, Cleanup
<1> QED
  BY <1>1, <1>2, Cache, PTL DEF CacheSpec

\* Under the invariant one caller at a time loads a namespace.
LEMMA CallsSerialised == CacheInv => LoadsSerialised
BY DEF CacheInv, CallsOK, Leading, LoadsSerialised

\* GetOrLoad loads a namespace once at a time, and its waiters wait for a call
\* that is under way, for any number of callers and namespaces
\* (policy_cache.go:159-190).
THEOREM OneLoad == CacheSpec => []LoadsSerialised
BY CallsSerialised, Cache, PTL

\* The map also stays within its cap, as long as every request has a tenant or an
\* organisation: evictOldestLocked never deletes the key "" (policy_cache.go:152).
THEOREM OneLoadWithinCap ==
  ASSUME Unnamed \notin Namespace
  PROVE  CacheSpec => []OneLoadAtATime
<1>1. CacheInv /\ Capped => OneLoadAtATime
  BY CallsSerialised DEF Capped, OneLoadAtATime
<1> QED
  BY <1>1, Cache, CapKept, PTL

\* A value that is returned was replaced at most a ttl and a call's duration ago,
\* for any number of callers and changes (policy_cache.go:76-96).
THEOREM StalenessBounded == CacheSpec => BoundedStaleness
<1> DEFINE Timely(p) == pc[p] \in Running /\ pc'[p] = "returned" /\ val'[p] # NoValue
                          /\ superseded[val'[p]] # 0
                          => now - superseded[val'[p]] <= TTL + Stall
<1>1. CacheInv /\ [CacheNext]_cacheVars => \A p \in Proc : Timely(p)
  <2> SUFFICES ASSUME CacheInv, [CacheNext]_cacheVars, NEW p \in Proc PROVE Timely(p)
    OBVIOUS
  \* Who has a value as old as its own running call, or as a fresh entry.
  <2>1. ASSUME NEW q \in Proc, pc[q] \in Leading, val[q] # NoValue, superseded[val[q]] # 0
        PROVE  now - superseded[val[q]] <= TTL + Stall
    BY <2>1, CacheAssumption DEF CacheInv, AgeOK, CacheTypeOK, Running, Leading
  <2>2. ASSUME NEW n, Fresh(n), superseded[items[n].value] # 0
        PROVE  now - superseded[items[n].value] <= TTL + Stall
    BY <2>2, CacheAssumption DEF CacheInv, AgeOK, CacheTypeOK, Fresh
  <2>3. ASSUME NEW P \in SUBSET Proc, NEW v, Return(P, v),
               v # NoValue /\ superseded[v] # 0 => now - superseded[v] <= TTL + Stall
        PROVE  Timely(p)
    <3>1. /\ pc' = [q \in Proc |-> IF q \in P THEN "returned" ELSE pc[q]]
          /\ val' = [q \in Proc |-> IF q \in P THEN v ELSE val[q]]
      BY <2>3, ReturnedCalls
    <3> QED
      BY <2>3, <3>1 DEF Running
  <2>4. ASSUME pc'[p] # "returned" \/ pc[p] = "returned" PROVE Timely(p)
    BY <2>4 DEF Running
  <2>5. pc \in [Proc -> Running \union Ended]
    BY DEF CacheInv, CacheTypeOK
  <2>6. CASE UNCHANGED pc
    BY <2>4, <2>6 DEF Running
  <2>7. ASSUME NEW q \in Proc, NEW to, pc' = [pc EXCEPT ![q] = to], to # "returned"
        PROVE  Timely(p)
    BY <2>4, <2>5, <2>7
  <2>8. ASSUME NEW q \in Proc, Get(q) PROVE Timely(p)
    <3>1. CASE Fresh(ns[q])
      BY <2>2, <2>3, <2>8, <3>1 DEF Get
    <3>2. CASE ~Fresh(ns[q])
      BY <2>7, <2>8, <3>2 DEF Get
    <3> QED
      BY <3>1, <3>2
  <2>9. ASSUME NEW q \in Proc, LoadFails(q) PROVE Timely(p)
    BY <2>3, <2>7, <2>9 DEF LoadFails
  <2>10. ASSUME NEW q \in Proc, Set(q) PROVE Timely(p)
    BY <2>1, <2>3, <2>7, <2>10 DEF Set, Leading
  <2>11. ASSUME NEW q \in Proc, Wake(q) PROVE Timely(p)
    <3>1. leader[q] \in Proc /\ pc[leader[q]] \in Leading /\ Return({q}, val[leader[q]])
      BY <2>11 DEF Wake, CacheInv, CallsOK
    <3> QED
      BY <2>1, <2>3, <3>1
  <2>12. ASSUME NEW q \in Proc, Cleanup(q) PROVE Timely(p)
    BY <2>1, <2>3, <2>12 DEF Cleanup, Leading
  <2>13. ASSUME NEW q \in Proc, Join(q) \/ Load(q) \/ Done(q) PROVE Timely(p)
    BY <2>7, <2>13 DEF Join, Load, Done
  <2>14. ASSUME NEW q \in Proc, NEW n \in Namespace, Start(q, n) PROVE Timely(p)
    BY ZenonT(40), <2>7, <2>14 DEF Start
  <2> QED
    BY ZenonT(40), <2>6, <2>8, <2>9, <2>10, <2>11, <2>12, <2>13, <2>14
       DEF CacheNext, cacheVars, callers, Tick, Change, sweep, Invalidate, Step
<1> QED
  BY <1>1, Cache, PTL DEF CacheSpec, BoundedStaleness

-----------------------------------------------------------------------------
(* The batch processors *)

\* The least job.
LEMMA MinIn ==
  ASSUME NEW S \in SUBSET Nat, S # {}
  PROVE  Min(S) \in S
BY ZenonT(40), LeastNat DEF Min

-----------------------------------------------------------------------------
(* The rank of a number in a set *)

\* How many elements of S are not above i.
Rank(S, i) == Cardinality({k \in S : k <= i})

\* Ranks number the elements of a finite set in their order, from 1 on.
LEMMA RankFacts ==
  ASSUME NEW S \in SUBSET Nat, IsFiniteSet(S)
  PROVE  /\ \A i \in S : Rank(S, i) \in 1..Cardinality(S)
         /\ \A i, j \in S : i <= j => Rank(S, i) <= Rank(S, j)
         /\ \A i, j \in S : i < j => Rank(S, i) < Rank(S, j)
<1> DEFINE below(i) == {k \in S : k <= i}
<1>1. \A i \in S : /\ below(i) \in SUBSET S /\ i \in below(i) /\ IsFiniteSet(below(i))
                   /\ Cardinality(below(i)) \in Nat /\ Cardinality(below(i)) # 0
                   /\ Cardinality(below(i)) <= Cardinality(S)
  <2> TAKE i \in S
  <2>1. below(i) \in SUBSET S /\ i \in below(i)
    OBVIOUS
  <2> HIDE DEF below
  <2>2. IsFiniteSet(below(i)) /\ Cardinality(below(i)) <= Cardinality(S)
    BY <2>1, CardSubset
  <2> QED
    BY <2>1, <2>2, CardType, CardEmpty
<1>2. Cardinality(S) \in Nat
  BY CardType
<1>3. \A i, j \in S : i <= j => below(i) \in SUBSET below(j)
  <2> SUFFICES ASSUME NEW i \in S, NEW j \in S, i <= j, NEW k \in S, k <= i PROVE k <= j
    BY ZenonT(40)
  <2>1. i \in Nat /\ j \in Nat /\ k \in Nat
    OBVIOUS
  <2> QED
    BY <2>1
<1>4. \A i, j \in S : i < j => j \in below(j) /\ j \notin below(i)
  OBVIOUS
<1> HIDE DEF below
<1>5. \A i, j \in S : i <= j => Cardinality(below(i)) <= Cardinality(below(j))
  BY <1>1, <1>3, CardSubset
<1>6. ASSUME NEW i \in S, NEW j \in S, i < j PROVE Cardinality(below(i)) < Cardinality(below(j))
  <2>1. i <= j
    BY <1>6
  <2>2. below(i) \in SUBSET below(j) /\ below(i) # below(j) /\ IsFiniteSet(below(j))
    BY <1>1, <1>3, <1>4, <1>6, <2>1
  <2>3. /\ Cardinality(below(i)) <= Cardinality(below(j)) /\ Cardinality(below(i)) # Cardinality(below(j))
        /\ Cardinality(below(i)) \in Nat /\ Cardinality(below(j)) \in Nat
    BY <1>1, <2>2, CardSubset
  <2> QED
    BY <2>3
<1>7. \A i \in S : Rank(S, i) = Cardinality(below(i))
  BY DEF Rank, below
<1> QED
  BY <1>1, <1>2, <1>5, <1>6, <1>7

\* A function that is one to one keeps the number of elements.
LEMMA CardImage ==
  ASSUME NEW S, IsFiniteSet(S), NEW f, \A x, y \in S : f[x] = f[y] => x = y
  PROVE  IsFiniteSet({f[x] : x \in S}) /\ Cardinality({f[x] : x \in S}) = Cardinality(S)
<1> DEFINE image(T) == {f[x] : x \in T}
           C == {T \in SUBSET S : IsFiniteSet(image(T)) /\ Cardinality(image(T)) = Cardinality(T)}
<1>1. ASSUME NEW T \in SUBSET S, \A x \in T : T \ {x} \in C PROVE T \in C
  <2>1. CASE T = {}
    <3>1. image(T) = {}
      BY <2>1
    <3> QED
      BY <2>1, <3>1, CardEmpty
  <2>2. CASE T # {}
    <3>1. PICK x \in T : TRUE
      BY <2>2
    <3> DEFINE U == T \ {x}
    <3>2. U \in C /\ T = U \cup {x} /\ x \notin U /\ U \in SUBSET S
      BY ZenonT(40), <1>1
    <3>3. image(T) = image(U) \cup {f[x]}
      OBVIOUS
    <3>4. f[x] \notin image(U)
      BY <3>2
    <3>5. IsFiniteSet(U) /\ IsFiniteSet(image(U)) /\ Cardinality(image(U)) = Cardinality(U)
      BY <3>2, CardSubset
    <3> HIDE DEF U, image
    <3>6. Cardinality(T) = Cardinality(U) + 1
      BY <3>2, <3>5, CardAdd
    <3>7. IsFiniteSet(image(T)) /\ Cardinality(image(T)) = Cardinality(U) + 1
      <4>1. PICK V, y : V = image(U) /\ y = f[x]
        OBVIOUS
      <4>2. IsFiniteSet(V \cup {y}) /\ Cardinality(V \cup {y}) = Cardinality(V) + 1
        BY ZenonT(40), <3>4, <3>5, <4>1, CardAdd
      <4> QED
        BY ZenonT(40), <3>3, <3>5, <4>1, <4>2
    <3> QED
      BY <3>6, <3>7
  <2> QED
    BY <2>1, <2>2
<1> HIDE DEF C
<1>2. \A T \in SUBSET S : T \in C
  BY ZenonT(40), <1>1, SubsetInduction
<1>3. S \in C
  BY <1>2
<1> QED
  BY <1>3 DEF C

\* What is listed in order is the set, and in ascending order.
LEMMA InOrderFacts ==
  ASSUME NEW S \in SUBSET Nat, IsFiniteSet(S)
  PROVE  /\ Range(InOrder(S)) = S
         /\ \A j, k \in DOMAIN InOrder(S) : j < k => InOrder(S)[j] < InOrder(S)[k]
<1> DEFINE n == Cardinality(S)
           rank == [i \in S |-> Rank(S, i)]
<1>1. n \in Nat /\ IsFiniteSet(1..n) /\ Cardinality(1..n) = n
  BY CardType, CardInterval
<1>2. rank \in [S -> 1..n]
  BY RankFacts
<1>3. \A i, j \in S : rank[i] = rank[j] => i = j
  <2> SUFFICES ASSUME NEW i \in S, NEW j \in S, Rank(S, i) = Rank(S, j) PROVE i = j
    OBVIOUS
  <2>1. Rank(S, i) \in 1..n /\ ~(i < j) /\ ~(j < i)
    BY RankFacts
  <2> QED
    BY <2>1
<1>4. {rank[i] : i \in S} \in SUBSET (1..n)
  BY <1>2
<1>5. {rank[i] : i \in S} = 1..n
  <2> HIDE DEF rank, n
  <2>1. Cardinality({rank[i] : i \in S}) = Cardinality(1..n)
    BY ZenonT(40), <1>1, <1>3, CardImage DEF n
  <2> QED
    BY ZenonT(40), <1>1, <1>4, <2>1, CardSubset
<1>6. \A j \in 1..n : \E i \in S : Rank(S, i) = j
  BY <1>5
<1>7. DOMAIN InOrder(S) = 1..n /\ \A j \in 1..n : InOrder(S)[j] = CHOOSE i \in S : Rank(S, i) = j
  BY DEF InOrder, Rank
<1>8. \A j \in 1..n : InOrder(S)[j] \in S /\ Rank(S, InOrder(S)[j]) = j
  BY <1>6, <1>7
<1>9. \A i \in S : Rank(S, i) \in 1..n /\ InOrder(S)[Rank(S, i)] = i
  <2> TAKE i \in S
  <2>1. PICK j \in 1..n : j = Rank(S, i)
    BY RankFacts
  <2>2. InOrder(S)[j] \in S /\ rank[InOrder(S)[j]] = rank[i]
    BY <1>8, <2>1
  <2> QED
    BY ZenonT(40), <1>3, <2>1, <2>2
<1>10. ASSUME NEW j \in 1..n, NEW k \in 1..n, j < k PROVE InOrder(S)[j] < InOrder(S)[k]
  <2>1. PICK a \in S, b \in S : a = InOrder(S)[j] /\ b = InOrder(S)[k] /\ Rank(S, a) = j /\ Rank(S, b) = k
    BY ZenonT(40), <1>8
  <2>2. ~(b <= a)
    BY <1>10, <2>1, RankFacts
  <2> QED
    BY <2>1, <2>2
<1>11. Range(InOrder(S)) = {InOrder(S)[j] : j \in 1..n}
  BY <1>7 DEF Range
<1>12. {InOrder(S)[j] : j \in 1..n} = S
  <2>1. \A x : x \in {InOrder(S)[j] : j \in 1..n} => x \in S
    BY <1>8
  <2>2. \A x : x \in S => x \in {InOrder(S)[j] : j \in 1..n}
    BY <1>9
  <2> QED
    BY <2>1, <2>2
<1> QED
  BY <1>7, <1>10, <1>11, <1>12

-----------------------------------------------------------------------------
(* The pools *)

\* The records in the hands of workers, those whose pool was started, and those
\* that are evaluated.
Taken == {i \in Index : \E w \in Worker : task[w] = i}
Entered == IF phase = "log" THEN Jobs("log") ELSE Pooled
Over == Entered \ (jobs \union Taken)

\* A batch of n records; ext_authz has one request.
Sized(n) == Index = 1..n /\ (adapter = "ext_authz" => n = 1)

\* The types of the batch's state.
BatchTypes ==
  /\ \E n \in Nat : Sized(n)
  /\ FailOpen \in BOOLEAN
  /\ phase \in {"log", "span", "returned"} /\ (phase = "span" => otel)
  /\ task \in [Worker -> Index \union {NoTask}]
  /\ evaluated \in [Index -> Nat]
  /\ keep \in [Index -> BOOLEAN] /\ result \in [Index -> BOOLEAN]
  /\ allowCnt \in Nat /\ dropCnt \in Nat

\* Every record of the pool that runs is waiting, with one worker, or over.
PoolKept ==
  /\ jobs \subseteq IF phase = "returned" THEN {} ELSE Jobs(phase)
  /\ \A w \in Worker : task[w] # NoTask =>
       phase # "returned" /\ task[w] \in Jobs(phase) \ jobs
  /\ \A v, w \in Worker : task[v] = task[w] /\ task[v] # NoTask => v = w
  /\ evaluated = [i \in Index |-> IF i \in Over THEN 1 ELSE 0]

\* The statistics of the OTEL processor.
StatsKept ==
  otel => /\ allowCnt + dropCnt = Cardinality(Over)
          /\ allowCnt = Cardinality({i \in Over : keep[i]})

\* The decisions that are converted already, and what an adapter made of them.
AnswerKept ==
  /\ otel /\ phase # "log" => \A i \in OfSignal("log") : keep[i] => result[i]
  /\ otel /\ phase = "returned" => \A i \in Pooled : keep[i] => result[i]
  /\ ~otel /\ phase = "returned" => result = keep
  /\ answer # NoAnswer => phase = "returned"
  /\ answer.kind \in {"filter", "envoy", "auth"} => ~otel /\ phase = "returned"
  /\ answer.kind = "filter" => answer.kept = InOrder({i \in Index : keep[i]})
  /\ answer.kind \in {"envoy", "auth"} => (answer.ok <=> \A i \in Index : keep[i])

\* The inductive invariant.
BatchInv == BatchTypes /\ PoolKept /\ StatsKept /\ AnswerKept

\* The batch and its pools.
LEMMA PoolFacts ==
  ASSUME BatchTypes
  PROVE  /\ Index \in SUBSET Nat /\ IsFiniteSet(Index) /\ NoTask \notin Index
         /\ \A s \in Signal : Jobs(s) \subseteq Index
         /\ Pooled \subseteq Index
         /\ otel => Pooled = Jobs("log") \union Jobs("span") /\ Jobs("log") \intersect Jobs("span") = {}
         /\ ~otel => Pooled = Index /\ Jobs("log") = Index
         /\ Entered \subseteq Pooled
         /\ phase # "returned" => Jobs(phase) \subseteq Entered
<1>1. PICK n \in Nat : Sized(n)
  BY DEF BatchTypes
<1>2. Index \in SUBSET Nat /\ IsFiniteSet(Index) /\ 0 \notin Index
  BY <1>1, CardInterval DEF Sized
<1>3. /\ \A s \in Signal : Jobs(s) \subseteq Index
      /\ Pooled \subseteq Index
      /\ otel => Pooled = Jobs("log") \union Jobs("span") /\ Jobs("log") \intersect Jobs("span") = {}
      /\ ~otel => Pooled = Index /\ Jobs("log") = Index
  BY DEF Jobs, Pooled, OfSignal
<1>4. Entered \subseteq Pooled /\ (phase # "returned" => Jobs(phase) \subseteq Entered)
  BY <1>3 DEF Entered, BatchTypes
<1> QED
  BY <1>2, <1>3, <1>4 DEF NoTask

\* A batch starts with nothing done.
LEMMA BatchInitially == BatchInit => BatchInv
<1> SUFFICES ASSUME BatchInit PROVE BatchInv
  OBVIOUS
<1>1. BatchTypes
  <2>1. PICK n \in Sizes(adapter) : records \in [1..n -> BatchRecord(adapter)]
    BY DEF BatchInit
  <2>2. n \in Nat /\ (adapter = "ext_authz" => n = 1) /\ Index = 1..n
    BY <2>1, BatchAssumption DEF Sizes, Index
  <2>3. result \in [Index -> BOOLEAN] /\ keep \in [Index -> BOOLEAN]
    BY DEF BatchInit, otel
  <2> QED
    BY <2>1, <2>2, <2>3 DEF BatchInit, BatchTypes, Sized
<1>2. Taken = {}
  BY <1>1, PoolFacts DEF Taken, BatchInit
<1>3. Over = {}
  BY <1>2 DEF Over, Entered, BatchInit
<1>4. PoolKept
  BY <1>3 DEF PoolKept, BatchInit
<1>5. StatsKept
  BY <1>3, CardEmpty DEF StatsKept, BatchInit
<1>6. AnswerKept
  BY DEF AnswerKept, BatchInit, NoAnswer
<1> QED
  BY <1>1, <1>4, <1>5, <1>6 DEF BatchInv

\* What an operation leaves alone, so do the definitions.
LEMMA SameBatch ==
  ASSUME UNCHANGED batch
  PROVE  /\ Index' = Index /\ otel' = otel /\ Pooled' = Pooled
         /\ \A s : Jobs(s)' = Jobs(s) /\ OfSignal(s)' = OfSignal(s)
BY DEF batch, Index, otel, Pooled, Jobs, OfSignal

\* A worker takes the next job off the queue.
LEMMA ReceiveKeeps ==
  ASSUME BatchInv, NEW w \in Worker, ReceiveJob(w)
  PROVE  BatchInv'
<1> USE DEF BatchInv
<1>1. /\ task[w] = NoTask /\ jobs # {} /\ task' = [task EXCEPT ![w] = Min(jobs)]
      /\ jobs' = jobs \ {Min(jobs)}
      /\ UNCHANGED <<adapter, FailOpen, records, phase, evaluated, keep, allowCnt, dropCnt, result, answer>>
  BY DEF ReceiveJob, batch, counters
<1>2. /\ Index' = Index /\ otel' = otel /\ Pooled' = Pooled
      /\ \A s : Jobs(s)' = Jobs(s) /\ OfSignal(s)' = OfSignal(s)
  BY <1>1, SameBatch DEF batch
<1>3. Index \in SUBSET Nat /\ NoTask \notin Index
  BY PoolFacts
<1>4. phase # "returned" /\ jobs \subseteq Jobs(phase) /\ Jobs(phase) \subseteq Index
  BY <1>1, PoolFacts DEF PoolKept, BatchTypes, Signal
<1>5. PICK m : m = Min(jobs) /\ m \in jobs
  BY ZenonT(40), <1>1, <1>3, <1>4, MinIn
<1>6. BatchTypes'
  BY ZenonT(40), <1>1, <1>2, <1>4, <1>5 DEF BatchTypes, Sized
<1>7. Taken' = Taken \union {m}
  BY <1>1, <1>2, <1>3, <1>4, <1>5 DEF Taken, BatchTypes
<1>8. Over' = Over
  BY <1>1, <1>2, <1>5, <1>7 DEF Over, Entered
<1>9. PoolKept'
  <2>1. jobs' \subseteq Jobs(phase)
    BY <1>1, <1>4
  <2>2. ASSUME NEW v \in Worker, task'[v] # NoTask PROVE task'[v] \in Jobs(phase) \ jobs'
    BY <1>1, <1>4, <1>5, <2>2 DEF PoolKept, BatchTypes
  <2>3. ASSUME NEW u \in Worker, NEW v \in Worker, task'[u] = task'[v], task'[u] # NoTask PROVE u = v
    <3>1. \A x \in Worker \ {w} : task'[x] = task[x] /\ task[x] # m
      BY <1>1, <1>3, <1>4, <1>5 DEF PoolKept, BatchTypes
    <3>2. task'[w] = m
      BY <1>1, <1>5 DEF BatchTypes
    <3> QED
      BY <2>3, <3>1, <3>2 DEF PoolKept
  <2> QED
    BY <1>1, <1>2, <1>4, <1>8, <2>1, <2>2, <2>3 DEF PoolKept
<1>10. StatsKept'
  BY <1>1, <1>2, <1>8 DEF StatsKept
<1>11. AnswerKept'
  BY <1>1, <1>2 DEF AnswerKept
<1> QED
  BY <1>6, <1>9, <1>10, <1>11

\* A worker decides its record and counts it.
LEMMA EvaluateKeeps ==
  ASSUME BatchInv, NEW w \in Worker, NEW a \in Answer, Evaluate(w, a)
  PROVE  BatchInv'
<1> USE DEF BatchInv
<1>1. /\ task[w] # NoTask /\ task' = [task EXCEPT ![w] = NoTask]
      /\ evaluated' = [evaluated EXCEPT ![task[w]] = @ + 1]
      /\ keep' = [keep EXCEPT ![task[w]] = Kept(a)]
      /\ allowCnt' = IF otel /\ Kept(a) THEN allowCnt + 1 ELSE allowCnt
      /\ dropCnt' = IF otel /\ ~Kept(a) THEN dropCnt + 1 ELSE dropCnt
      /\ UNCHANGED <<adapter, FailOpen, records, phase, jobs, result, answer>>
  BY DEF Evaluate, batch
<1>2. /\ Index' = Index /\ otel' = otel /\ Pooled' = Pooled
      /\ \A s : Jobs(s)' = Jobs(s) /\ OfSignal(s)' = OfSignal(s)
  BY <1>1, SameBatch DEF batch
<1>3. /\ Index \in SUBSET Nat /\ NoTask \notin Index /\ IsFiniteSet(Index)
      /\ Entered \subseteq Pooled /\ Pooled \subseteq Index
  BY PoolFacts
<1>4. phase # "returned" /\ task[w] \in Jobs(phase) \ jobs /\ Jobs(phase) \subseteq Index /\ Jobs(phase) \subseteq Entered
  BY <1>1, PoolFacts DEF PoolKept, BatchTypes, Signal
<1>5. PICK i \in Index : i = task[w] /\ i \in Jobs(phase) /\ i \notin jobs /\ i \in Entered
  BY <1>4
<1>6. PICK k \in BOOLEAN : k = Kept(a)
  BY DEF Kept, Answer, BatchTypes
<1>7. /\ evaluated' = [evaluated EXCEPT ![i] = evaluated[i] + 1]
      /\ keep' = [keep EXCEPT ![i] = k]
  BY <1>1, <1>5, <1>6
<1>8. BatchTypes'
  <2>1. task' \in [Worker -> Index \union {NoTask}]
    BY <1>1 DEF BatchTypes
  <2>2. evaluated' \in [Index -> Nat] /\ keep' \in [Index -> BOOLEAN]
    BY <1>7 DEF BatchTypes
  <2>3. allowCnt' \in Nat /\ dropCnt' \in Nat
    BY <1>1 DEF BatchTypes
  <2> QED
    BY ZenonT(40), <1>1, <1>2, <2>1, <2>2, <2>3 DEF BatchTypes, Sized
<1>9. Taken' = Taken \ {i} /\ i \in Taken
  <2>1. \A v \in Worker \ {w} : task'[v] = task[v] /\ task[v] # i
    BY <1>1, <1>5 DEF PoolKept, BatchTypes
  <2>2. task'[w] = NoTask
    BY <1>1 DEF BatchTypes
  <2> QED
    BY <1>2, <1>3, <1>5, <2>1, <2>2 DEF Taken
<1>10. Over' = Over \union {i} /\ i \notin Over
  BY <1>1, <1>2, <1>5, <1>9 DEF Over, Entered
<1>11. PoolKept'
  <2>1. evaluated'[i] = 1 /\ \A j \in Index \ {i} : evaluated'[j] = evaluated[j]
    BY <1>5, <1>7, <1>10 DEF PoolKept, BatchTypes
  <2>2. evaluated' = [j \in Index |-> IF j \in Over' THEN 1 ELSE 0]
    <3>1. \A j \in Index : evaluated'[j] = IF j \in Over' THEN 1 ELSE 0
      BY <1>10, <2>1 DEF PoolKept
    <3>2. evaluated' \in [Index -> Nat]
      BY <1>7 DEF BatchTypes
    <3> QED
      BY <3>1, <3>2
  <2>3. \A v \in Worker : task'[v] # NoTask => task'[v] = task[v]
    BY <1>1 DEF BatchTypes
  <2>4. phase' = phase /\ jobs' = jobs /\ Jobs(phase)' = Jobs(phase)
    BY ZenonT(40), <1>1, <1>2
  <2>5. \A v \in Worker : task'[v] # NoTask =>
          phase' # "returned" /\ task'[v] \in Jobs(phase)' \ jobs'
    BY ZenonT(40), <2>3, <2>4 DEF PoolKept
  <2>6. \A u, v \in Worker : task'[u] = task'[v] /\ task'[u] # NoTask => u = v
    BY ZenonT(40), <2>3 DEF PoolKept
  <2> QED
    BY ZenonT(40), <1>2, <2>2, <2>4, <2>5, <2>6 DEF PoolKept
<1>12. StatsKept'
  <2> SUFFICES ASSUME otel PROVE StatsKept'
    BY <1>2 DEF StatsKept
  <2> DEFINE kept == {j \in Over : keep[j]}
  <2>1. Over \in SUBSET Index /\ kept \in SUBSET Index
    BY ZenonT(40), <1>3 DEF Over
  <2>2. {j \in Over' : keep'[j]} = IF k THEN kept \union {i} ELSE kept
    BY <1>7, <1>10, <2>1 DEF BatchTypes
  <2>3. i \notin kept
    BY <1>10
  <2> HIDE DEF kept
  <2>4. /\ IsFiniteSet(Over) /\ IsFiniteSet(kept)
        /\ Cardinality(Over) \in Nat /\ Cardinality(kept) \in Nat
    BY ZenonT(40), <1>3, <2>1, CardSubset, CardType
  <2>5. /\ Cardinality(Over \union {i}) = Cardinality(Over) + 1
        /\ Cardinality(kept \union {i}) = Cardinality(kept) + 1
    BY ZenonT(40), <1>10, <2>3, <2>4, CardAdd
  <2>6. allowCnt + dropCnt = Cardinality(Over) /\ allowCnt = Cardinality(kept)
    BY DEF StatsKept, kept
  <2>7. allowCnt \in Nat /\ dropCnt \in Nat
    BY DEF BatchTypes
  <2>8. CASE k
    <3>1. allowCnt' = allowCnt + 1 /\ dropCnt' = dropCnt
      BY <1>1, <1>6, <2>8
    <3>2. Cardinality(Over') = Cardinality(Over) + 1 /\ Cardinality({j \in Over' : keep'[j]}) = Cardinality(kept) + 1
      BY <1>10, <2>2, <2>5, <2>8
    <3> QED
      BY <2>4, <2>6, <2>7, <3>1, <3>2 DEF StatsKept
  <2>9. CASE ~k
    <3>1. allowCnt' = allowCnt /\ dropCnt' = dropCnt + 1
      BY <1>1, <1>6, <2>9
    <3>2. Cardinality(Over') = Cardinality(Over) + 1 /\ Cardinality({j \in Over' : keep'[j]}) = Cardinality(kept)
      BY <1>10, <2>2, <2>5, <2>9
    <3> QED
      BY <2>4, <2>6, <2>7, <3>1, <3>2 DEF StatsKept
  <2> QED
    BY <2>8, <2>9
<1>13. AnswerKept'
  <2>1. phase' # "returned" /\ answer' = NoAnswer
    BY ZenonT(40), <1>1, <1>4 DEF AnswerKept
  <2>2. ASSUME otel, phase # "log", NEW j \in OfSignal("log"), keep'[j] PROVE result[j]
    <3>1. phase = "span"
      BY <1>4, <2>2 DEF BatchTypes
    <3>2. j \in Index /\ j # i
      BY ZenonT(40), <1>5, <2>2, <3>1 DEF Jobs, OfSignal
    <3>3. keep[j]
      BY <1>7, <2>2, <3>2 DEF BatchTypes
    <3> QED
      BY ZenonT(40), <2>2, <3>3 DEF AnswerKept
  <2> QED
    BY <1>1, <1>2, <2>1, <2>2 DEF AnswerKept, NoAnswer
<1> QED
  BY <1>8, <1>11, <1>12, <1>13

\* The workers are done: the next phase, or the answer, begins.
LEMMA PoolDoneKeeps ==
  ASSUME BatchInv, PoolDone
  PROVE  BatchInv'
<1> USE DEF BatchInv
<1>1. /\ phase # "returned" /\ jobs = {} /\ \A w \in Worker : task[w] = NoTask
      /\ UNCHANGED <<adapter, FailOpen, records, task, evaluated, keep, allowCnt, dropCnt, answer>>
      /\ result' = [i \in Index |-> IF ~otel THEN keep[i]
                     ELSE IF records[i].signal = phase THEN MatchesKept(i) ELSE result[i]]
  BY ZenonT(40) DEF PoolDone, batch, counters
<1>2. /\ Index' = Index /\ otel' = otel /\ Pooled' = Pooled
      /\ \A s : Jobs(s)' = Jobs(s) /\ OfSignal(s)' = OfSignal(s)
  BY ZenonT(40), <1>1, SameBatch DEF batch
<1>3. \/ otel /\ phase = "log" /\ phase' = "span" /\ jobs' = Jobs("span")
      \/ otel /\ phase = "span" /\ phase' = "returned" /\ jobs' = {}
      \/ ~otel /\ phase = "log" /\ phase' = "returned" /\ jobs' = {}
  BY ZenonT(40), <1>1 DEF PoolDone, BatchTypes
<1>4. BatchTypes'
  <2>1. result' \in [Index -> BOOLEAN]
    <3>1. \A i \in Index : MatchesKept(i) \in BOOLEAN /\ keep[i] \in BOOLEAN /\ result[i] \in BOOLEAN
      BY DEF MatchesKept, BatchTypes
    <3> QED
      BY <1>1, <3>1
  <2> QED
    BY <1>1, <1>2, <1>3, <2>1 DEF BatchTypes, Sized
<1>5. Taken = {} /\ Taken' = {}
  BY ZenonT(40), <1>1, <1>2, PoolFacts DEF Taken
<1>6. Over' = Over
  BY <1>1, <1>2, <1>3, <1>5, PoolFacts DEF Over, Entered
<1>7. PoolKept'
  BY ZenonT(40), <1>1, <1>2, <1>3, <1>6 DEF PoolKept
<1>8. StatsKept'
  BY <1>1, <1>2, <1>6 DEF StatsKept
<1>9. AnswerKept'
  <2>1. answer = NoAnswer
    BY <1>1 DEF AnswerKept
  <2>2. ~otel => result' = keep
    <3>1. ~otel => \A i \in Index : result'[i] = keep[i]
      BY <1>1
    <3>2. ~otel => result' \in [Index -> BOOLEAN] /\ keep \in [Index -> BOOLEAN]
      BY <1>2, <1>4 DEF BatchTypes
    <3> QED
      BY <3>1, <3>2
  <2>3. \A i \in Index : otel /\ records[i].signal = phase /\ keep[i] => result'[i]
    BY <1>1 DEF MatchesKept
  <2>4. ASSUME otel, NEW i \in OfSignal("log"), keep[i] PROVE result'[i]
    <3>1. i \in Index /\ records[i].signal = "log"
      BY DEF OfSignal
    <3>2. CASE phase = "log"
      BY <2>3, <2>4, <3>1, <3>2
    <3>3. CASE phase = "span"
      BY <1>1, <2>4, <3>1, <3>3 DEF AnswerKept
    <3> QED
      BY <1>3, <3>2, <3>3
  <2>5. ASSUME otel, phase = "span", NEW i \in Pooled, keep[i] PROVE result'[i]
    <3>1. CASE i \in OfSignal("log")
      BY <2>4, <2>5, <3>1
    <3>2. CASE i \in OfSignal("span")
      BY <2>3, <2>5, <3>2 DEF OfSignal
    <3> QED
      BY <2>5, <3>1, <3>2 DEF Pooled
  <2> QED
    BY <1>1, <1>2, <1>3, <2>1, <2>2, <2>4, <2>5 DEF AnswerKept, NoAnswer
<1> QED
  BY <1>4, <1>7, <1>8, <1>9

\* The answer lists what was kept, in the order of the batch.
LEMMA RespondKeeps ==
  ASSUME BatchInv, Respond
  PROVE  BatchInv'
<1> USE DEF BatchInv
<1>1. /\ phase = "returned"
      /\ UNCHANGED <<adapter, FailOpen, records, phase, jobs, task, evaluated, keep, allowCnt, dropCnt, result>>
  BY ZenonT(40) DEF Respond, FilterLogs, FilterMetrics, FilterRecords, FilterMessages, CheckRateLimit, CheckAuth,
         ProcessBatch, Answered, batch, counters
<1>2. /\ Index' = Index /\ otel' = otel /\ Pooled' = Pooled
      /\ \A s : Jobs(s)' = Jobs(s) /\ OfSignal(s)' = OfSignal(s)
  BY <1>1, SameBatch DEF batch
<1>3. BatchTypes'
  BY <1>1, <1>2 DEF BatchTypes, Sized
<1>4. Taken' = Taken /\ Over' = Over
  BY <1>1, <1>2 DEF Taken, Over, Entered
<1>5. PoolKept' /\ StatsKept'
  BY <1>1, <1>2, <1>4 DEF PoolKept, StatsKept
<1>6. CASE FilterLogs \/ FilterMetrics \/ FilterRecords \/ FilterMessages
  <2>1. ~otel /\ answer' = FilterAllowed(result)
    BY <1>6 DEF FilterLogs, FilterMetrics, FilterRecords, FilterMessages, Answered, otel
  <2>2. result = keep /\ DOMAIN keep = Index
    BY <1>1, <2>1 DEF AnswerKept, BatchTypes
  <2>3. answer'.kind = "filter" /\ answer'.kept = InOrder({i \in Index : keep[i]})
    BY <2>1, <2>2 DEF FilterAllowed
  <2> QED
    BY <1>1, <1>2, <1>3, <1>5, <2>1, <2>3 DEF AnswerKept
<1>7. CASE CheckRateLimit
  <2>1. ~otel /\ answer' = [kind |-> "envoy", ok |-> \A i \in Index : result[i], statuses |-> result]
    BY <1>7 DEF CheckRateLimit, Answered, otel
  <2>2. result = keep
    BY <1>1, <2>1 DEF AnswerKept
  <2>3. answer'.kind = "envoy" /\ (answer'.ok <=> \A i \in Index : keep[i])
    BY <2>1, <2>2
  <2> QED
    BY <1>1, <1>2, <1>3, <1>5, <2>1, <2>3 DEF AnswerKept
<1>8. CASE CheckAuth
  <2>1. ~otel /\ answer' = [kind |-> "auth", ok |-> result[1]] /\ adapter = "ext_authz"
    BY <1>8 DEF CheckAuth, Answered, otel
  <2>2. Index = {1}
    <3>1. PICK n \in Nat : Sized(n)
      BY DEF BatchTypes
    <3>2. Index = 1..1
      BY <2>1, <3>1 DEF Sized
    <3> QED
      BY <3>2
  <2>3. result = keep
    BY <1>1, <2>1 DEF AnswerKept
  <2>4. answer'.kind = "auth" /\ (answer'.ok <=> \A i \in Index : keep[i])
    BY <2>1, <2>2, <2>3
  <2> QED
    BY <1>1, <1>2, <1>3, <1>5, <2>1, <2>4 DEF AnswerKept
<1>9. CASE ProcessBatch
  <2>1. answer'.kind = "decisions"
    BY <1>9 DEF ProcessBatch, Answered
  <2> QED
    BY <1>1, <1>2, <1>3, <1>5, <2>1 DEF AnswerKept
<1> QED
  BY <1>6, <1>7, <1>8, <1>9 DEF Respond

\* Every step keeps the invariant.
LEMMA BatchKept == BatchInv /\ [BatchNext]_batchVars => BatchInv'
<1> SUFFICES ASSUME BatchInv, [BatchNext]_batchVars PROVE BatchInv'
  OBVIOUS
<1>1. CASE UNCHANGED batchVars
  <2>1. UNCHANGED <<adapter, FailOpen, records, phase, jobs, task, evaluated, keep, allowCnt, dropCnt, result, answer>>
    BY <1>1 DEF batchVars, batch, counters
  <2>2. /\ Index' = Index /\ otel' = otel /\ Pooled' = Pooled
        /\ \A s : Jobs(s)' = Jobs(s) /\ OfSignal(s)' = OfSignal(s)
    BY <2>1, SameBatch DEF batch
  <2>3. Taken' = Taken /\ Over' = Over
    BY <2>1, <2>2 DEF Taken, Over, Entered
  <2> QED
    BY <2>1, <2>2, <2>3 DEF BatchInv, BatchTypes, Sized, PoolKept, StatsKept, AnswerKept
<1> QED
  BY <1>1, ReceiveKeeps, EvaluateKeeps, PoolDoneKeeps, RespondKeeps
  DEF BatchNext, WorkerStep, Finished

\* A batch of any size, and any number of workers: every record is evaluated
\* exactly once, and the statistics add up at every moment (provider.go:131-172,
\* processor.go:55-159).
THEOREM EachRecordOnce == BatchSpec => []RecordsAccounted
<1>1. BatchInv => RecordsAccounted
  <2> SUFFICES ASSUME BatchInv PROVE RecordsAccounted
    OBVIOUS
  <2>1. Over \subseteq Pooled /\ Pooled \subseteq Index
    BY PoolFacts DEF BatchInv, Over
  <2>2. \A i \in Index : evaluated[i] = IF i \in Over THEN 1 ELSE 0
    BY DEF BatchInv, PoolKept
  <2>3. {i \in Pooled : evaluated[i] > 0} = Over
    BY <2>1, <2>2
  <2>4. phase = "returned" => Over = Pooled
    <3>1. phase = "returned" => jobs = {} /\ Taken = {} /\ Entered = Pooled
      BY PoolFacts DEF BatchInv, PoolKept, Taken, Entered
    <3> QED
      BY <3>1 DEF Over
  <2> QED
    BY <2>1, <2>2, <2>3, <2>4 DEF RecordsAccounted, BatchInv, StatsKept
<1> QED
  BY BatchInitially, BatchKept, <1>1, PTL DEF BatchSpec

\* A batch of any size, and any number of workers: what an adapter answers is what
\* the evaluations said, in the order of the batch (provider.go:129-183,
\* processor.go:197-271).
THEOREM AnswersWhatWasKept == BatchSpec => []KeptIsReturned
<1>1. BatchInv => KeptIsReturned
  <2> SUFFICES ASSUME BatchInv PROVE KeptIsReturned
    OBVIOUS
  <2> DEFINE kept == {i \in Index : keep[i]}
  <2>1. kept \in SUBSET Nat /\ IsFiniteSet(kept)
    <3>1. Index \in SUBSET Nat /\ IsFiniteSet(Index)
      BY PoolFacts DEF BatchInv
    <3>2. kept \in SUBSET Index
      OBVIOUS
    <3> QED
      BY ZenonT(40), <3>1, <3>2, CardSubset
  <2>2. phase = "returned" => \A i \in Pooled : keep[i] => result[i]
    BY DEF BatchInv, AnswerKept
  <2>3. answer.kind = "filter" => answer.kept = InOrder(kept)
    BY DEF BatchInv, AnswerKept
  <2>4. answer.kind \in {"envoy", "auth"} => (answer.ok <=> \A i \in Index : keep[i])
    BY DEF BatchInv, AnswerKept
  <2> HIDE DEF kept
  <2>5. answer.kind = "filter" =>
          /\ Range(answer.kept) = kept
          /\ \A j, k \in DOMAIN answer.kept : j < k => answer.kept[j] < answer.kept[k]
    BY <2>1, <2>3, InOrderFacts
  <2> QED
    BY <2>2, <2>4, <2>5 DEF KeptIsReturned, kept
<1> QED
  BY BatchInitially, BatchKept, <1>1, PTL DEF BatchSpec

\* Both: a batch is processed as if its records were evaluated one after the other
\* (ProcessBatch of provider.go and of the OTEL processor).
THEOREM BatchesSound == BatchSpec => []BatchSound
  BY EachRecordOnce, AnswersWhatWasKept, PTL DEF BatchSound
=============================================================================
