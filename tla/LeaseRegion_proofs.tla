------------------------- MODULE LeaseRegion_proofs -------------------------
(***************************************************************************)
(* Two components that share out a limit: concurrency leases, where no     *)
(* more operations are in flight than the limit allows, for any number of  *)
(* clients, release calls and leases; and the allocator of a global limit  *)
(* to regions, for any regions, weights, limit, ttl and largest integer.   *)
(* No definition of one is used in the proofs of the other.                *)
(***************************************************************************)
EXTENDS ConcurrencyLeases, RegionAllocator, SumTheorems

\* The time a prover has for a leaf that names none.
USE SMTT(40), ZenonT(40)

-----------------------------------------------------------------------------
(* Concurrency leases *)

USE DEF clock, ids

\* The live entry of the store is an entry.
LEMMA LiveType == TypeOK => Live(item, now) \in [value : Nat, expiry : Nat]
  BY DEF TypeOK, Live, ZeroItem, NoExpiry

\* Taking a slot, and giving one back, keep the store's entry well formed.
LEMMA StoreType ==
  ASSUME TypeOK, NEW l \in Lease
  PROVE  /\ TakeSlot(l) => /\ item' \in [value : Nat, expiry : Nat]
                           /\ taken' \subseteq Lease /\ acquiredAt' \in [Lease -> Nat]
         /\ GiveBack(l) => /\ item' \in [value : Nat, expiry : Nat]
                           /\ taken' \subseteq Lease
<1>. DEFINE it == Live(item, now)
<1>1. it \in [value : Nat, expiry : Nat]
  BY LiveType
<1>2. it.value \in Nat /\ it.expiry \in Nat /\ now \in Nat
  BY <1>1 DEF TypeOK
<1>. HIDE DEF it
<1>3. ASSUME TakeSlot(l)
      PROVE  /\ item' \in [value : Nat, expiry : Nat]
             /\ taken' \subseteq Lease /\ acquiredAt' \in [Lease -> Nat]
  <2>1. item' = [value |-> it.value + 1,
                 expiry |-> IF LeaseTTL > 0 THEN now + LeaseTTL ELSE it.expiry]
    BY <1>3 DEF TakeSlot, Written, it
  <2>. QED  BY <1>2, <1>3, <2>1, LeaseAssumption DEF TakeSlot, TypeOK
<1>4. ASSUME GiveBack(l) PROVE item' \in [value : Nat, expiry : Nat] /\ taken' \subseteq Lease
  <2>1. item' = IF it.value > 0 THEN [it EXCEPT !.value = @ - 1] ELSE it
    BY <1>4 DEF GiveBack, it
  <2>. QED  BY <1>1, <1>2, <1>4, <2>1 DEF GiveBack, TypeOK
<1>. QED  BY <1>3, <1>4

\* An empty store and registry are well formed.
LEMMA InitType == Init => TypeOK
<1>1. Init => late \in BOOLEAN /\ collided \in BOOLEAN
  BY ZenonT(40) DEF Init
<1>. QED  BY <1>1, LeaseAssumption DEF Init, TypeOK, ZeroItem, NoExpiry, Phase

\* Every step preserves the types.
LEMMA NextType == TypeOK /\ [Next]_vars => TypeOK'
<1>. SUFFICES ASSUME TypeOK, [Next]_vars PROVE TypeOK'
  OBVIOUS
<1>. USE LeaseAssumption
<1>1. CASE UNCHANGED vars
  BY <1>1 DEF TypeOK, vars, registry
<1>2. CASE Tick
  BY <1>2 DEF Tick, TypeOK, registry
<1>3. CASE AcquireDenied
  BY <1>3, LiveType DEF AcquireDenied, TypeOK, registry
<1>4. CASE Restart
  <2>1. phase' \in [Lease -> Phase]
    BY <1>4 DEF Restart, TypeOK, Phase
  <2>. QED  BY <1>4, <2>1 DEF Restart, TypeOK
<1>5. ASSUME NEW l \in Lease, Acquire(l) \/ AcquireFails(l) \/ Check(l) \/ AcquireShadow(l)
      PROVE  TypeOK'
  <2>1. /\ phase' \in [Lease -> Phase] /\ phase[l] = "unused"
        /\ clock' = clock /\ ids' = ids
        /\ \A k \in Lease : k # l => phase'[k] = phase[k]
        /\ releasing' = releasing /\ holds' \subseteq Lease
    BY <1>5 DEF Acquire, AcquireFails, Check, AcquireShadow, Grant, TypeOK, Phase
  <2>2. /\ item' \in [value : Nat, expiry : Nat]
        /\ taken' \subseteq Lease /\ acquiredAt' \in [Lease -> Nat]
    BY <1>5, StoreType, LiveType DEF Acquire, AcquireFails, Check, AcquireShadow, TypeOK
  <2>. QED  BY <2>1, <2>2 DEF TypeOK
<1>6. ASSUME NEW l \in Lease, Put(l) \/ Abandon(l) PROVE TypeOK'
  <2>1. /\ phase' \in [Lease -> Phase] /\ phase[l] \notin {"popped", "robbed"}
        /\ \A k \in Lease : k # l => phase'[k] = phase[k]
    BY <1>6 DEF Put, Abandon, TypeOK, Phase
  <2>. QED  BY <1>6, <2>1 DEF Put, Abandon, TypeOK
<1>7. ASSUME NEW c \in Caller, NEW l \in Lease, Pop(c, l) PROVE TypeOK'
  <2>1. /\ phase' \in [Lease -> Phase] /\ phase'[l] = "popped" /\ phase[l] \notin {"popped", "robbed"}
        /\ \A k \in Lease : k # l => phase'[k] = phase[k]
        /\ releasing' \in [Caller -> Lease \union {NoLease}] /\ releasing'[c] = l
        /\ \A d \in Caller : d # c => releasing'[d] = releasing[d]
    BY <1>7 DEF Pop, TypeOK, Phase
  <2>. QED  BY <1>7, <2>1 DEF Pop, TypeOK
<1>8. ASSUME NEW c \in Caller, Release(c) \/ ReleaseFails(c) PROVE TypeOK'
  <2>. DEFINE l == releasing[c]
  <2>1. l \in Lease /\ l # NoLease
    BY <1>8 DEF Release, ReleaseFails, TypeOK
  <2>2. /\ phase' \in [Lease -> Phase]
        /\ \A k \in Lease : k # l => phase'[k] = phase[k]
        /\ releasing' \in [Caller -> Lease \union {NoLease}] /\ releasing'[c] = NoLease
        /\ \A d \in Caller : d # c => releasing'[d] = releasing[d]
        /\ holds' = holds /\ acquiredAt' = acquiredAt /\ clock' = clock /\ ids' = ids
    BY <1>8, <2>1 DEF Release, ReleaseFails, Released, TypeOK, Phase
  <2>3. item' \in [value : Nat, expiry : Nat] /\ taken' \subseteq Lease
    <3>. HIDE DEF l
    <3>1. GiveBack(l) \/ UNCHANGED <<item, taken>>
      BY <1>8 DEF Release, ReleaseFails, l
    <3>. QED  BY <2>1, <3>1, StoreType DEF TypeOK
  <2>. QED  BY <2>1, <2>2, <2>3 DEF TypeOK
<1>9. ASSUME NEW l \in Lease, NEW k \in Lease, PutCollides(l, k) PROVE TypeOK'
  <2>1. /\ phase' \in [Lease -> Phase] /\ {phase[l], phase[k]} = {"granted", "registered"}
        /\ \A j \in Lease : j \notin {l, k} => phase'[j] = phase[j]
        /\ id' \in [Lease -> Lease]
    BY <1>9 DEF PutCollides, TypeOK, Phase
  <2>2. collided' \in BOOLEAN
    BY <1>9, ZenonT(40) DEF PutCollides
  <2>. QED  BY <1>9, <2>1, <2>2 DEF PutCollides, TypeOK
<1>10. ASSUME NEW c \in Caller, NEW l \in Lease, NEW k \in Lease, PopOther(c, l, k) PROVE TypeOK'
  <2>1. /\ phase' \in [Lease -> Phase] /\ phase'[l] = "robbed"
        /\ phase[l] = "registered" /\ phase[k] = "orphan"
        /\ \A j \in Lease : j \notin {l, k} => phase'[j] = phase[j]
        /\ releasing' \in [Caller -> Lease \union {NoLease}] /\ releasing'[c] = l
        /\ \A d \in Caller : d # c => releasing'[d] = releasing[d]
    BY <1>10 DEF PopOther, TypeOK, Phase
  <2>. QED  BY <1>10, <2>1 DEF PopOther, TypeOK
<1>. QED  BY <1>1, <1>2, <1>3, <1>4, <1>5, <1>6, <1>7, <1>8, <1>9, <1>10 DEF Next

\* The count of slots is never negative, and two release calls never run the
\* release function of the same lease (controlplane.go:91-99, store.go:185-195).
THEOREM TypeCorrect == Spec => []TypeOK
  BY InitType, NextType, PTL DEF Spec

-----------------------------------------------------------------------------
(* The limit.  With prompt clients no busy lease outlives its time, and    *)
(* the key's expiry, moved by every acquisition, is later than that: the   *)
(* count of slots is not forgotten while a lease is busy, and covers them. *)

\* The inductive invariant.
Covered ==
  /\ TypeOK
  /\ item.value <= Limit
  /\ \A l \in holds : phase[l] # "unused"
  /\ \A l \in Busy : /\ acquiredAt[l] <= now /\ now <= acquiredAt[l] + LeaseTTL
                     /\ acquiredAt[l] + LeaseTTL <= item.expiry
  /\ Cardinality(Busy) <= Slots

\* As long as no two leases got the same id, each release call finds its own.
Unshared == \A l \in Lease : id[l] = l /\ phase[l] # "robbed"

\* Facts about finite sets of leases, with plain set variables.
LEMMA LeaseSets ==
  /\ \A S : S \subseteq Lease => IsFiniteSet(S) /\ Cardinality(S) \in Nat
  /\ \A S, T : S \subseteq T /\ T \subseteq Lease => Cardinality(S) <= Cardinality(T)
  /\ \A S, T, l : T \subseteq Lease /\ S \subseteq T \union {l} /\ l \in Lease
                    => Cardinality(S) <= Cardinality(T) + 1
  /\ \A S, l : S \subseteq Lease /\ l \in S
                    => Cardinality(S) >= 1 /\ Cardinality(S \ {l}) = Cardinality(S) - 1
  /\ Cardinality({}) = 0
<1>1. \A S : S \subseteq Lease => IsFiniteSet(S) /\ Cardinality(S) \in Nat
  BY CardSubset, CardType, LeaseAssumption
<1>2. \A S, T : S \subseteq T /\ T \subseteq Lease => Cardinality(S) <= Cardinality(T)
  BY <1>1, CardSubset
<1>3. ASSUME NEW S, NEW T, NEW l \in Lease, T \subseteq Lease, S \subseteq T \union {l}
      PROVE  Cardinality(S) <= Cardinality(T) + 1
  <2>1. IsFiniteSet(T) /\ Cardinality(T) \in Nat /\ Cardinality(S) \in Nat
    BY <1>1, <1>3
  <2>2. Cardinality(T \union {l}) <= Cardinality(T) + 1
    <3>1. Cardinality(T \union {l}) = IF l \in T THEN Cardinality(T) ELSE Cardinality(T) + 1
      BY ZenonT(40), <2>1, CardAdd
    <3>. QED  BY <2>1, <3>1
  <2>3. Cardinality(S) <= Cardinality(T \union {l})
    BY <1>2, <1>3
  <2>4. Cardinality(T \union {l}) \in Nat
    BY <1>1, <1>3
  <2>. QED  BY <2>1, <2>2, <2>3, <2>4
<1>4. ASSUME NEW S, NEW l \in S, S \subseteq Lease
      PROVE  Cardinality(S) >= 1 /\ Cardinality(S \ {l}) = Cardinality(S) - 1
  <2>1. IsFiniteSet(S) /\ Cardinality(S) \in Nat /\ Cardinality(S \ {l}) \in Nat
    BY <1>1, <1>4
  <2>2. Cardinality(S \ {l}) = Cardinality(S) - 1
    BY <2>1, CardRemove
  <2>. QED  BY <2>1, <2>2
<1>. QED  BY <1>1, <1>2, <1>3, <1>4, CardEmpty

\* While a lease is busy the store's entry is alive.
LEMMA BusyIsLive ==
  ASSUME Covered, Busy # {} PROVE Live(item, now) = item
<1>1. PICK l \in Busy : now <= acquiredAt[l] + LeaseTTL /\ acquiredAt[l] + LeaseTTL <= item.expiry
  BY DEF Covered
<1>2. acquiredAt[l] \in Nat /\ now \in Nat /\ item.expiry \in Nat
  BY DEF Covered, TypeOK, Busy
<1>. QED  BY <1>1, <1>2, LeaseAssumption DEF Live, Expired

\* A step that makes no lease busy and takes no slot keeps the invariant.
LEMMA ShrinkCovered ==
  ASSUME Covered, TypeOK', now' = now, acquiredAt' = acquiredAt,
         item' = item \/ item' = Live(item, now),
         Busy' \subseteq Busy, \A l \in holds' : phase'[l] # "unused"
  PROVE  Covered'
<1>1. Busy \subseteq Lease /\ item.value \in Nat /\ Live(item, now) \in [value : Nat, expiry : Nat]
  BY LiveType DEF Covered, TypeOK, Busy
<1>2. Slots' = Slots /\ Slots \in Nat
  BY <1>1 DEF Slots, Live, Expired, ZeroItem, NoExpiry
<1>3. Cardinality(Busy') <= Slots'
  <2>1. /\ Cardinality(Busy') <= Cardinality(Busy)
        /\ Cardinality(Busy) \in Nat /\ Cardinality(Busy') \in Nat
    BY <1>1, LeaseSets
  <2>. QED  BY <1>2, <2>1 DEF Covered
<1>4. item'.value <= Limit
  BY <1>1, LeaseAssumption DEF Covered, Live, ZeroItem
<1>5. ASSUME NEW l \in Busy' PROVE /\ acquiredAt'[l] <= now' /\ now' <= acquiredAt'[l] + LeaseTTL
                                   /\ acquiredAt'[l] + LeaseTTL <= item'.expiry
  <2>1. l \in Busy /\ Busy # {}
    OBVIOUS
  <2>2. item' = item
    BY <2>1, BusyIsLive
  <2>. QED  BY <2>1, <2>2 DEF Covered
<1>. QED  BY <1>3, <1>4, <1>5 DEF Covered

\* Taking a slot for one lease keeps the invariant.
LEMMA TakeCovered ==
  ASSUME Covered, TypeOK', NEW l \in Lease, TakeSlot(l), now' = now, l \notin Busy,
         Busy' \subseteq Busy \union {l}, \A k \in holds' : phase'[k] # "unused"
  PROVE  Covered'
<1>. DEFINE it == Live(item, now)
<1>1. Busy \subseteq Lease /\ it \in [value : Nat, expiry : Nat] /\ now \in Nat
      /\ LeaseTTL \in Nat \ {0} /\ Limit \in Nat
  BY LiveType, LeaseAssumption DEF Covered, TypeOK, Busy
<1>2. item' = [value |-> it.value + 1, expiry |-> now + LeaseTTL] /\ it.value < Limit
  BY <1>1 DEF TakeSlot, Written
<1>3. it.value = Slots /\ it.value \in Nat
  BY <1>1 DEF Slots
<1>. HIDE DEF it
<1>4. Slots' = Slots + 1
  BY <1>1, <1>2, <1>3 DEF Slots, Live, Expired
<1>5. Cardinality(Busy') <= Slots'
  <2>1. /\ Cardinality(Busy') <= Cardinality(Busy) + 1
        /\ Cardinality(Busy) \in Nat /\ Cardinality(Busy') \in Nat
    <3>1. Busy' \subseteq Lease
      BY <1>1
    <3>. QED  BY <1>1, <3>1, LeaseSets
  <2>. QED  BY <1>3, <1>4, <2>1 DEF Covered
<1>6. ASSUME NEW k \in Busy' PROVE /\ acquiredAt'[k] <= now' /\ now' <= acquiredAt'[k] + LeaseTTL
                                   /\ acquiredAt'[k] + LeaseTTL <= item'.expiry
  <2>1. CASE k = l
    BY <1>1, <1>2, <2>1 DEF TakeSlot, Covered, TypeOK
  <2>2. CASE k # l
    <3>1. k \in Busy /\ k \in Lease /\ acquiredAt'[k] = acquiredAt[k] /\ acquiredAt[k] \in Nat
      BY <1>1, <2>2 DEF TakeSlot, Covered, TypeOK
    <3>. QED  BY <1>1, <1>2, <3>1 DEF Covered
  <2>. QED  BY <2>1, <2>2
<1>7. item'.value <= Limit
  BY <1>1, <1>2, <1>3
<1>. QED  BY <1>5, <1>6, <1>7 DEF Covered

\* Giving the slot of a busy lease back keeps the invariant.
LEMMA GiveCovered ==
  ASSUME Covered, TypeOK', NEW l \in Busy, GiveBack(l), now' = now,
         acquiredAt' = acquiredAt, holds' = holds, Busy' = Busy \ {l},
         \A k \in holds' : phase'[k] # "unused"
  PROVE  Covered'
<1>1. /\ Busy \subseteq Lease /\ item \in [value : Nat, expiry : Nat]
      /\ Live(item, now) = item /\ Slots = item.value
  BY BusyIsLive DEF Covered, TypeOK, Busy, Slots
<1>2. /\ Cardinality(Busy) \in Nat /\ Cardinality(Busy) >= 1
      /\ Cardinality(Busy') = Cardinality(Busy) - 1
  BY <1>1, LeaseSets
<1>3. item.value \in Nat /\ item.value >= 1 /\ item.expiry \in Nat
  BY <1>1, <1>2 DEF Covered
<1>4. item' = [item EXCEPT !.value = @ - 1]
  BY <1>1, <1>3 DEF GiveBack
<1>5. item'.value = item.value - 1 /\ item'.expiry = item.expiry
  BY <1>1, <1>4
<1>6. Slots' = Slots - 1
  BY <1>1, <1>3, <1>5 DEF Slots, Live, Expired, ZeroItem
<1>7. Cardinality(Busy') <= Slots'
  BY <1>1, <1>2, <1>3, <1>6 DEF Covered
<1>8. item'.value <= Limit
  BY <1>3, <1>5, LeaseAssumption DEF Covered
<1>9. \A k \in Busy' : /\ acquiredAt'[k] <= now' /\ now' <= acquiredAt'[k] + LeaseTTL
                       /\ acquiredAt'[k] + LeaseTTL <= item'.expiry
  BY <1>5 DEF Covered
<1>. QED  BY <1>7, <1>8, <1>9 DEF Covered

\* The clock keeps the invariant, if no busy lease runs out.
LEMMA TickCovered ==
  ASSUME ~late', Covered, TypeOK', Tick PROVE Covered'
<1>1. /\ now' = now + 1 /\ now \in Nat /\ item' = item /\ Busy' = Busy
      /\ acquiredAt' = acquiredAt /\ holds' = holds /\ phase' = phase
  BY DEF Tick, Covered, TypeOK, registry, Busy
<1>2. \A l \in Busy : /\ acquiredAt[l] \in Nat /\ now < acquiredAt[l] + LeaseTTL
                      /\ acquiredAt[l] + LeaseTTL <= item.expiry
  <2>1. \A l \in Busy : ~(now >= acquiredAt[l] + LeaseTTL)
    BY ZenonT(40) DEF Tick
  <2>. QED  BY <2>1, LeaseAssumption DEF Covered, TypeOK, Busy
<1>3. Cardinality(Busy') <= Slots'
  <2>1. CASE Busy = {}
    <3>1. Slots' \in Nat
      <4>1. Live(item, now)' \in [value : Nat, expiry : Nat]
        BY DEF TypeOK, Live, ZeroItem, NoExpiry
      <4>. QED  BY <4>1 DEF Slots
    <3>. QED  BY <1>1, <2>1, <3>1, LeaseSets
  <2>2. CASE Busy # {}
    <3>1. item.expiry \in Nat /\ LeaseTTL \in Nat
      BY LeaseAssumption DEF Covered, TypeOK
    <3>2. ~(now + 1 > item.expiry)
      BY <1>1, <1>2, <2>2, <3>1
    <3>3. Slots' = item.value /\ Slots = item.value
      BY <1>1, <2>2, <3>2, BusyIsLive DEF Slots, Live, Expired
    <3>. QED  BY <1>1, <3>3 DEF Covered
  <2>. QED  BY <2>1, <2>2
<1>4. \A l \in Busy' : /\ acquiredAt'[l] <= now' /\ now' <= acquiredAt'[l] + LeaseTTL
                       /\ acquiredAt'[l] + LeaseTTL <= item'.expiry
  BY <1>1, <1>2, LeaseAssumption DEF Covered
<1>. QED  BY <1>1, <1>3, <1>4 DEF Covered

\* Every step keeps the invariant, if clients are prompt.
LEMMA NextCovered == Covered /\ Unshared /\ [Next]_vars /\ ~late' /\ ~collided' => Covered'
<1>. SUFFICES ASSUME Covered, Unshared, [Next]_vars, ~late', ~collided' PROVE Covered'
  OBVIOUS
<1>0. TypeOK /\ TypeOK' /\ \A l \in holds : phase[l] # "unused"
  BY NextType DEF Covered
<1>1. CASE UNCHANGED vars
  <2>1. /\ now' = now /\ acquiredAt' = acquiredAt /\ item' = item /\ Busy' \subseteq Busy
        /\ \A l \in holds' : phase'[l] # "unused"
    BY <1>0, <1>1 DEF vars, registry, Busy
  <2>. QED  BY <1>0, <2>1, ShrinkCovered
<1>2. CASE Tick
  BY <1>0, <1>2, TickCovered
<1>3. CASE AcquireDenied \/ Restart
  <2>1. /\ now' = now /\ acquiredAt' = acquiredAt
        /\ item' = item \/ item' = Live(item, now)
        /\ Busy' \subseteq Busy /\ \A l \in holds' : phase'[l] # "unused"
    BY <1>0, <1>3 DEF AcquireDenied, Restart, registry, Busy, TypeOK
  <2>. QED  BY <1>0, <2>1, ShrinkCovered
<1>4. ASSUME NEW l \in Lease, Put(l) \/ Abandon(l) \/ AcquireShadow(l) PROVE Covered'
  <2>1. /\ now' = now /\ acquiredAt' = acquiredAt
        /\ item' = item \/ item' = Live(item, now)
        /\ Busy' \subseteq Busy /\ \A k \in holds' : phase'[k] # "unused"
    BY <1>0, <1>4 DEF Put, Abandon, AcquireShadow, Grant, Busy, TypeOK
  <2>. QED  BY <1>0, <2>1, ShrinkCovered
<1>5. ASSUME NEW l \in Lease, Acquire(l) \/ AcquireFails(l) \/ Check(l) PROVE Covered'
  <2>1. /\ now' = now /\ l \notin Busy /\ Busy' \subseteq Busy \union {l}
        /\ \A k \in holds' : phase'[k] # "unused"
    BY <1>0, <1>5 DEF Acquire, AcquireFails, Check, Grant, Busy, TypeOK
  <2>2. CASE TakeSlot(l)
    BY <1>0, <2>1, <2>2, TakeCovered
  <2>3. CASE ~TakeSlot(l)
    <3>1. AcquireFails(l) /\ item' = item /\ acquiredAt' = acquiredAt /\ holds' = holds
      BY <1>5, <2>3 DEF Acquire, AcquireFails, Check
    <3>2. Busy' \subseteq Busy
      BY <1>0, <3>1 DEF AcquireFails, Grant, Busy, TypeOK
    <3>. QED  BY <1>0, <2>1, <3>1, <3>2, ShrinkCovered
  <2>. QED  BY <2>2, <2>3
<1>6. ASSUME NEW c \in Caller, NEW l \in Lease, Pop(c, l) PROVE Covered'
  <2>1. /\ now' = now /\ acquiredAt' = acquiredAt /\ item' = item
        /\ Busy' \subseteq Busy /\ \A k \in holds' : phase'[k] # "unused"
    BY <1>0, <1>6 DEF Pop, Busy, TypeOK
  <2>. QED  BY <1>0, <2>1, ShrinkCovered
<1>7. ASSUME NEW c \in Caller, Release(c) \/ ReleaseFails(c) PROVE Covered'
  <2>. DEFINE l == releasing[c]
  <2>1. l \in Lease /\ phase[l] = "popped"
    BY <1>0, <1>7, LeaseAssumption DEF Release, ReleaseFails, TypeOK, Unshared
  <2>2. /\ now' = now /\ acquiredAt' = acquiredAt /\ holds' = holds
        /\ phase' = [phase EXCEPT ![l] = "ended"]
    BY <1>0, <1>7, <2>1 DEF Release, ReleaseFails, Released, TypeOK
  <2>. HIDE DEF l
  <2>3. Busy' = Busy \ {l} /\ \A k \in holds' : phase'[k] # "unused"
    BY <1>0, <2>1, <2>2 DEF Busy, TypeOK
  <2>4. CASE l \in holds /\ GiveBack(l)
    <3>1. l \in Busy
      BY <2>1, <2>4 DEF Busy
    <3>. QED  BY <1>0, <2>2, <2>3, <2>4, <3>1, GiveCovered
  <2>5. CASE item' = item
    BY <1>0, <2>2, <2>3, <2>5, ShrinkCovered
  <2>. QED  BY <1>7, <2>4, <2>5 DEF Release, ReleaseFails, l
<1>8. ASSUME NEW l \in Lease, NEW k \in Lease, PutCollides(l, k) PROVE Covered'
  BY <1>8 DEF PutCollides
<1>9. ASSUME NEW c \in Caller, NEW l \in Lease, NEW k \in Lease, PopOther(c, l, k) PROVE Covered'
  BY <1>9 DEF PopOther, Unshared
<1>. QED  BY <1>1, <1>2, <1>3, <1>4, <1>5, <1>6, <1>7, <1>8, <1>9 DEF Next

\* No step makes ids shared, but the collision itself.
LEMMA NextUnshared == TypeOK /\ Unshared /\ [Next]_vars /\ ~collided' => Unshared'
<1>. SUFFICES ASSUME TypeOK, Unshared, [Next]_vars, ~collided' PROVE Unshared'
  OBVIOUS
<1>1. CASE UNCHANGED vars \/ Tick \/ AcquireDenied \/ Restart
  BY <1>1 DEF vars, Tick, AcquireDenied, Restart, registry, Unshared, TypeOK
<1>2. ASSUME NEW l \in Lease,
             Acquire(l) \/ AcquireShadow(l) \/ AcquireFails(l) \/ Check(l) \/ Put(l) \/ Abandon(l)
      PROVE  Unshared'
  BY <1>2 DEF Acquire, AcquireShadow, AcquireFails, Check, Put, Abandon, Grant, Unshared, TypeOK
<1>3. ASSUME NEW c \in Caller, NEW l \in Lease, Pop(c, l) PROVE Unshared'
  BY <1>3 DEF Pop, Unshared, TypeOK
<1>4. ASSUME NEW c \in Caller, Release(c) \/ ReleaseFails(c) PROVE Unshared'
  BY <1>4 DEF Release, ReleaseFails, Released, Unshared, TypeOK
<1>5. ASSUME NEW l \in Lease, NEW k \in Lease, PutCollides(l, k) PROVE Unshared'
  BY <1>5 DEF PutCollides
<1>6. ASSUME NEW c \in Caller, NEW l \in Lease, NEW k \in Lease, PopOther(c, l, k) PROVE Unshared'
  BY <1>6 DEF PopOther, Unshared
<1>. QED  BY <1>1, <1>2, <1>3, <1>4, <1>5, <1>6 DEF Next

\* Once a lease has been late, or has collided, late and collided stay TRUE.
LEMMA HistoryStays ==
  [Next]_vars => (~late' => ~late) /\ (~collided' => ~collided)
<1>. SUFFICES ASSUME [Next]_vars PROVE (~late' => ~late) /\ (~collided' => ~collided)
  OBVIOUS
<1>1. CASE Tick
  BY ZenonT(40), <1>1 DEF Tick, registry
<1>2. ASSUME NEW l \in Lease, NEW k \in Lease, PutCollides(l, k)
      PROVE  (~late' => ~late) /\ (~collided' => ~collided)
  BY <1>2 DEF PutCollides
<1>3. CASE late' = late /\ collided' = collided
  BY <1>3
<1>4. CASE UNCHANGED vars \/ AcquireDenied \/ Restart
  BY <1>3, <1>4 DEF vars, AcquireDenied, Restart, registry
<1>5. ASSUME NEW l \in Lease,
             Acquire(l) \/ AcquireShadow(l) \/ AcquireFails(l) \/ Check(l) \/ Put(l) \/ Abandon(l)
      PROVE  late' = late /\ collided' = collided
  BY <1>5 DEF Acquire, AcquireShadow, AcquireFails, Check, Put, Abandon
<1>6. ASSUME NEW c \in Caller,
             \/ \E l \in Lease : Pop(c, l) \/ \E k \in Lease : PopOther(c, l, k)
             \/ Release(c) \/ ReleaseFails(c)
      PROVE  late' = late /\ collided' = collided
  BY <1>6 DEF Pop, PopOther, Release, ReleaseFails
<1>. QED  BY <1>1, <1>2, <1>3, <1>4, <1>5, <1>6 DEF Next

\* Nothing is busy at first.
LEMMA InitCovered == Init => Covered
<1>. SUFFICES ASSUME Init PROVE Covered
  OBVIOUS
<1>1. Busy = {} /\ Slots = 0 /\ item.value = 0 /\ holds = {}
  BY DEF Init, Busy, Slots, Live, ZeroItem
<1>. QED  BY <1>1, InitType, LeaseSets, LeaseAssumption DEF Covered

\* For any number of clients, leases and release calls: if clients end their
\* work within the lease, and no two leases are put under the same id, never
\* more than Limit operations that hold a slot are in flight, through failed
\* store calls, restarts of the server and release calls sent twice (engine.go:92-110, controlplane.go:91-99).
THEOREM LimitKept == Spec => []SlotsRespected
<1>. DEFINE Safe == ~late /\ ~collided => Covered /\ Unshared
<1>1. ASSUME Covered PROVE SlotsRespected
  <2>. DEFINE F == {l \in Lease : InFlight(l)}
  <2>1. F \subseteq Busy /\ Busy \subseteq Lease
    BY <1>1 DEF InFlight, Busy, Covered, TypeOK
  <2>2. /\ Cardinality(F) <= Cardinality(Busy)
        /\ Cardinality(F) \in Nat /\ Cardinality(Busy) \in Nat
    <3>. HIDE DEF F
    <3>. QED  BY <2>1, LeaseSets
  <2>3. Slots \in Nat /\ Slots <= Limit
    BY <1>1, LeaseAssumption DEF Covered, TypeOK, Slots, Live, ZeroItem
  <2>4. Cardinality(F) <= Limit
    <3>. HIDE DEF F
    <3>. QED  BY <1>1, <2>2, <2>3, LeaseAssumption DEF Covered
  <2>. QED  BY <2>4 DEF SlotsRespected
<1>2. Safe => SlotsRespected
  BY <1>1 DEF SlotsRespected
<1>3. Init => Safe
  BY InitCovered DEF Init, Unshared
<1>4. Safe /\ [Next]_vars => Safe'
  <2>. SUFFICES ASSUME Safe, [Next]_vars, ~late', ~collided' PROVE Covered' /\ Unshared'
    OBVIOUS
  <2>1. Covered /\ Unshared
    BY HistoryStays
  <2>. QED  BY <2>1, NextCovered, NextUnshared DEF Covered
<1>. QED  BY <1>2, <1>3, <1>4, PTL DEF Spec

-----------------------------------------------------------------------------
(* The count of slots, for late clients and shared ids too *)

\* The inductive invariant: the stored count, dead or alive, is covered.
Owned ==
  /\ TypeOK
  /\ \A l \in taken : phase[l] # "unused"
  /\ item.value <= Cardinality(taken)

\* A store call that takes no slot, or gives one back, keeps the count covered.
LEMMA OwnedValue ==
  ASSUME Owned, TypeOK'
  PROVE  /\ (item' = item \/ item' = Live(item, now)) /\ taken' = taken
              => item'.value <= Cardinality(taken')
         /\ \A l \in Lease : GiveBack(l) => item'.value <= Cardinality(taken')
         /\ \A l \in Lease : TakeSlot(l) /\ l \notin taken => item'.value <= Cardinality(taken')
<1>. DEFINE it == Live(item, now)
<1>1. /\ it \in [value : Nat, expiry : Nat] /\ item.value \in Nat /\ taken \subseteq Lease
      /\ it.value = item.value \/ it.value = 0
  BY LiveType DEF Owned, TypeOK, Live, ZeroItem
<1>2. /\ Cardinality(taken) \in Nat /\ it.value \in Nat /\ it.value <= Cardinality(taken)
  BY <1>1, LeaseSets DEF Owned
<1>3. (item' = item \/ item' = it) /\ taken' = taken => item'.value <= Cardinality(taken')
  BY <1>1, <1>2 DEF Owned
<1>. HIDE DEF it
<1>4. ASSUME NEW l \in Lease, GiveBack(l) PROVE item'.value <= Cardinality(taken')
  <2>1. /\ item' = IF it.value > 0 THEN [it EXCEPT !.value = @ - 1] ELSE it
        /\ taken' = taken \ {l}
    BY <1>4 DEF GiveBack, it
  <2>2. item'.value = IF it.value > 0 THEN it.value - 1 ELSE 0
    BY <1>1, <1>2, <2>1
  <2>3. /\ Cardinality(taken') \in Nat
        /\ Cardinality(taken') = Cardinality(taken) \/ Cardinality(taken') = Cardinality(taken) - 1
    <3>1. CASE l \in taken
      BY <1>1, <1>2, <2>1, <3>1, LeaseSets
    <3>2. CASE l \notin taken
      <4>1. taken' = taken
        BY <2>1, <3>2
      <4>. QED  BY <1>2, <4>1
    <3>. QED  BY <3>1, <3>2
  <2>. QED  BY <1>2, <2>2, <2>3
<1>5. ASSUME NEW l \in Lease, TakeSlot(l), l \notin taken PROVE item'.value <= Cardinality(taken')
  <2>1. item'.value = it.value + 1 /\ taken' = taken \union {l}
    BY <1>1, <1>5 DEF TakeSlot, Written, it
  <2>2. IsFiniteSet(taken)
    BY <1>1, LeaseSets
  <2>3. Cardinality(taken') = Cardinality(taken) + 1
    BY ZenonT(40), <1>5, <2>1, <2>2, CardAdd
  <2>. QED  BY <1>2, <2>1, <2>3
<1>. QED  BY <1>3, <1>4, <1>5 DEF it

\* Every step keeps the count covered.
LEMMA NextOwned == Owned /\ [Next]_vars => Owned'
<1>. SUFFICES ASSUME Owned, [Next]_vars PROVE Owned'
  OBVIOUS
<1>0. TypeOK /\ TypeOK' /\ \A l \in taken : phase[l] # "unused"
  BY NextType DEF Owned
<1>1. CASE UNCHANGED vars \/ Tick \/ AcquireDenied \/ Restart
  <2>1. /\ item' = item \/ item' = Live(item, now)
        /\ taken' = taken /\ \A l \in taken' : phase'[l] # "unused"
    BY <1>0, <1>1 DEF vars, registry, Tick, AcquireDenied, Restart, TypeOK
  <2>. QED  BY <1>0, <2>1, OwnedValue DEF Owned
<1>2. ASSUME NEW l \in Lease, Put(l) \/ Abandon(l) \/ AcquireShadow(l) PROVE Owned'
  <2>1. /\ item' = item \/ item' = Live(item, now)
        /\ taken' = taken /\ \A k \in taken' : phase'[k] # "unused"
    BY <1>0, <1>2 DEF Put, Abandon, AcquireShadow, Grant, TypeOK
  <2>. QED  BY <1>0, <2>1, OwnedValue DEF Owned
<1>3. ASSUME NEW l \in Lease, Acquire(l) \/ AcquireFails(l) \/ Check(l) PROVE Owned'
  <2>1. /\ l \notin taken /\ phase'[l] # "unused"
        /\ \A k \in Lease : k # l => phase'[k] = phase[k]
        /\ TakeSlot(l) \/ (item' = item /\ taken' = taken)
    BY <1>0, <1>3 DEF Acquire, AcquireFails, Check, Grant, TypeOK
  <2>2. taken' \subseteq taken \union {l}
    BY <2>1 DEF TakeSlot
  <2>3. \A k \in taken' : phase'[k] # "unused"
    BY <1>0, <2>1, <2>2 DEF TypeOK
  <2>. QED  BY <1>0, <2>1, <2>3, OwnedValue DEF Owned
<1>4. ASSUME NEW l \in Lease, NEW k \in Lease,
             PutCollides(l, k) \/ \E c \in Caller : Pop(c, l) \/ PopOther(c, l, k)
      PROVE  Owned'
  <2>1. /\ item' = item /\ taken' = taken /\ \A j \in taken' : phase'[j] # "unused"
    BY <1>0, <1>4 DEF PutCollides, Pop, PopOther, TypeOK
  <2>. QED  BY <1>0, <2>1, OwnedValue DEF Owned
<1>5. ASSUME NEW c \in Caller, Release(c) \/ ReleaseFails(c) PROVE Owned'
  <2>. DEFINE l == releasing[c]
  <2>1. /\ l \in Lease
        /\ \A k \in Lease : phase'[k] = phase[k] \/ phase'[k] \in {"orphan", "ended"}
    BY <1>0, <1>5, LeaseAssumption DEF Release, ReleaseFails, Released, TypeOK
  <2>. HIDE DEF l
  <2>2. GiveBack(l) \/ (item' = item /\ taken' = taken)
    BY <1>5 DEF Release, ReleaseFails, l
  <2>3. taken' \subseteq taken
    BY <2>2 DEF GiveBack
  <2>4. \A k \in taken' : phase'[k] # "unused"
    BY <1>0, <2>1, <2>3 DEF TypeOK
  <2>. QED  BY <1>0, <2>1, <2>2, <2>4, OwnedValue DEF Owned
<1>. QED  BY <1>1, <1>2, <1>3, <1>4, <1>5 DEF Next

\* For any number of clients and leases, late ones and ones that share an id
\* included: the store never counts more slots than there are leases that took
\* one and did not give it back (store.go:165-195, service.go:35-51).
THEOREM CountKept == Spec => []SlotsAccounted
<1>1. Init => Owned
  <2>. SUFFICES ASSUME Init PROVE Owned
    OBVIOUS
  <2>1. taken = {} /\ item.value = 0
    BY DEF Init, ZeroItem
  <2>. QED  BY <2>1, InitType, LeaseSets DEF Owned
<1>2. Owned => SlotsAccounted
  <2>. SUFFICES ASSUME Owned PROVE Slots <= Cardinality(taken)
    BY DEF SlotsAccounted
  <2>1. taken \subseteq Lease /\ item.value \in Nat /\ (Slots = item.value \/ Slots = 0)
    BY DEF Owned, TypeOK, Slots, Live, ZeroItem
  <2>. QED  BY <2>1, LeaseSets DEF Owned
<1>. QED  BY <1>1, <1>2, NextOwned, PTL DEF Spec

-----------------------------------------------------------------------------
(* Regions *)

-----------------------------------------------------------------------------
(* Proportions, and the greatest element *)

\* Sums of values that are in proportion, within less than k each.
LEMMA SumScaled ==
  ASSUME NEW f, NEW g, NEW S, IsFiniteSet(S), NEW c \in Nat, NEW k \in Nat,
         \A x \in S : f[x] \in Nat /\ g[x] \in Nat /\ f[x] * k <= c * g[x]
  PROVE  SumFunctionOnSet(f, S) * k <= c * SumFunctionOnSet(g, S)
<1> DEFINE C == {T \in SUBSET S : SumFunctionOnSet(f, T) * k <= c * SumFunctionOnSet(g, T)}
<1>1. ASSUME NEW T \in SUBSET S, \A x \in T : T \ {x} \in C PROVE T \in C
  <2>1. CASE T = {}
    BY <2>1, SumFacts
  <2>2. CASE T # {}
    <3>1. PICK x \in T : TRUE
      BY <2>2
    <3>2. IsFiniteSet(T) /\ IsFiniteSet(T \ {x})
      BY FiniteFacts
    <3>3. /\ SumFunctionOnSet(f, T) = f[x] + SumFunctionOnSet(f, T \ {x})
          /\ SumFunctionOnSet(g, T) = g[x] + SumFunctionOnSet(g, T \ {x})
      BY <3>2, SumTake
    <3>4. PICK a \in Nat, b \in Nat : a = SumFunctionOnSet(f, T \ {x}) /\ b = SumFunctionOnSet(g, T \ {x})
      BY <3>2, SumNat
    <3>5. a * k <= c * b /\ f[x] * k <= c * g[x] /\ f[x] \in Nat /\ g[x] \in Nat
      BY <1>1, <3>4
    <3>6. (f[x] + a) * k = f[x] * k + a * k /\ c * (g[x] + b) = c * g[x] + c * b
      BY <3>4, <3>5
    <3>7. a * k \in Nat /\ f[x] * k \in Nat /\ c * b \in Nat /\ c * g[x] \in Nat
      BY <3>4, <3>5
    <3> QED
      BY <3>3, <3>4, <3>5, <3>6, <3>7
  <2> QED
    BY <2>1, <2>2
<1>2. \A T \in SUBSET S : T \in C
  <2> HIDE DEF C
  <2> QED
    BY ZenonT(40), <1>1, SubsetInduction
<1> QED
  BY <1>2

\* a units of k are at most one short of b units of c.
Nearly(a, k, c, b) == c * b <= a * k + k

\* And when each value is within k of its proportion, so is the sum.
LEMMA SumScaledWithin ==
  ASSUME NEW f, NEW g, NEW S, IsFiniteSet(S), NEW c \in Nat, NEW k \in Nat,
         \A x \in S : f[x] \in Nat /\ g[x] \in Nat /\ Nearly(f[x], k, c, g[x])
  PROVE  c * SumFunctionOnSet(g, S) <= SumFunctionOnSet(f, S) * k + Cardinality(S) * k
<1> DEFINE C == {T \in SUBSET S :
                   c * SumFunctionOnSet(g, T) <= SumFunctionOnSet(f, T) * k + Cardinality(T) * k}
<1>1. ASSUME NEW T \in SUBSET S, \A x \in T : T \ {x} \in C PROVE T \in C
  <2>1. CASE T = {}
    BY <2>1, SumFacts, CardEmpty
  <2>2. CASE T # {}
    <3>1. PICK x \in T : TRUE
      BY <2>2
    <3>2. IsFiniteSet(T) /\ IsFiniteSet(T \ {x})
      BY FiniteFacts
    <3>3. /\ SumFunctionOnSet(f, T) = f[x] + SumFunctionOnSet(f, T \ {x})
          /\ SumFunctionOnSet(g, T) = g[x] + SumFunctionOnSet(g, T \ {x})
      <4>1. \A y \in T : f[y] \in Int /\ g[y] \in Int
        OBVIOUS
      <4> HIDE DEF C
      <4>2. SumFunctionOnSet(f, T) = f[x] + SumFunctionOnSet(f, T \ {x})
        BY <3>2, <4>1, SumTake
      <4>3. SumFunctionOnSet(g, T) = g[x] + SumFunctionOnSet(g, T \ {x})
        BY <3>2, <4>1, SumTake
      <4> QED
        BY <4>2, <4>3
    <3>4. PICK a \in Nat, b \in Nat, n \in Nat :
            /\ a = SumFunctionOnSet(f, T \ {x}) /\ b = SumFunctionOnSet(g, T \ {x})
            /\ n = Cardinality(T \ {x})
      BY <3>2, SumNat, CardType
    <3>5. Cardinality(T) = n + 1
      BY <3>2, <3>4, CardRemove, CardType
    <3>6. c * b <= a * k + n * k /\ c * g[x] <= f[x] * k + k /\ f[x] \in Nat /\ g[x] \in Nat
      BY <1>1, <3>4 DEF Nearly
    <3>7. /\ (f[x] + a) * k = f[x] * k + a * k /\ c * (g[x] + b) = c * g[x] + c * b
          /\ (n + 1) * k = n * k + k
      BY <3>4, <3>6
    <3>8. /\ a * k \in Nat /\ f[x] * k \in Nat /\ c * b \in Nat /\ c * g[x] \in Nat
          /\ n * k \in Nat
      BY <3>4, <3>6
    <3>9. c * (g[x] + b) <= (f[x] + a) * k + (n + 1) * k
      BY <3>6, <3>7, <3>8
    <3> QED
      BY <3>3, <3>4, <3>5, <3>9
  <2> QED
    BY <2>1, <2>2
<1>2. \A T \in SUBSET S : T \in C
  <2> HIDE DEF C
  <2> QED
    BY ZenonT(40), <1>1, SubsetInduction
<1> QED
  BY <1>2

\* A finite set of integers that is not empty has a greatest element.
LEMMA FiniteMax ==
  ASSUME NEW S \in SUBSET Int, IsFiniteSet(S), S # {}
  PROVE  \E m \in S : \A x \in S : m >= x
<1> DEFINE C == {T \in SUBSET S : T # {} => \E m \in T : \A x \in T : m >= x}
<1>1. ASSUME NEW T \in SUBSET S, \A x \in T : T \ {x} \in C PROVE T \in C
  <2>1. CASE T = {}
    BY <2>1
  <2>2. CASE T # {}
    <3>1. PICK y \in T : TRUE
      BY ZenonT(40), <2>2
    <3>2. CASE T \ {y} = {}
      <4>1. \A x \in T : y >= x
        BY <3>2
      <4> QED
        BY <4>1
    <3>3. CASE T \ {y} # {}
      <4>1. PICK m \in T \ {y} : \A x \in T \ {y} : m >= x
        BY <1>1, <3>3
      <4>2. \A x \in T : (IF y > m THEN y ELSE m) >= x
        BY <4>1
      <4> QED
        BY <4>2
    <3> QED
      BY <3>2, <3>3
  <2> QED
    BY <2>1, <2>2
<1>2. \A T \in SUBSET S : T \in C
  <2> HIDE DEF C
  <2> QED
    BY ZenonT(40), <1>1, SubsetInduction
<1> QED
  BY <1>2

\* The part of RegionTypeOK that the argument needs, and why a region may be
\* unhealthy: it was drained, or its last heartbeat is too old.
RegionInv ==
  /\ health \in [Region -> {"healthy", "unhealthy"}]
  /\ age \in [Region -> 0..Stale]
  /\ SharesFollowHealth
  /\ \A r \in Region : health[r] = "unhealthy" => r \in drained \/ age[r] > HeartbeatTTL

\* Who has a share after a rebalancing.
LEMMA RebalancedDomain ==
  ASSUME NEW S, weight' = weight,
         health' \in [Region -> {"healthy", "unhealthy"}],
         Healthy' = S, allocations' = Rebalanced(S)
  PROVE  SharesFollowHealth'
<1> DEFINE eligible == IF S = {} THEN Region ELSE S
<1>1. DOMAIN allocations' = {r \in eligible : weight[r] > 0}
  BY DEF Rebalanced, AllocateGlobalLimit
<1> QED
  BY <1>1 DEF SharesFollowHealth

\* What is inductive holds at first, and every operation keeps it.
LEMMA RegionKept == RegionSpec => []RegionInv
<1>1. RegionInit => RegionInv
  <2> SUFFICES ASSUME RegionInit PROVE RegionInv
    OBVIOUS
  <2>1. Healthy = Region /\ Region # {}
    BY AllocatorAssumption DEF RegionInit, Healthy
  <2>2. DOMAIN allocations = {r \in Region : weight[r] > 0}
    BY DEF RegionInit, Rebalanced, AllocateGlobalLimit
  <2>3. SharesFollowHealth
    BY <2>1, <2>2 DEF SharesFollowHealth
  <2> QED
    BY <2>3, AllocatorAssumption DEF RegionInit, RegionInv, Stale
<1>2. RegionInv /\ [RegionNext]_regionVars => RegionInv'
  <2> SUFFICES ASSUME RegionInv, [RegionNext]_regionVars PROVE RegionInv'
    OBVIOUS
  <2>1. HeartbeatTTL \in Nat \ {0} /\ Stale = HeartbeatTTL + 1
    BY AllocatorAssumption DEF Stale
  <2>2. ASSUME UNCHANGED <<weight, health, allocations>>
        PROVE  SharesFollowHealth'
    BY <2>2 DEF RegionInv, SharesFollowHealth, Healthy
  <2>3. CASE UNCHANGED regionVars
    BY <2>2, <2>3 DEF regionVars, RegionInv, Stale
  <2>4. CASE RegionTick
    BY <2>1, <2>2, <2>4 DEF RegionTick, RegionInv, Stale
  <2>5. CASE CheckHealth
    <3> DEFINE missed == {r \in Healthy : age[r] > HeartbeatTTL}
    <3>1. health' = [r \in Region |-> IF r \in missed THEN "unhealthy" ELSE health[r]]
      BY <2>5 DEF CheckHealth
    <3>2. Healthy' = Healthy \ missed
      BY <3>1 DEF Healthy, RegionInv
    <3>3. SharesFollowHealth'
      <4>1. CASE missed = {}
        BY <2>2, <2>5, <3>1, <4>1 DEF CheckHealth, RegionInv
      <4>2. CASE missed # {}
        BY <2>5, <3>1, <3>2, <4>2, RebalancedDomain DEF CheckHealth, RegionInv
      <4> QED
        BY <4>1, <4>2
    <3> QED
      BY <2>5, <3>1, <3>3 DEF CheckHealth, RegionInv, Stale
  <2>6. ASSUME NEW r \in Region, Heartbeat(r) PROVE RegionInv'
    <3>1. Healthy' = Healthy \union {r}
      BY <2>6 DEF Heartbeat, Healthy, RegionInv
    <3>2. SharesFollowHealth'
      <4>1. CASE health[r] = "unhealthy"
        BY <2>6, <3>1, <4>1, RebalancedDomain DEF Heartbeat, RegionInv
      <4>2. CASE health[r] = "healthy"
        BY <2>2, <2>6, <4>2 DEF Heartbeat, RegionInv
      <4> QED
        BY <4>1, <4>2 DEF RegionInv
    <3> QED
      BY <2>1, <2>6, <3>2 DEF Heartbeat, RegionInv, Stale
  <2>7. ASSUME NEW r \in Region, DrainRegion(r) PROVE RegionInv'
    <3>1. Healthy' = Healthy \ {r}
      BY <2>7 DEF DrainRegion, Healthy, RegionInv
    <3>2. SharesFollowHealth'
      BY <2>7, <3>1, RebalancedDomain DEF DrainRegion, RegionInv
    <3> QED
      BY <2>7, <3>2 DEF DrainRegion, RegionInv, Stale
  <2>8. ASSUME NEW r \in Region, RestoreRegion(r) PROVE RegionInv'
    <3>1. Healthy' = Healthy \union {r}
      BY <2>8 DEF RestoreRegion, Healthy, RegionInv
    <3>2. SharesFollowHealth'
      BY <2>8, <3>1, RebalancedDomain DEF RestoreRegion, RegionInv
    <3> QED
      BY <2>1, <2>8, <3>2 DEF RestoreRegion, RegionInv, Stale
  <2> QED
    BY <2>3, <2>4, <2>5, <2>6, <2>7, <2>8 DEF RegionNext
<1> QED
  BY <1>1, <1>2, PTL DEF RegionSpec

\* The regions with a share are always the healthy ones that have a weight, or
\* all that have one when none is healthy.
THEOREM HealthDecides == RegionSpec => []SharesFollowHealth
BY RegionKept, PTL DEF RegionInv

\* A region that sends its heartbeats in time and is not drained keeps a share.
THEOREM AliveNotDropped == RegionSpec => []AliveKeepsShare
<1>1. RegionInv => AliveKeepsShare
  <2> SUFFICES ASSUME RegionInv, NEW r \in Region,
                      weight[r] > 0, age[r] <= HeartbeatTTL, r \notin drained
               PROVE  r \in DOMAIN allocations
    BY DEF AliveKeepsShare
  <2>1. ~(age[r] > HeartbeatTTL)
    BY AllocatorAssumption DEF RegionInv, Stale
  <2>2. r \in Healthy
    BY <2>1 DEF RegionInv, Healthy
  <2> QED
    BY <2>2 DEF RegionInv, SharesFollowHealth
<1> QED
  BY <1>1, RegionKept, PTL

-----------------------------------------------------------------------------
(* The split *)

\* The regions of S that take part in a split.
Valid(S) == {r \in S : weight[r] > 0}

\* What wraps does not grow: it stays, or ends up below.
LEMMA WrapFacts ==
  ASSUME NEW n \in Nat
  PROVE  Wrap(n) \in Int /\ Wrap(n) <= n /\ (n <= MaxInt => Wrap(n) = n)
<1> DEFINE M == MaxInt + 1
           D == 2 * M
<1>1. M \in Nat \ {0} /\ D \in Nat \ {0} /\ D = M + M
  BY AllocatorAssumption
<1>2. PICK k \in Nat, m \in Nat : k = n + M /\ m = k % D
  BY <1>1
<1>3. m <= k /\ (k < D => m = k)
  BY <1>1, <1>2
<1>4. MaxInt \in Nat
  BY AllocatorAssumption
<1>5. Wrap(n) = m - M
  <2>1. n + MaxInt + 1 = k
    BY <1>2, <1>4
  <2>2. Wrap(n) = ((n + MaxInt + 1) % D) - M
    BY DEF Wrap
  <2> QED
    BY <1>2, <2>1, <2>2
<1> QED
  BY <1>1, <1>2, <1>3, <1>4, <1>5

\* Rounding down.
LEMMA DivFacts ==
  ASSUME NEW n \in Nat, NEW d \in Nat \ {0}
  PROVE  n \div d \in Nat /\ (n \div d) * d <= n /\ n < (n \div d) * d + d
OBVIOUS

\* A share is at most in proportion to the weight, and less than one unit short
\* of it when the product does not wrap.
LEMMA ShareFacts ==
  ASSUME NEW r, NEW S, weight[r] \in Nat, TotalWeight(S) \in Nat \ {0}
  PROVE  /\ Share(r, S) \in Nat
         /\ Share(r, S) * TotalWeight(S) <= GlobalLimit * weight[r]
         /\ GlobalLimit * weight[r] <= MaxInt =>
              GlobalLimit * weight[r] < Share(r, S) * TotalWeight(S) + TotalWeight(S)
<1>1. PICK d \in Nat \ {0} : d = TotalWeight(S)
  OBVIOUS
<1>2. PICK n \in Nat : n = GlobalLimit * weight[r]
  BY AllocatorAssumption
<1>3. PICK v \in Int : v = Wrap(n) /\ v <= n /\ (n <= MaxInt => v = n)
  BY WrapFacts
<1>4. Share(r, S) = IF Quotient(v, d) < 0 THEN 0 ELSE Quotient(v, d)
  BY <1>1, <1>2, <1>3 DEF Share
<1>5. CASE v >= 0
  <2>1. PICK q \in Nat : q = v \div d /\ q * d <= v /\ v < q * d + d
    BY <1>5, DivFacts
  <2>2. Quotient(v, d) = q
    BY <1>5, <2>1 DEF Quotient
  <2>3. Share(r, S) = q
    BY <1>4, <2>1, <2>2
  <2>4. q * d \in Nat
    OBVIOUS
  <2> QED
    BY <1>1, <1>2, <1>3, <1>5, <2>1, <2>3, <2>4
<1>6. CASE v < 0
  <2>1. PICK q \in Nat : q = (-v) \div d
    BY <1>6, DivFacts
  <2>2. Quotient(v, d) = -q
    BY <1>6, <2>1 DEF Quotient
  <2>3. Share(r, S) = 0
    BY <1>4, <2>1, <2>2
  <2>4. ~(n <= MaxInt)
    BY <1>3, <1>6
  <2> QED
    BY <1>1, <1>2, <2>3, <2>4
<1> QED
  BY <1>3, <1>5, <1>6

\* The weights of a split.
LEMMA TotalFacts ==
  ASSUME weight \in [Region -> Weight], NEW S \in SUBSET Region, Valid(S) # {}
  PROVE  /\ IsFiniteSet(Valid(S)) /\ Max(Valid(S)) \in Valid(S)
         /\ \A r \in Valid(S) : weight[r] \in Nat \ {0}
         /\ TotalWeight(Valid(S)) \in Nat \ {0}
         /\ TotalWeight(Valid(S)) =
              weight[Max(Valid(S))] + TotalWeight(Valid(S) \ {Max(Valid(S))})
<1> DEFINE V == Valid(S)
<1>1. IsFiniteSet(V) /\ V \in SUBSET Int
  <2>1. V \in SUBSET Region
    BY DEF Valid
  <2>2. IsFiniteSet(Region) /\ Region \subseteq Nat
    BY AllocatorAssumption
  <2> HIDE DEF V
  <2>3. IsFiniteSet(V)
    BY ZenonT(40), <2>1, <2>2, CardSubset
  <2>4. V \in SUBSET Int
    BY <2>1, <2>2
  <2> QED
    BY <2>3, <2>4
<1>2. PICK top \in V : \A x \in V : top >= x
  BY <1>1, FiniteMax
<1>3. Max(V) \in V
  BY <1>2 DEF Max
<1>4. \A r \in V : weight[r] \in Nat \ {0}
  <2>1. \A r \in V : r \in Region /\ weight[r] > 0
    BY DEF Valid
  <2>2. \A r \in Region : weight[r] \in Nat
    BY ZenonT(40), AllocatorAssumption
  <2> QED
    BY <2>1, <2>2
<1> HIDE DEF V
<1>5. TotalWeight(V) = weight[Max(V)] + TotalWeight(V \ {Max(V)})
  <2>1. \A r \in V : weight[r] \in Int
    BY <1>4
  <2>2. PICK w, m : w = weight /\ m = Max(V) /\ m \in V /\ \A r \in V : w[r] \in Int
    BY <1>3, <2>1
  <2>3. IsFiniteSet(V)
    BY <1>1
  <2>4. SumFunctionOnSet(w, V) = w[m] + SumFunctionOnSet(w, V \ {m})
    BY ONLY <2>2, <2>3, SumTake
  <2> QED
    BY <2>2, <2>4 DEF TotalWeight
<1>6. TotalWeight(V \ {Max(V)}) \in Nat
  <2>1. IsFiniteSet(V \ {Max(V)})
    BY <1>1, CardSubset
  <2> QED
    BY <1>4, <2>1, SumNat DEF TotalWeight
<1> QED
  BY <1>1, <1>3, <1>4, <1>5, <1>6 DEF V

\* The regions but the last one, their shares, and the sum of these.
Others(V) == V \ {Max(V)}
SharesOf(V) == [r \in Others(V) |-> Share(r, V)]
Assigned(V) == SumFunctionOnSet(SharesOf(V), Others(V))

\* No more is assigned than there is, and the last region gets the rest.
LEMMA SplitFacts ==
  ASSUME weight \in [Region -> Weight], NEW S \in SUBSET Region, NEW V, V = Valid(S), V # {},
         allocations = AllocateGlobalLimit(S)
  PROVE  /\ Assigned(V) \in Nat /\ Assigned(V) <= GlobalLimit
         /\ \A r \in Others(V) : SharesOf(V)[r] \in Nat
         /\ allocations = [r \in V |-> IF r \in Others(V) THEN SharesOf(V)[r]
                                       ELSE GlobalLimit - Assigned(V)]
         /\ Assigned(V) * TotalWeight(V) <= GlobalLimit * TotalWeight(Others(V))
         /\ (\A r \in V : GlobalLimit * weight[r] <= MaxInt) =>
              GlobalLimit * TotalWeight(Others(V))
                <= Assigned(V) * TotalWeight(V) + Cardinality(Others(V)) * TotalWeight(V)
<1>2. PICK m : m = Max(V)
  OBVIOUS
<1>3. PICK others : others = Others(V) /\ others = V \ {m}
  BY ZenonT(40), <1>2 DEF Others
<1>4. PICK total : total = TotalWeight(V)
  OBVIOUS
<1>5. PICK share : share = SharesOf(V) /\ share = [r \in others |-> Share(r, V)]
  BY ZenonT(40), <1>3 DEF SharesOf
<1>6. PICK assigned : assigned = Assigned(V) /\ assigned = SumFunctionOnSet(share, others)
  BY <1>3, <1>5 DEF Assigned
<1>7. PICK rest : rest = GlobalLimit - assigned
  OBVIOUS
<1>8. /\ IsFiniteSet(V) /\ m \in V /\ IsFiniteSet(others)
      /\ \A r \in V : weight[r] \in Nat \ {0}
      /\ total \in Nat \ {0} /\ total = weight[m] + TotalWeight(others)
  BY ZenonT(40), <1>2, <1>3, <1>4, TotalFacts, CardSubset
<1>9. /\ \A r \in others : share[r] \in Nat /\ share[r] * total <= GlobalLimit * weight[r]
      /\ (\A r \in V : GlobalLimit * weight[r] <= MaxInt) =>
           \A r \in others : Nearly(share[r], total, GlobalLimit, weight[r])
  <2> SUFFICES ASSUME NEW r \in others
               PROVE  /\ share[r] \in Nat /\ share[r] * total <= GlobalLimit * weight[r]
                      /\ GlobalLimit * weight[r] <= MaxInt => Nearly(share[r], total, GlobalLimit, weight[r])
    BY <1>3
  <2>1. share[r] = Share(r, V) /\ weight[r] \in Nat /\ total = TotalWeight(V) /\ total \in Nat \ {0}
    BY <1>3, <1>4, <1>5, <1>8
  <2>2. /\ Share(r, V) \in Nat /\ Share(r, V) * TotalWeight(V) <= GlobalLimit * weight[r]
        /\ GlobalLimit * weight[r] <= MaxInt =>
              GlobalLimit * weight[r] < Share(r, V) * TotalWeight(V) + TotalWeight(V)
    BY <2>1, ShareFacts
  <2>3. GlobalLimit \in Nat
    BY AllocatorAssumption
  <2> QED
    BY <2>1, <2>2, <2>3 DEF Nearly
<1>10. assigned * total <= GlobalLimit * TotalWeight(others)
  <2>1. GlobalLimit \in Nat /\ \A r \in others : weight[r] \in Nat
    BY <1>3, <1>8, AllocatorAssumption
  <2> QED
    BY <1>6, <1>8, <1>9, <2>1, SumScaled DEF TotalWeight
<1>11. (\A r \in V : GlobalLimit * weight[r] <= MaxInt) =>
         GlobalLimit * TotalWeight(others) <= assigned * total + Cardinality(others) * total
  <2>1. GlobalLimit \in Nat /\ \A r \in others : weight[r] \in Nat
    BY <1>3, <1>8, AllocatorAssumption
  <2> QED
    BY ZenonT(40), <1>6, <1>8, <1>9, <2>1, SumScaledWithin DEF TotalWeight
<1>12. assigned \in Nat
  BY <1>6, <1>8, <1>9, SumNat
<1>13. assigned <= GlobalLimit
  <2>1. PICK w \in Nat \ {0}, t \in Nat, g \in Nat :
          w = weight[m] /\ t = TotalWeight(others) /\ g = GlobalLimit
    <3>1. TotalWeight(others) \in Nat
      BY <1>3, <1>8, SumNat DEF TotalWeight
    <3> QED
      BY <1>8, <3>1, AllocatorAssumption
  <2>2. total = w + t /\ assigned * total <= g * t
    BY <1>8, <1>10, <2>1
  <2>3. ASSUME assigned > g PROVE FALSE
    <3>1. PICK a \in Nat : assigned = g + 1 + a
      BY <1>12, <2>3
    <3>2. (g + 1 + a) * (w + t) = g * t + (g * w + (1 + a) * w + (1 + a) * t)
      OBVIOUS
    <3>3. g * w \in Nat /\ (1 + a) * w \in Nat /\ (1 + a) * t \in Nat /\ g * t \in Nat
      OBVIOUS
    <3>4. (1 + a) * w >= 1
      OBVIOUS
    <3> QED
      BY <2>2, <3>1, <3>2, <3>3, <3>4
  <2> QED
    BY <1>12, <2>1, <2>3
<1>14. allocations = [r \in V |-> IF r \in others THEN share[r] ELSE rest]
  <2>1. SumFunction(share) = assigned
    BY <1>5, <1>6 DEF SumFunction
  <2>2. allocations =
          [r \in V |-> IF r \in others THEN Share(r, V)
                       ELSE IF GlobalLimit - SumFunction(share) < 0 THEN 0
                            ELSE GlobalLimit - SumFunction(share)]
    BY ZenonT(40), <1>2, <1>3, <1>5 DEF AllocateGlobalLimit, Valid
  <2>3. ~(rest < 0)
    BY <1>7, <1>12, <1>13, AllocatorAssumption
  <2> QED
    BY <1>5, <1>7, <2>1, <2>2, <2>3
<1> QED
  BY <1>3, <1>4, <1>5, <1>6, <1>7, <1>9, <1>10, <1>11, <1>12, <1>13, <1>14

\* A split hands out the limit, in proportion to the weights.
LEMMA SplitAddsUp ==
  ASSUME weight \in [Region -> Weight], NEW S \in SUBSET Region,
         allocations = AllocateGlobalLimit(S)
  PROVE  LimitSplit
<1>1. PICK V : V = Valid(S)
  OBVIOUS
<1>2. DOMAIN allocations = V
  BY <1>1 DEF AllocateGlobalLimit, Valid
<1>3. CASE V = {}
  BY <1>2, <1>3 DEF LimitSplit
<1>4. CASE V # {}
  <2>1. PICK m : m = Max(V) /\ m \in V /\ Others(V) = V \ {m}
    BY <1>1, <1>4, TotalFacts DEF Others
  <2>2. PICK total \in Nat \ {0}, w \in Nat \ {0}, t \in Nat, g \in Nat :
          /\ total = TotalWeight(V) /\ w = weight[m] /\ t = TotalWeight(Others(V)) /\ g = GlobalLimit
          /\ total = w + t
    <3>1. TotalWeight(V) \in Nat \ {0} /\ weight[m] \in Nat \ {0}
          /\ TotalWeight(V) = weight[m] + TotalWeight(Others(V))
      BY ZenonT(40), <1>1, <1>4, <2>1, TotalFacts
    <3>2. TotalWeight(Others(V)) \in Nat
      <4>1. IsFiniteSet(Others(V)) /\ \A r \in Others(V) : weight[r] \in Nat
        BY <1>1, <1>4, <2>1, TotalFacts, CardSubset
      <4> QED
        BY ONLY <4>1, SumNat DEF TotalWeight
    <3> QED
      BY <3>1, <3>2, AllocatorAssumption
  <2>3. PICK a \in Nat, share \in {SharesOf(V)} : a = Assigned(V) /\ share = SharesOf(V) /\ a <= g
          /\ (\A r \in Others(V) : share[r] \in Nat)
          /\ allocations = [r \in V |-> IF r \in Others(V) THEN share[r] ELSE g - a]
          /\ a * total <= g * t
          /\ ((\A r \in V : GlobalLimit * weight[r] <= MaxInt) =>
                g * t <= a * total + Cardinality(Others(V)) * total)
    <3>1. /\ Assigned(V) \in Nat /\ Assigned(V) <= GlobalLimit
          /\ \A r \in Others(V) : SharesOf(V)[r] \in Nat
          /\ allocations = [r \in V |-> IF r \in Others(V) THEN SharesOf(V)[r]
                                        ELSE GlobalLimit - Assigned(V)]
      BY <1>1, <1>4, SplitFacts
    <3>2. Assigned(V) * TotalWeight(V) <= GlobalLimit * TotalWeight(Others(V))
      BY <1>1, <1>4, SplitFacts
    <3>3. (\A r \in V : GlobalLimit * weight[r] <= MaxInt) =>
            GlobalLimit * TotalWeight(Others(V))
              <= Assigned(V) * TotalWeight(V) + Cardinality(Others(V)) * TotalWeight(V)
      BY <1>1, <1>4, SplitFacts
    <3> QED
      BY ONLY <2>2, <3>1, <3>2, <3>3
  <2>4. IsFiniteSet(V) /\ IsFiniteSet(Others(V)) /\ Cardinality(Others(V)) \in Nat
        /\ Cardinality(V) = Cardinality(Others(V)) + 1
    <3>1. IsFiniteSet(V)
      BY ZenonT(40), <1>1, <1>4, TotalFacts
    <3>2. IsFiniteSet(V \ {m}) /\ Cardinality(V \ {m}) = Cardinality(V) - 1
      BY ONLY <2>1, <3>1, CardRemove
    <3>3. Cardinality(V) \in Nat /\ Cardinality(V \ {m}) \in Nat
      BY ONLY <3>1, <3>2, CardType
    <3> QED
      BY ONLY <2>1, <3>1, <3>2, <3>3
  <2>5. SumFunction(allocations) = GlobalLimit
    <3>1. \A r \in V : allocations[r] \in Int
      BY <2>2, <2>3
    <3>2. PICK al : al = allocations
      OBVIOUS
    <3>3. SumFunctionOnSet(al, V) = al[m] + SumFunctionOnSet(al, V \ {m})
      BY ONLY <2>1, <2>4, <3>1, <3>2, SumTake
    <3>4. \A r \in V \ {m} : al[r] \in Int /\ al[r] = share[r]
      BY <2>1, <2>3, <3>2
    <3>5. SumFunctionOnSet(al, V \ {m}) = SumFunctionOnSet(share, V \ {m})
      BY ONLY <2>1, <2>4, <3>4, SumSame
    <3>6. SumFunctionOnSet(share, V \ {m}) = a
      BY <2>1, <2>3 DEF Assigned
    <3>7. al[m] = g - a
      BY <2>1, <2>3, <3>2
    <3>8. SumFunction(al) = SumFunctionOnSet(al, V)
      BY <1>2, <3>2 DEF SumFunction
    <3> QED
      BY <2>2, <3>2, <3>3, <3>5, <3>6, <3>7, <3>8
  <2>6. ASSUME \A r \in V : GlobalLimit * weight[r] <= MaxInt, NEW r \in V
        PROVE  LET off == allocations[r] * total - GlobalLimit * weight[r]
               IN  IF r = m THEN off >= 0 /\ off < Cardinality(V) * total
                            ELSE off <= 0 /\ -off < total
    <3>1. CASE r = m
      <4>1. PICK n \in Nat : n = Cardinality(Others(V)) /\ Cardinality(V) = n + 1
        BY <2>4
      <4>2. a * total <= g * t /\ g * t <= a * total + n * total
        BY <2>3, <2>6, <4>1
      <4>3. allocations[r] = g - a /\ weight[r] = w
        BY <2>1, <2>2, <2>3, <3>1
      <4>4. /\ (g - a) * total - g * w = g * t - a * total
            /\ (n + 1) * total = n * total + total
        <5>1. total = w + t
          BY <2>2
        <5>2. (g - a) * (w + t) - g * w = g * t - a * (w + t)
          OBVIOUS
        <5>3. (n + 1) * total = n * total + total
          OBVIOUS
        <5> QED
          BY <5>1, <5>2, <5>3
      <4>5. g * t \in Nat /\ a * total \in Nat /\ n * total \in Nat
        OBVIOUS
      <4>6. (g - a) * total - g * w >= 0 /\ (g - a) * total - g * w < (n + 1) * total
        BY <4>2, <4>4, <4>5
      <4> QED
        BY <2>2, <3>1, <4>1, <4>3, <4>6
    <3>2. CASE r # m
      <4>1. PICK s \in Nat, v \in Nat : s = Share(r, V) /\ v = weight[r] /\ allocations[r] = s
        <5>1. r \in Others(V) /\ SharesOf(V)[r] = Share(r, V)
          BY <2>1, <3>2 DEF SharesOf
        <5>2. weight[r] \in Nat
          BY ZenonT(40), <1>1, <1>4, TotalFacts
        <5> QED
          BY <2>3, <5>1, <5>2
      <4>2. s * total <= g * v /\ g * v < s * total + total
        BY ZenonT(40), <2>2, <2>6, <4>1, ShareFacts
      <4>3. s * total \in Nat /\ g * v \in Nat
        OBVIOUS
      <4>4. s * total - g * v <= 0 /\ -(s * total - g * v) < total
        BY <4>2, <4>3
      <4> QED
        BY <2>2, <3>2, <4>1, <4>4
    <3> QED
      BY <3>1, <3>2
  <2> QED
    BY ZenonT(40), <1>2, <2>1, <2>2, <2>5, <2>6 DEF LimitSplit
<1> QED
  BY <1>3, <1>4

\* The allocations are always those of some split: the weights never change.
Splits == weight \in [Region -> Weight] /\ \E S \in SUBSET Region : allocations = AllocateGlobalLimit(S)

\* A rebalancing is a split.
LEMMA RebalancedSplits ==
  ASSUME weight \in [Region -> Weight], NEW T \in SUBSET Region, allocations' = Rebalanced(T),
         weight' = weight
  PROVE  Splits'
<1>1. PICK S \in SUBSET Region : allocations' = AllocateGlobalLimit(S)
  BY DEF Rebalanced
<1>2. AllocateGlobalLimit(S)' = AllocateGlobalLimit(S)
  BY DEF AllocateGlobalLimit, Share, TotalWeight
<1> QED
  BY <1>1, <1>2 DEF Splits

\* A step that changes neither shares nor limit keeps the split.
LEMMA SameSplits ==
  ASSUME Splits, UNCHANGED <<weight, allocations>>
  PROVE  Splits'
<1>1. PICK S \in SUBSET Region : allocations = AllocateGlobalLimit(S)
  BY DEF Splits
<1>2. AllocateGlobalLimit(S)' = AllocateGlobalLimit(S)
  BY DEF AllocateGlobalLimit, Share, TotalWeight
<1> QED
  BY <1>1, <1>2 DEF Splits

\* For any regions, weights, limit and largest integer: the shares add up to the
\* limit, also when a product wraps around, and are in proportion to the weights
\* when none does (allocator.go:21-56, 129-219).
THEOREM LimitHandedOut == RegionSpec => []LimitSplit
<1>1. RegionInit => Splits
  <2> SUFFICES ASSUME RegionInit PROVE Splits
    OBVIOUS
  <2>1. allocations = AllocateGlobalLimit(Region)
    BY AllocatorAssumption DEF RegionInit, Rebalanced
  <2> QED
    BY <2>1 DEF RegionInit, Splits
<1>2. Splits /\ [RegionNext]_regionVars => Splits'
  <2> SUFFICES ASSUME Splits, [RegionNext]_regionVars PROVE Splits'
    OBVIOUS
  <2>1. weight \in [Region -> Weight] /\ Healthy \in SUBSET Region
    BY DEF Splits, Healthy
  <2>2. CASE UNCHANGED regionVars
    BY <2>2, SameSplits DEF regionVars
  <2>3. CASE RegionTick
    BY <2>3, SameSplits DEF RegionTick
  <2>4. CASE CheckHealth
    <3> DEFINE missed == {r \in Healthy : age[r] > HeartbeatTTL}
    <3>1. weight' = weight /\ allocations' = IF missed # {} THEN Rebalanced(Healthy \ missed) ELSE allocations
      BY <2>4 DEF CheckHealth
    <3>2. Healthy \ missed \in SUBSET Region
      BY <2>1
    <3> HIDE DEF missed
    <3> QED
      BY <2>1, <3>1, <3>2, SameSplits, RebalancedSplits
  <2>5. ASSUME NEW r \in Region, Heartbeat(r) PROVE Splits'
    BY <2>1, <2>5, SameSplits, RebalancedSplits DEF Heartbeat
  <2>6. ASSUME NEW r \in Region, DrainRegion(r) PROVE Splits'
    BY <2>1, <2>6, RebalancedSplits DEF DrainRegion
  <2>7. ASSUME NEW r \in Region, RestoreRegion(r) PROVE Splits'
    BY <2>1, <2>7, RebalancedSplits DEF RestoreRegion
  <2> QED
    BY <2>2, <2>3, <2>4, <2>5, <2>6, <2>7 DEF RegionNext
<1>3. Splits => LimitSplit
  BY SplitAddsUp DEF Splits
<1> QED
  BY <1>1, <1>2, <1>3, PTL DEF RegionSpec
=============================================================================
