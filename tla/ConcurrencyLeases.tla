-------------------------- MODULE ConcurrencyLeases --------------------------
(***************************************************************************)
(* Concurrency leases of one policy key, from the acquire request to the   *)
(* release: the engine's StartConcurrencyLease, the lease registry of the  *)
(* HTTP and gRPC adapters, and the store's count of slots.  Lease is the   *)
(* set of acquire requests; each is granted at most once, with a fresh id. *)
(*                                                                         *)
(* A granted lease runs through                                            *)
(*    granted     StartConcurrencyLease returned, put has not run          *)
(*    registered  in the registry; the client works                        *)
(*    popped      a release call took it out of the registry               *)
(*    robbed      likewise, but the call came from another client with the *)
(*                same id, and this one still works                        *)
(*    orphan      the client works, but its lease is not in the registry:  *)
(*                the server restarted, or another lease got its id        *)
(*    ended       released, denied by an error, or never to be released    *)
(* Its release function gives a slot back, or does nothing: shadow mode    *)
(* and fail_open allow requests that hold no slot.                         *)
(*                                                                         *)
(* The store is a remote one: a call may fail before or after its effect.  *)
(* It has one expiry for the whole key, moved by every acquisition.        *)
(***************************************************************************)
EXTENDS CounterItems, FiniteSets

CONSTANTS Lease, NoLease, Caller, Limit, LeaseTTL,
          MaxTime,           \* bound of the clock
          Shadow, FailOpen,  \* the policy's enforcement and failure mode
          GRPC               \* the gRPC adapter, whose lease ids are timestamps

ASSUME LeaseAssumption ==
  /\ IsFiniteSet(Lease) /\ NoLease \notin Lease
  /\ Limit \in Nat \ {0} /\ LeaseTTL \in Nat \ {0}   \* the engine's defaults
  /\ MaxTime \in Nat
  /\ {Shadow, FailOpen, GRPC} \subseteq BOOLEAN

VARIABLES now, late, item, phase, holds, acquiredAt, id, collided, releasing, taken

\* item is the store's lease entry, holds the leases whose release function is
\* ReleaseLease, and id names a lease id by the first lease that got it.
\* History variables: taken is the leases that took a slot in the store and have
\* not given it back; late says that some lease was still busy when it had run
\* out, collided that two registered leases got the same id.
clock == <<now, late>>
ids == <<id, collided>>
registry == <<phase, holds, acquiredAt, ids>>
vars == <<clock, item, registry, releasing, taken>>

Phase == {"unused", "granted", "registered", "popped", "robbed", "orphan", "ended"}

Slots == Live(item, now).value

Init ==
  /\ now = 1 /\ late = FALSE
  /\ item = ZeroItem
  /\ phase = [l \in Lease |-> "unused"]
  /\ holds = {}
  /\ acquiredAt = [l \in Lease |-> 0]
  /\ id = [l \in Lease |-> l] /\ collided = FALSE
  /\ releasing = [c \in Caller |-> NoLease]
  /\ taken = {}

\* The leases that hold a slot and whose release is still to come.
Busy == {l \in holds : phase[l] \in {"granted", "registered", "popped", "robbed", "orphan"}}

Tick ==
  /\ now < MaxTime
  /\ now' = now + 1
  /\ late' = (late \/ \E l \in Busy : now >= acquiredAt[l] + LeaseTTL)
  /\ UNCHANGED <<item, registry, releasing, taken>>

-----------------------------------------------------------------------------
(* The store *)

\* Variant: lets one request more through.
TakeSlot_off_by_one(l) ==
  LET it == Live(item, now)
  IN  /\ it.value <= Limit
      /\ now + LeaseTTL < MaxTime
      /\ item' = Written(it, it.value + 1, LeaseTTL, now)
      /\ taken' = taken \union {l}
      /\ acquiredAt' = [acquiredAt EXCEPT ![l] = now]

\* AcquireLease takes a slot for l.  The bound of the clock leaves room for
\* the slot to expire.
TakeSlot(l) ==
  LET it == Live(item, now)
  IN  /\ it.value < Limit
      /\ now + LeaseTTL < MaxTime
      /\ item' = Written(it, it.value + 1, LeaseTTL, now)
      /\ taken' = taken \union {l}
      /\ acquiredAt' = [acquiredAt EXCEPT ![l] = now]

\* ReleaseLease gives one slot back, whoever's it is.
GiveBack(l) ==
  LET it == Live(item, now)
  IN  /\ item' = IF it.value > 0 THEN [it EXCEPT !.value = @ - 1] ELSE it
      /\ taken' = taken \ {l}

-----------------------------------------------------------------------------
(* StartConcurrencyLease *)

Grant(l, p) == phase[l] = "unused" /\ phase' = [phase EXCEPT ![l] = p]

Acquire(l) ==
  /\ Grant(l, "granted")
  /\ TakeSlot(l)
  /\ holds' = holds \union {l}
  /\ UNCHANGED <<clock, ids, releasing>>

\* Variant: the refused request stays counted.
AcquireDenied_counts ==
  /\ Slots = Limit
  /\ item' = [Live(item, now) EXCEPT !.value = @ + 1]
  /\ UNCHANGED <<clock, registry, releasing, taken>>

\* Variant: a refused request moves the expiry too.
AcquireDenied_refreshes ==
  /\ Slots >= Limit
  /\ item' = Written(Live(item, now), Slots, LeaseTTL, now)
  /\ UNCHANGED <<clock, registry, releasing, taken>>

\* All slots are taken: the request is denied, or let through in shadow mode.
AcquireDenied ==
  /\ Slots >= Limit
  /\ item' = Live(item, now)
  /\ UNCHANGED <<clock, registry, releasing, taken>>

AcquireShadow(l) ==
  /\ Shadow /\ Slots >= Limit
  /\ Grant(l, "granted")
  /\ item' = Live(item, now)
  /\ UNCHANGED <<clock, holds, acquiredAt, ids, releasing, taken>>

\* The store call fails, with or without effect; handleFailure decides.
AcquireFails(l) ==
  /\ Grant(l, IF FailOpen THEN "granted" ELSE "ended")
  /\ \/ TakeSlot(l)
     \/ UNCHANGED <<item, taken, acquiredAt>>
  /\ UNCHANGED <<clock, holds, ids, releasing>>

\* A check (Evaluator.Evaluate) of a concurrency policy takes a slot too, and
\* nobody keeps a way to release it.
Check(l) ==
  /\ Grant(l, "ended")
  /\ TakeSlot(l)
  /\ UNCHANGED <<clock, holds, ids, releasing>>

-----------------------------------------------------------------------------
(* The registry and the release handler *)

Put(l) ==
  /\ phase[l] = "granted"
  /\ phase' = [phase EXCEPT ![l] = "registered"]
  /\ UNCHANGED <<clock, item, holds, acquiredAt, ids, releasing, taken>>

\* The clock reads what it read for k (it is coarse, or was set back): l is put
\* under k's id, and k's release function is gone.
PutCollides(l, k) ==
  /\ GRPC
  /\ phase[l] = "granted" /\ phase[k] = "registered"
  /\ phase' = [phase EXCEPT ![l] = "registered", ![k] = "orphan"]
  /\ id' = [id EXCEPT ![l] = id[k]]
  /\ collided' = TRUE
  /\ UNCHANGED <<clock, item, holds, acquiredAt, releasing, taken>>

\* A release call finds the id and takes it out.  (A call that does not find
\* it answers "lease not found" and changes nothing.)
Pop(c, l) ==
  /\ releasing[c] = NoLease
  /\ phase[l] = "registered"
  /\ phase' = [phase EXCEPT ![l] = "popped"]
  /\ releasing' = [releasing EXCEPT ![c] = l]
  /\ UNCHANGED <<clock, item, holds, acquiredAt, ids, taken>>

\* The release call of the client of k finds the lease of l.
PopOther(c, l, k) ==
  /\ releasing[c] = NoLease
  /\ phase[l] = "registered" /\ phase[k] = "orphan" /\ id[k] = id[l]
  /\ phase' = [phase EXCEPT ![l] = "robbed", ![k] = "ended"]
  /\ releasing' = [releasing EXCEPT ![c] = l]
  /\ UNCHANGED <<clock, item, holds, acquiredAt, ids, taken>>

Released(l) == phase' = [phase EXCEPT ![l] = IF @ = "robbed" THEN "orphan" ELSE "ended"]

\* The release function of the popped lease runs, and may fail.
Release(c) ==
  LET l == releasing[c]
  IN  /\ l # NoLease
      /\ Released(l)
      /\ releasing' = [releasing EXCEPT ![c] = NoLease]
      /\ IF l \in holds THEN GiveBack(l) ELSE UNCHANGED <<item, taken>>
      /\ UNCHANGED <<clock, holds, acquiredAt, ids>>

\* The failed release is not retried: the id is gone from the registry.  (If
\* the call fails after its effect the outcome is that of Release.)
ReleaseFails(c) ==
  LET l == releasing[c]
  IN  /\ l \in holds
      /\ Released(l)
      /\ releasing' = [releasing EXCEPT ![c] = NoLease]
      /\ UNCHANGED <<clock, item, holds, acquiredAt, ids, taken>>

\* A client dies, or ends its work after the server forgot its lease.
Abandon(l) ==
  /\ phase[l] \in {"registered", "orphan"}
  /\ phase' = [phase EXCEPT ![l] = "ended"]
  /\ UNCHANGED <<clock, item, holds, acquiredAt, ids, releasing, taken>>

\* The server restarts: registry and handlers are gone, the store is not.
Restart ==
  /\ phase' = [l \in Lease |->
                 CASE phase[l] \in {"granted", "registered", "robbed"} -> "orphan"
                   [] phase[l] = "popped" -> "ended"
                   [] OTHER -> phase[l]]
  /\ releasing' = [c \in Caller |-> NoLease]
  /\ UNCHANGED <<clock, item, holds, acquiredAt, ids, taken>>

Next ==
  \/ Tick \/ AcquireDenied \/ Restart
  \/ \E l \in Lease : \/ Acquire(l) \/ AcquireShadow(l) \/ AcquireFails(l) \/ Check(l)
                      \/ Put(l) \/ Abandon(l)
  \/ \E l, k \in Lease : PutCollides(l, k)
  \/ \E c \in Caller : \/ \E l \in Lease : Pop(c, l)
                       \/ \E l, k \in Lease : PopOther(c, l, k)
                       \/ Release(c) \/ ReleaseFails(c)

Spec == Init /\ [][Next]_vars

\* Only that time passes.
FairSpec == Spec /\ WF_vars(Tick)

-----------------------------------------------------------------------------
(* Properties *)

\* The count of slots is never negative, and every release call in progress
\* works on a popped lease of its own.
TypeOK ==
  /\ now \in Nat /\ late \in BOOLEAN
  /\ item \in [value : Nat, expiry : Nat]
  /\ phase \in [Lease -> Phase]
  /\ holds \subseteq Lease
  /\ acquiredAt \in [Lease -> Nat]
  /\ id \in [Lease -> Lease] /\ collided \in BOOLEAN
  /\ releasing \in [Caller -> Lease \union {NoLease}]
  /\ taken \subseteq Lease
  /\ \A c \in Caller : releasing[c] # NoLease =>
       /\ phase[releasing[c]] \in {"popped", "robbed"}
       /\ \A d \in Caller : releasing[d] = releasing[c] => d = c

InFlight(l) == l \in holds /\ phase[l] \in {"granted", "registered", "robbed", "orphan"}

\* As long as clients end their work, and releases, before the lease runs out,
\* and no two leases get the same id, at most Limit operations that hold a slot
\* are in flight, through failed calls, restarts, abandoned leases and releases
\* sent twice (concurrency.go:42, engine.go:92-110, controlplane.go:91-99).
SlotsRespected == ~late /\ ~collided => Cardinality({l \in Lease : InFlight(l)}) <= Limit

\* A slot counts as taken only if some lease took it and has not given it
\* back: no release is lost to the count, so a request is denied only when
\* Limit slots were never released, even if two gRPC leases share a timestamp as
\* their id (store.go:165-195, service.go:35-51).
SlotsAccounted == Slots <= Cardinality(taken)

\* Whatever crashed or failed, all slots are free again when nothing has been
\* acquired for LeaseTTL; refused retries do not keep them taken, and neither
\* do leases whose id another one got (engine.go:92-110, service.go:35-41).
SlotsComeBack == <>[](Slots = 0)
=============================================================================
