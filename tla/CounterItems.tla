---------------------------- MODULE CounterItems ----------------------------
(***************************************************************************)
(* The data of the counter store (internal/store/counter/memory): counter  *)
(* and lease items with an expiry, and logs of timestamps.  The operators  *)
(* say what one locked operation reads and writes; the state machines that *)
(* use them (MemoryStore, WindowLimiter, BucketLimiter, ...) say when.     *)
(*                                                                         *)
(* Time is a natural number.  0 is Go's zero time.Time, which means "no    *)
(* expiry", so every clock starts at 1.  An absent map entry reads as the  *)
(* zero item, so a store is a total function of the keys.                  *)
(***************************************************************************)
EXTENDS Integers, Functions

NoExpiry == 0

Item == [value : Int, expiry : Nat]

ZeroItem == [value |-> 0, expiry |-> NoExpiry]

\* An item dies strictly after its expiry: time.Now().After(it.expiry).
Expired(it, t) == it.expiry # NoExpiry /\ t > it.expiry

\* What getValueLocked and getLeaseLocked return, and leave in the map.
Live(it, t) == IF Expired(it, t) THEN ZeroItem ELSE it

\* The item after a write of v: a positive ttl moves the expiry, any other
\* ttl keeps the one the item has.
Written(it, v, ttl, t) ==
  [value |-> v, expiry |-> IF ttl > 0 THEN t + ttl ELSE it.expiry]

\* A log is a sorted array of timestamps.  Only how often each timestamp
\* occurs can be observed, so it is a function from instants to counts.
EmptyLog(Instant) == [t \in Instant |-> 0]

\* The entries that are not before the cutoff.
Trimmed(log, cutoff) == [t \in DOMAIN log |-> IF t < cutoff THEN 0 ELSE log[t]]

CountFrom(log, cutoff) == SumFunctionOnSet(log, {t \in DOMAIN log : t >= cutoff})

\* The log with n more entries at instant t (append and sort).
Added(log, t, n) == [log EXCEPT ![t] = @ + n]

\* The same where the log is a set: n entries of which some may be there already.
Merged(log, t, n) ==
  {[log EXCEPT ![t] = m] : m \in (IF log[t] > n THEN log[t] ELSE n)..(log[t] + n)}
=============================================================================
