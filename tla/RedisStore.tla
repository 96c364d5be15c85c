----------------------------- MODULE RedisStore -----------------------------
(***************************************************************************)
(* The counter store on Redis, internal/store/counter/redis/store.go: each *)
(* operation asks the circuit breaker (CircuitBreaker), runs one command   *)
(* or Lua script, and records the outcome.  Redis runs a script as one     *)
(* step and drops a key at its expiry.  While the backend is not healthy a *)
(* call fails, before or after Redis has run it.                           *)
(*                                                                         *)
(* The keys of counters, leases and logs differ (the algorithms append a   *)
(* suffix), so each kind has its map: counters, slots, and zsets with      *)
(* zexpiry.  answer is what the last call returned.  One millisecond of    *)
(* Redis is Milli units of the clock.                                      *)
(***************************************************************************)
EXTENDS CounterItems

CONSTANTS Key, Amount, TTL, Limit, Cost, Instant, Milli, MaxTime, MaxValue,
          Proc, NoProc, Threshold, MaxProbe

VARIABLES now, counters, slots, zsets, zexpiry, answer,
          state, failures, probeCount, waited, mu, pc, healthy

CB == INSTANCE CircuitBreaker

db == <<counters, slots, zsets, zexpiry>>
breaker == <<state, failures, probeCount, waited, mu, pc, healthy>>
vars == <<now, db, answer, breaker>>

NoAnswer == -1

Init ==
  /\ now = 1
  /\ counters = [k \in Key |-> ZeroItem]
  /\ slots = [k \in Key |-> ZeroItem]
  /\ zsets = [k \in Key |-> EmptyLog(Instant)]
  /\ zexpiry = [k \in Key |-> NoExpiry]
  /\ answer = NoAnswer
  /\ CB!Init

\* Duration.Milliseconds truncates, so a ttl below one millisecond is none.
Milliseconds(ttl) == (ttl \div Milli) * Milli

\* The client's SET rounds such a ttl up to one millisecond instead.
SetTTL(ttl) == IF ttl \in 1..Milli THEN Milli ELSE Milliseconds(ttl)

Tick ==
  /\ now < MaxTime
  /\ now' = now + 1
  /\ LET gone(k) == zexpiry[k] # NoExpiry /\ now + 1 > zexpiry[k]
     IN  /\ counters' = [k \in Key |-> Live(counters[k], now + 1)]
         /\ slots' = [k \in Key |-> Live(slots[k], now + 1)]
         /\ zsets' = [k \in Key |-> IF gone(k) THEN EmptyLog(Instant) ELSE zsets[k]]
         /\ zexpiry' = [k \in Key |-> IF gone(k) THEN NoExpiry ELSE zexpiry[k]]
  /\ UNCHANGED <<answer, breaker>>

-----------------------------------------------------------------------------
(* The commands and scripts *)

\* What the caller gets: the result a, or the error of a call that failed.
Result(a) == answer' = IF healthy THEN a ELSE NoAnswer

OnCounter(k, new, a) ==
  /\ counters' = [counters EXCEPT ![k] = new]
  /\ Result(a)
  /\ UNCHANGED <<slots, zsets, zexpiry>>

\* Only the increment that starts a counter sets its expiry.
Increment(k, v, ttl) ==
  LET sum == counters[k].value + v
  IN  /\ sum <= MaxValue
      /\ OnCounter(k, Written(counters[k], sum, IF sum = v THEN Milliseconds(ttl) ELSE 0, now), sum)

Get(k) == OnCounter(k, counters[k], counters[k].value)

Set(k, v, ttl) == OnCounter(k, Written(ZeroItem, v, SetTTL(ttl), now), NoAnswer)

\* SET without PX drops the expiry the key had.
CompareAndSwap(k, old, new, ttl) ==
  IF counters[k].value = old
  THEN OnCounter(k, Written(ZeroItem, new, Milliseconds(ttl), now), 1)
  ELSE OnCounter(k, counters[k], 0)

Delete(k) ==
  /\ counters' = [counters EXCEPT ![k] = ZeroItem]
  /\ slots' = [slots EXCEPT ![k] = ZeroItem]
  /\ zsets' = [zsets EXCEPT ![k] = EmptyLog(Instant)]
  /\ zexpiry' = [zexpiry EXCEPT ![k] = NoExpiry]
  /\ Result(NoAnswer)

\* A sorted set without members does not exist, and has no expiry: rest is
\* what was left of it before entries were added.
OnLog(k, rest, log, ttl, a) ==
  /\ zsets' = [zsets EXCEPT ![k] = log]
  /\ zexpiry' = [zexpiry EXCEPT ![k] = IF ttl > 0 THEN now + ttl
                                       ELSE IF rest = EmptyLog(Instant) THEN NoExpiry ELSE @]
  /\ Result(a)
  /\ UNCHANGED <<counters, slots>>

\* The timestamp is the member: a second entry at the same instant is no entry.
AddTimestamp(k, ts, ttl) ==
  \E log \in Merged(zsets[k], ts, 1) :
    /\ CountFrom(log, 0) <= MaxValue
    /\ OnLog(k, zsets[k], log, Milliseconds(ttl), NoAnswer)

CountAfter(k, after) == OnLog(k, zsets[k], zsets[k], 0, CountFrom(zsets[k], after))

\* ZREMRANGEBYSCORE removes the entries at the bound as well.
TrimBefore(k, before) ==
  LET rest == Trimmed(zsets[k], before + 1)
  IN  OnLog(k, rest, rest, 0, NoAnswer)

\* The members are the timestamp, a number and a random number, and may
\* coincide with those of an earlier call at the same instant.
CheckAndAddTimestamps(k, cutoff, limit, cost, ts, ttl) ==
  LET rest == Trimmed(zsets[k], cutoff + 1)
  IN  IF CountFrom(rest, cutoff) + cost <= limit
      THEN \E log \in Merged(rest, ts, cost) : OnLog(k, rest, log, Milliseconds(ttl), 1)
      ELSE OnLog(k, rest, rest, 0, 0)

OnSlots(k, new, a) ==
  /\ slots' = [slots EXCEPT ![k] = new]
  /\ Result(a)
  /\ UNCHANGED <<counters, zsets, zexpiry>>

\* Variant: the script does not take the increment above the limit back.
AcquireLease_without_decrement(k, limit, ttl) ==
  IF slots[k].value + 1 > limit
  THEN OnSlots(k, [slots[k] EXCEPT !.value = @ + 1], 0)
  ELSE OnSlots(k, Written(slots[k], slots[k].value + 1, Milliseconds(ttl), now), 1)

\* INCR and, above the limit, DECR again.
AcquireLease(k, limit, ttl) ==
  IF slots[k].value + 1 > limit
  THEN OnSlots(k, slots[k], 0)
  ELSE OnSlots(k, Written(slots[k], slots[k].value + 1, Milliseconds(ttl), now), 1)

ReleaseLease(k) ==
  IF slots[k].value <= 0
  THEN OnSlots(k, ZeroItem, NoAnswer)
  ELSE OnSlots(k, [slots[k] EXCEPT !.value = @ - 1], NoAnswer)

-----------------------------------------------------------------------------
CounterCall(k) ==
  \/ Get(k) \/ Delete(k)
  \/ \E ttl \in TTL :
       \/ \E v \in Amount : Increment(k, v, ttl) \/ Set(k, v, ttl)
       \/ \E old, new \in Amount : CompareAndSwap(k, old, new, ttl)

LogCall(k) ==
  \/ Delete(k)
  \/ \E t \in Instant : CountAfter(k, t) \/ TrimBefore(k, t)
  \/ \E ttl \in TTL :
       \/ \E ts \in Instant : AddTimestamp(k, ts, ttl)
       \/ \E cutoff, ts \in Instant, limit \in Limit, cost \in Cost :
            CheckAndAddTimestamps(k, cutoff, limit, cost, ts, ttl)

LeaseCall(k) ==
  \/ ReleaseLease(k) \/ Delete(k)
  \/ \E ttl \in TTL, limit \in Limit : AcquireLease(k, limit, ttl)

\* fn of do: the breaker has let the call of p through, and Redis runs it.
Run(p, Command) == CB!Call(p) /\ Command /\ UNCHANGED now

\* The call fails before Redis has run anything.
Unreached(p) ==
  /\ ~healthy
  /\ CB!Call(p)
  /\ answer' = NoAnswer
  /\ UNCHANGED <<now, db>>

\* What do does before and after the call; a call that the breaker does not
\* let through ends with ErrCircuitOpen.
Guard(p) ==
  /\ CB!Guard(p)
  /\ answer' = IF pc[p] \in {"checkTime", "checkProbe", "recheck"} /\ pc'[p] = "idle"
               THEN NoAnswer ELSE answer
  /\ UNCHANGED <<now, db>>

Environment == (CB!Wait \/ CB!Backend) /\ UNCHANGED <<now, db, answer>>

-----------------------------------------------------------------------------
(* Properties *)

\* The Redis store keeps the promises of a networked TTLStore, the breaker,
\* lost answers and the expiry of keys included: scripts that trim up to and
\* including the cutoff, and ttls in whole milliseconds (store.go:303-534).
Promised == INSTANCE TTLStore WITH
  values <- counters, leases <- slots, timestamps <- zsets, tsExpiry <- zexpiry,
  reply <- answer, Lax <- TRUE,
  Cutoff <- {t + 1 : t \in Instant},
  TTL <- {Milliseconds(ttl) : ttl \in TTL} \cup {SetTTL(ttl) : ttl \in TTL}

RedisImplementsTTLStore == Promised!Spec
=============================================================================
