------------------------------ MODULE TTLStore ------------------------------
(***************************************************************************)
(* What the counter store promises its clients (internal/store/interfaces  *)
(* .go): counters and leases that are zero again from the first instant    *)
(* after their expiry, and timestamp logs that may be forgotten from their *)
(* expiry on and never before.  There is no cleanup: items vanish with the *)
(* clock.                                                                  *)
(*                                                                         *)
(* A store behind a network promises less (Lax): an answer may be lost     *)
(* after the operation took effect, entries of a log at one instant may    *)
(* count as one, and a swap or release without a ttl may drop an expiry.   *)
(***************************************************************************)
EXTENDS CounterItems

CONSTANTS Key, Amount, TTL, Limit, Cost, Instant,
          Cutoff,   \* log entries before one of these instants are trimmed
          Lax

VARIABLES now, values, leases, timestamps, tsExpiry, reply

vars == <<now, values, leases, timestamps, tsExpiry, reply>>

NoReply == -1

Init ==
  /\ now = 1
  /\ values = [k \in Key |-> ZeroItem]
  /\ leases = [k \in Key |-> ZeroItem]
  /\ timestamps = [k \in Key |-> EmptyLog(Instant)]
  /\ tsExpiry = [k \in Key |-> NoExpiry]
  /\ reply = NoReply

\* The answer an operation gives, if it arrives.
Answer(a) == reply' = a \/ (Lax /\ reply' = NoReply)

\* The clock advances, and the logs of the keys in S may be forgotten by then.
Tick(S) ==
  /\ \A k \in S : tsExpiry[k] # NoExpiry /\ now + 1 >= tsExpiry[k]
  /\ now' = now + 1
  /\ values' = [k \in Key |-> Live(values[k], now + 1)]
  /\ leases' = [k \in Key |-> Live(leases[k], now + 1)]
  /\ timestamps' = [k \in Key |-> IF k \in S THEN EmptyLog(Instant) ELSE timestamps[k]]
  /\ tsExpiry' = [k \in Key |-> IF k \in S THEN NoExpiry ELSE tsExpiry[k]]
  /\ UNCHANGED reply

\* A counter operation: reply answers a read of the live value, new replaces it.
CounterOp(k, new, answer) ==
  /\ UNCHANGED <<now, leases, timestamps, tsExpiry>>
  /\ values' = [values EXCEPT ![k] = new]
  /\ Answer(answer)

Counter(k) ==
  LET it == values[k]
  IN  \/ CounterOp(k, it, it.value)
      \/ \E ttl \in TTL, v \in Amount :
           \/ CounterOp(k, Written(it, it.value + v, ttl, now), it.value + v)
           \/ CounterOp(k, Written(ZeroItem, v, ttl, now), NoReply)
      \/ \E old, new \in Amount, ttl \in TTL :
           IF it.value = old
           THEN \/ CounterOp(k, Written(it, new, ttl, now), 1)
                \/ Lax /\ CounterOp(k, Written(ZeroItem, new, ttl, now), 1)
           ELSE CounterOp(k, it, 0)

LeaseOp(k, new, answer) ==
  /\ UNCHANGED <<now, values, timestamps, tsExpiry>>
  /\ leases' = [leases EXCEPT ![k] = new]
  /\ Answer(answer)

Lease(k) ==
  LET it == leases[k]
  IN  \/ \E limit \in Limit, ttl \in TTL :
           IF it.value < limit
           THEN LeaseOp(k, Written(it, it.value + 1, ttl, now), 1)
           ELSE LeaseOp(k, it, 0)
      \/ it.value = 0 /\ LeaseOp(k, it, NoReply)
      \/ it.value = 0 /\ Lax /\ LeaseOp(k, ZeroItem, NoReply)
      \/ it.value > 0 /\ LeaseOp(k, [it EXCEPT !.value = @ - 1], NoReply)

LogOp(k, log, expiry, answer) ==
  /\ UNCHANGED <<now, values, leases>>
  /\ timestamps' = [timestamps EXCEPT ![k] = log]
  /\ tsExpiry' = [tsExpiry EXCEPT ![k] = expiry]
  /\ Answer(answer)

\* The expiries a log may have after a call that left rest of its entries.
NewExpiry(k, rest, ttl) ==
  IF ttl > 0 THEN {now + ttl}
  ELSE {e \in {tsExpiry[k], NoExpiry} : e = tsExpiry[k] \/ (Lax /\ rest = EmptyLog(Instant))}

LogDead(k) == tsExpiry[k] # NoExpiry /\ now >= tsExpiry[k]

\* What adding n entries at instant ts may make of a log.
Grown(log, ts, n) == IF Lax THEN Merged(log, ts, n) ELSE {Added(log, ts, n)}

Log(k) ==
  LET log == timestamps[k]
  IN  \/ \E ts \in Instant, ttl \in TTL : \E new \in Grown(log, ts, 1), e \in NewExpiry(k, log, ttl) :
           LogOp(k, new, e, NoReply)
      \/ \E cutoff \in Cutoff : \E e \in NewExpiry(k, Trimmed(log, cutoff), 0) :
           LogOp(k, Trimmed(log, cutoff), e, NoReply)
      \/ \E after \in Instant :
           \/ LogDead(k) /\ LogOp(k, EmptyLog(Instant), NoExpiry, CountFrom(EmptyLog(Instant), after))
           \/ (Lax \/ ~LogDead(k)) /\ LogOp(k, log, tsExpiry[k], CountFrom(log, after))
      \/ \E cutoff \in Cutoff, limit \in Limit, cost \in Cost :
           LET rest == Trimmed(log, cutoff)
           IN  IF CountFrom(rest, cutoff) + cost <= limit
               THEN \E ts \in Instant, ttl \in TTL :
                      \E new \in Grown(rest, ts, cost), e \in NewExpiry(k, rest, ttl) :
                        LogOp(k, new, e, 1)
               ELSE \E e \in NewExpiry(k, rest, 0) : LogOp(k, rest, e, 0)

\* The logs of the keys in S, all past their expiry, are forgotten.
Forget(S) ==
  /\ \A k \in S : LogDead(k)
  /\ timestamps' = [k \in Key |-> IF k \in S THEN EmptyLog(Instant) ELSE timestamps[k]]
  /\ tsExpiry' = [k \in Key |-> IF k \in S THEN NoExpiry ELSE tsExpiry[k]]
  /\ UNCHANGED <<now, values, leases, reply>>

Delete(k) ==
  /\ UNCHANGED now
  /\ values' = [values EXCEPT ![k] = ZeroItem]
  /\ leases' = [leases EXCEPT ![k] = ZeroItem]
  /\ timestamps' = [timestamps EXCEPT ![k] = EmptyLog(Instant)]
  /\ tsExpiry' = [tsExpiry EXCEPT ![k] = NoExpiry]
  /\ reply' = NoReply

Refuse ==
  /\ UNCHANGED <<now, values, leases, timestamps, tsExpiry>>
  /\ reply' = NoReply

Next ==
  \/ Refuse
  \/ \E k \in Key : Counter(k) \/ Lease(k) \/ Log(k) \/ Delete(k)
  \/ \E S \in SUBSET Key : Tick(S) \/ Forget(S)

Spec == Init /\ [][Next]_vars
=============================================================================
