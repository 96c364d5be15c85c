------------------------------ MODULE SlidingLog ------------------------------
(***************************************************************************)
(* The sliding window log limiter, internal/algorithm/slidinglog.  An      *)
(* evaluation reads the clock, then asks the store to trim the log, count  *)
(* it, and add the request if it fits: in one atomic call if the store has *)
(* it (atomic), in one call each otherwise.  The store may forget the log  *)
(* from its expiry on (module TTLStore).                                   *)
(*                                                                         *)
(* admitted is a history variable: the cost let through at each instant of *)
(* the clock, which is not the instant the evaluation has read if it was   *)
(* held up in between.                                                     *)
(***************************************************************************)
EXTENDS CounterItems

CONSTANTS Proc, Limit, Cost, Instant,
          Duration,  \* the length of the rolling window
          Prompt     \* the clock does not move during an evaluation

VARIABLES now, log, expiry, pc, at, left, admitted

\* left[p] is the cost of p's request, or what is left of it to add.
store == <<log, expiry>>
local == <<pc, at, left>>
vars == <<now, store, local, admitted>>

Running == {"check", "trim", "count", "add"}
Ended == {"none", "allowed", "limit_exceeded", "error"}

Init ==
  /\ now \in Instant
  /\ log = EmptyLog(Instant) /\ expiry = NoExpiry
  /\ pc = [p \in Proc |-> "none"]
  /\ at = [p \in Proc |-> 0]
  /\ left = [p \in Proc |-> 0]
  /\ admitted = [t \in Instant |-> 0]

Tick ==
  /\ now' \in {t \in Instant : t > now}
  /\ Prompt => \A p \in Proc : pc[p] \in Ended
  /\ UNCHANGED <<store, local, admitted>>

cutoff(p) == at[p] - Duration

Start(p, c, atomic) ==
  /\ pc[p] \in Ended
  /\ pc' = [pc EXCEPT ![p] = IF atomic THEN "check" ELSE "trim"]
  /\ at' = [at EXCEPT ![p] = now]
  /\ left' = [left EXCEPT ![p] = c]
  /\ UNCHANGED <<now, store, admitted>>

Return(p, d) ==
  /\ pc' = [pc EXCEPT ![p] = d]
  /\ at' = [at EXCEPT ![p] = 0]
  /\ left' = [left EXCEPT ![p] = 0]

\* Variant: the check leaves out the request itself.
CheckAndAdd_off_by_cost(p, answer) ==
  LET rest == Trimmed(log, cutoff(p))
  IN  /\ pc[p] = "check"
      /\ CountFrom(rest, cutoff(p)) < Limit
      /\ log' = Added(rest, at[p], left[p])
      /\ expiry' = now + Duration
      /\ admitted' = [admitted EXCEPT ![now] = @ + left[p]]
      /\ Return(p, answer)
      /\ UNCHANGED now

\* CheckAndAddTimestamps: one locked call does it all.  The answer to a call
\* that adds the request may be lost on its way back.
CheckAndAdd(p, answer) ==
  LET rest == Trimmed(log, cutoff(p))
      fits == CountFrom(rest, cutoff(p)) + left[p] <= Limit
  IN  /\ pc[p] = "check"
      /\ \/ /\ fits
            /\ log' = Added(rest, at[p], left[p])
            /\ expiry' = now + Duration
            /\ admitted' = [admitted EXCEPT ![now] = @ + left[p]]
            /\ Return(p, answer)
         \/ /\ ~fits
            /\ log' = rest
            /\ Return(p, "limit_exceeded")
            /\ UNCHANGED <<expiry, admitted>>
      /\ UNCHANGED now

\* The fallback, in calls of its own: TrimBefore, CountAfter, AddTimestamp.
Trim(p) ==
  /\ pc[p] = "trim"
  /\ log' = Trimmed(log, cutoff(p))
  /\ pc' = [pc EXCEPT ![p] = "count"]
  /\ UNCHANGED <<now, expiry, at, left, admitted>>

Count(p) ==
  LET dead == expiry # NoExpiry /\ now >= expiry
      cur  == IF dead THEN EmptyLog(Instant) ELSE log
  IN  /\ pc[p] = "count"
      /\ log' = cur
      /\ expiry' = IF dead THEN NoExpiry ELSE expiry
      /\ IF CountFrom(cur, cutoff(p)) + left[p] <= Limit
         THEN pc' = [pc EXCEPT ![p] = "add"] /\ UNCHANGED <<at, left>>
         ELSE Return(p, "limit_exceeded")
      /\ UNCHANGED <<now, admitted>>

\* One of the request's entries; the last one admits the request.
Add(p) ==
  /\ pc[p] = "add"
  /\ log' = Added(log, at[p], 1)
  /\ expiry' = now + Duration
  /\ admitted' = [admitted EXCEPT ![now] = @ + 1]
  /\ IF left[p] = 1 THEN Return(p, "allowed")
                    ELSE left' = [left EXCEPT ![p] = @ - 1] /\ UNCHANGED <<pc, at>>
  /\ UNCHANGED now

\* The store drops a log past its expiry.
Forget ==
  /\ expiry # NoExpiry /\ now >= expiry
  /\ log' = EmptyLog(Instant) /\ expiry' = NoExpiry
  /\ UNCHANGED <<now, local, admitted>>

\* A store call fails without effect.
StoreFails(p) ==
  /\ pc[p] \in Running
  /\ Return(p, "error")
  /\ UNCHANGED <<now, store, admitted>>

Step(p) == CheckAndAdd(p, "allowed") \/ Trim(p) \/ Count(p) \/ Add(p)

\* calm: evaluations do not overlap.
Next(atomic, calm) ==
  \/ Tick \/ Forget
  \/ \E p \in Proc : \/ /\ calm => \A q \in Proc : pc[q] \in Ended
                        /\ \E c \in Cost : Start(p, c, atomic)
                     \/ Step(p) \/ CheckAndAdd(p, "error") \/ StoreFails(p)

-----------------------------------------------------------------------------
(* Properties *)

\* The rolling limit: what is let through within any Duration of time, ending
\* at any instant, is at most Limit (slidinglog.go:49-65, and 68-94).
RollingLimit ==
  \A t \in Instant :
    SumFunctionOnSet(admitted, {u \in Instant : t - Duration < u /\ u <= t}) <= Limit

\* The log is well formed.
TypeOK ==
  /\ now \in Instant
  /\ log \in [Instant -> Nat] /\ expiry \in Nat
  /\ pc \in [Proc -> Running \union Ended]
  /\ at \in [Proc -> Nat] /\ left \in [Proc -> Nat]
  /\ admitted \in [Instant -> Nat]
=============================================================================
