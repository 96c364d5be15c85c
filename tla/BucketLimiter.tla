---------------------------- MODULE BucketLimiter ----------------------------
(***************************************************************************)
(* The token bucket (internal/algorithm/tokenbucket) and the leaky bucket  *)
(* (internal/algorithm/leakybucket).  Both keep a level and the instant it *)
(* was computed for under two keys, and run the same loop: Get the level,  *)
(* Get the instant, CompareAndSwap the level, and, once that succeeded,    *)
(* Set the instant.  Nothing ties the two keys together.                   *)
(*                                                                         *)
(* The unit of levels is the one the code stores, 1/1000 of a token, and   *)
(* Rate is per tick of the clock, so levels are whole numbers and the      *)
(* rounding of the stored level (math.Round) is left out.                  *)
(*                                                                         *)
(* admitted is a history variable: the cost admitted by evaluations that   *)
(* read the clock at an instant.                                           *)
(***************************************************************************)
EXTENDS CounterItems, FiniteSetsExt

CONSTANTS Proc, Capacity, Rate, TTL, Cost, MaxRetries,
          Instant,             \* the readings of the clock
          Stall,               \* bound of an evaluation's duration
          MaxAdmitted          \* bound of what overlapping evaluations admit

VARIABLES now, level, ts, pc, at, cost, old, new, attempt, admitted

store == <<level, ts>>
local == <<pc, at, cost, old, new, attempt>>
vars == <<now, store, local, admitted>>

Running == {"getLevel", "getTs", "swap", "setTs"}
Ended == {"none", "allowed", "limit_exceeded", "contention", "error"}

Init ==
  /\ now \in Instant
  /\ level = ZeroItem /\ ts = ZeroItem
  /\ pc = [p \in Proc |-> "none"]
  /\ at = [p \in Proc |-> 0]
  /\ cost = [p \in Proc |-> 0]
  /\ old = [p \in Proc |-> 0]
  /\ new = [p \in Proc |-> 0]
  /\ attempt = [p \in Proc |-> 0]
  /\ admitted = [t \in Instant |-> 0]

Tick ==
  /\ now' \in {t \in Instant : t > now}
  /\ \A p \in Proc : pc[p] \in Running => now' <= at[p] + Stall
  /\ UNCHANGED <<store, local, admitted>>

-----------------------------------------------------------------------------
(* What an evaluation at instant t makes of the stored level and instant.  *)
(* It fits if the request's cost does, and new is the level to store.      *)

Elapsed(last, t) == IF last = 0 \/ last > t THEN 0 ELSE t - last

\* Tokens left: refilled up to the capacity, full if no instant is stored.
Tokens(stored, last, t, c) ==
  LET cur == IF last = 0 THEN Capacity
             ELSE Min({Capacity, stored + Elapsed(last, t) * Rate})
  IN  [fits |-> cur >= c, new |-> cur - c]

\* Variant: the request's own cost is not part of the check.
Load_off_by_cost(stored, last, t, c) ==
  LET cur == Max({0, stored - Elapsed(last, t) * Rate})
  IN  [fits |-> cur < Capacity, new |-> cur + c]

\* Load in the bucket: leaked down to zero, empty if no level is stored.
Load(stored, last, t, c) ==
  LET cur == Max({0, stored - Elapsed(last, t) * Rate})
  IN  [fits |-> cur + c <= Capacity, new |-> cur + c]

Evaluation(kind, stored, last, t, c) ==
  IF kind = "token_bucket" THEN Tokens(stored, last, t, c) ELSE Load(stored, last, t, c)

-----------------------------------------------------------------------------
Start(p, c) ==
  /\ pc[p] \in Ended
  /\ pc' = [pc EXCEPT ![p] = "getLevel"]
  /\ at' = [at EXCEPT ![p] = now]
  /\ cost' = [cost EXCEPT ![p] = c]
  /\ UNCHANGED <<now, store, old, new, attempt, admitted>>

\* Evaluate returns, and its local variables are gone.
Return(p, d) ==
  /\ pc' = [pc EXCEPT ![p] = d]
  /\ at' = [at EXCEPT ![p] = 0]
  /\ cost' = [cost EXCEPT ![p] = 0]
  /\ old' = [old EXCEPT ![p] = 0]
  /\ new' = [new EXCEPT ![p] = 0]
  /\ attempt' = [attempt EXCEPT ![p] = 0]

GetLevel(p) ==
  /\ pc[p] = "getLevel"
  /\ pc' = [pc EXCEPT ![p] = "getTs"]
  /\ old' = [old EXCEPT ![p] = Live(level, now).value]
  /\ UNCHANGED <<now, store, at, cost, new, attempt, admitted>>

GetTs(p, kind) ==
  LET e == Evaluation(kind, old[p], Live(ts, now).value, at[p], cost[p])
  IN  /\ pc[p] = "getTs"
      /\ \/ /\ e.fits
            /\ pc' = [pc EXCEPT ![p] = "swap"]
            /\ new' = [new EXCEPT ![p] = e.new]
            /\ UNCHANGED <<at, cost, old, attempt>>
         \/ /\ ~e.fits
            /\ Return(p, "limit_exceeded")
      /\ UNCHANGED <<now, store, admitted>>

\* The level is still the one p has read.
Swap(p) ==
  LET it == Live(level, now)
  IN  /\ pc[p] = "swap"
      /\ it.value = old[p]
      /\ level' = Written(it, new[p], TTL, now)
      /\ pc' = [pc EXCEPT ![p] = "setTs"]
      /\ admitted' = [admitted EXCEPT ![at[p]] = @ + cost[p]]
      /\ UNCHANGED <<now, ts, at, cost, old, new, attempt>>

\* Variant: an unbounded loop whose reads have been moved out of it.
SwapFails_without_get(p) ==
  /\ pc[p] = "swap"
  /\ Live(level, now).value # old[p]
  /\ UNCHANGED vars

\* Another request has changed it: try again, or give up.
SwapFails(p) ==
  /\ pc[p] = "swap"
  /\ Live(level, now).value # old[p]
  /\ \/ /\ attempt[p] + 1 < MaxRetries
        /\ attempt' = [attempt EXCEPT ![p] = @ + 1]
        /\ pc' = [pc EXCEPT ![p] = "getLevel"]
        /\ UNCHANGED <<at, cost, old, new>>
     \/ /\ attempt[p] + 1 >= MaxRetries
        /\ Return(p, "contention")
  /\ UNCHANGED <<now, store, admitted>>

\* One of three calls of Set succeeds.
SetTs(p) ==
  /\ pc[p] = "setTs"
  /\ ts' = Written(ZeroItem, at[p], TTL, now)
  /\ Return(p, "allowed")
  /\ UNCHANGED <<now, level, admitted>>

\* All three calls of Set fail: the request is allowed all the same.
SetTsFails(p) ==
  /\ pc[p] = "setTs"
  /\ Return(p, "allowed")
  /\ UNCHANGED <<now, store, admitted>>

\* Another store call fails; a failed CompareAndSwap may have taken effect.
StoreFails(p) ==
  /\ pc[p] \in Running \ {"setTs"}
  /\ Return(p, "error")
  /\ \/ level' = level
     \/ /\ pc[p] = "swap"
        /\ Live(level, now).value = old[p]
        /\ level' = Written(Live(level, now), new[p], TTL, now)
  /\ UNCHANGED <<now, ts, admitted>>

Step(p, kind) ==
  GetLevel(p) \/ GetTs(p, kind) \/ Swap(p) \/ SwapFails(p) \/ SetTs(p)

\* calm: evaluations do not overlap and no store call fails.
Next(kind, calm) ==
  \/ Tick
  \/ \E p \in Proc : \/ /\ calm => \A q \in Proc : pc[q] \in Ended
                        /\ calm \/ SumFunction(admitted) < MaxAdmitted
                        /\ \E c \in Cost : Start(p, c)
                     \/ Step(p, kind)
                     \/ ~calm /\ (SetTsFails(p) \/ StoreFails(p))

-----------------------------------------------------------------------------
(* Properties *)

\* The stored level, and every level an evaluation is about to store, stays
\* within the bucket: at least 0, and at most the capacity.
TypeOK ==
  /\ now \in Instant
  /\ level \in [value : 0..Capacity, expiry : Nat]
  /\ ts \in [value : Nat, expiry : Nat]
  /\ pc \in [Proc -> Running \union Ended]
  /\ at \in [Proc -> Nat] /\ cost \in [Proc -> Nat]
  /\ old \in [Proc -> 0..Capacity] /\ new \in [Proc -> 0..Capacity]
  /\ attempt \in [Proc -> Nat]
  /\ admitted \in [Instant -> Nat]
  /\ \A p \in Proc : pc[p] \in Running => at[p] \in Instant

\* What a bucket is for: between any two instants it admits no more than its
\* capacity and what is refilled, or leaks, from one to the other
\* (tokenbucket.go:73-94, leakybucket.go:72-91).
RateRespected ==
  \A s, t \in Instant : s <= t =>
    SumFunctionOnSet(admitted, {u \in Instant : s <= u /\ u <= t})
      <= Capacity + Rate * (t - s)
=============================================================================
