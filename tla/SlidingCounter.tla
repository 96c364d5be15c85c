--------------------------- MODULE SlidingCounter ---------------------------
(***************************************************************************)
(* The sliding window counter limiter, internal/algorithm/slidingcounter.  *)
(* An evaluation reads the clock and the previous window's counter once,   *)
(* then Gets and CompareAndSwaps the current window's counter, at most     *)
(* MaxRetries times.  The estimate is compared with the limit after both   *)
(* are multiplied by the duration, which keeps it a whole number.          *)
(*                                                                         *)
(* charged is a history variable: the cost admitted to each window.        *)
(***************************************************************************)
EXTENDS CounterItems, Windows

CONSTANTS Proc, Limit, Cost, MaxRetries,
          Prompt    \* no evaluation outlives the window it started in

VARIABLES now, counter, pc, at, cost, prev, cur, attempt, charged

store == <<counter, charged>>
local == <<pc, at, cost, prev, cur, attempt>>
vars == <<now, store, local>>

Running == {"getPrev", "get", "swap"}
Ended == {"none", "allowed", "limit_exceeded", "contention", "error"}

curStart(p) == WindowStart(at[p])
prevStart(p) == curStart(p) - Duration

\* A key nobody has written reads as zero.
Value(w) == IF w \in Window THEN Live(counter[w], now).value ELSE 0

\* weight * window: how much of the previous window the rolling view covers.
Weight(t) == Max({0, Duration - (t - WindowStart(t))})

Init ==
  /\ now \in Instant
  /\ counter = [w \in Window |-> ZeroItem]
  /\ charged = [w \in Window |-> 0]
  /\ pc = [p \in Proc |-> "none"]
  /\ at = [p \in Proc |-> 0]
  /\ cost = [p \in Proc |-> 0]
  /\ prev = [p \in Proc |-> 0]
  /\ cur = [p \in Proc |-> 0]
  /\ attempt = [p \in Proc |-> 0]

Tick ==
  /\ now' \in {t \in Instant : t > now}
  /\ Prompt => \A p \in Proc : pc[p] \in Running => now' < WindowEnd(at[p])
  /\ UNCHANGED <<store, local>>

Start(p, c) ==
  /\ pc[p] \in Ended
  /\ pc' = [pc EXCEPT ![p] = "getPrev"]
  /\ at' = [at EXCEPT ![p] = now]
  /\ cost' = [cost EXCEPT ![p] = c]
  /\ UNCHANGED <<now, store, prev, cur, attempt>>

Return(p, d) ==
  /\ pc' = [pc EXCEPT ![p] = d]
  /\ at' = [at EXCEPT ![p] = 0]
  /\ cost' = [cost EXCEPT ![p] = 0]
  /\ prev' = [prev EXCEPT ![p] = 0]
  /\ cur' = [cur EXCEPT ![p] = 0]
  /\ attempt' = [attempt EXCEPT ![p] = 0]

GetPrev(p) ==
  /\ pc[p] = "getPrev"
  /\ pc' = [pc EXCEPT ![p] = "get"]
  /\ prev' = [prev EXCEPT ![p] = Value(prevStart(p))]
  /\ UNCHANGED <<now, store, at, cost, cur, attempt>>

Estimate(curCount, prevCount, c, t) == (curCount + c) * Duration + prevCount * Weight(t)

Get(p) ==
  LET count == Value(curStart(p))
  IN  /\ pc[p] = "get"
      /\ \/ /\ Estimate(count, prev[p], cost[p], at[p]) <= Limit * Duration
            /\ pc' = [pc EXCEPT ![p] = "swap"]
            /\ cur' = [cur EXCEPT ![p] = count]
            /\ UNCHANGED <<at, cost, prev, attempt>>
         \/ /\ Estimate(count, prev[p], cost[p], at[p]) > Limit * Duration
            /\ Return(p, "limit_exceeded")
      /\ UNCHANGED <<now, store>>

\* Variant: the counter lives for its own window only.
CounterTTL_one_window == Duration

CounterTTL == 2 * Duration

\* The answer to a successful swap may be lost on its way back.
Swap(p, answer) ==
  LET w  == curStart(p)
      it == Live(counter[w], now)
  IN  /\ pc[p] = "swap"
      /\ it.value = cur[p]
      /\ counter' = [counter EXCEPT ![w] = Written(it, cur[p] + cost[p], CounterTTL, now)]
      /\ charged' = [charged EXCEPT ![w] = @ + cost[p]]
      /\ Return(p, answer)
      /\ UNCHANGED now

SwapFails(p) ==
  /\ pc[p] = "swap"
  /\ Value(curStart(p)) # cur[p]
  /\ \/ /\ attempt[p] + 1 < MaxRetries
        /\ attempt' = [attempt EXCEPT ![p] = @ + 1]
        /\ pc' = [pc EXCEPT ![p] = "get"]
        /\ UNCHANGED <<at, cost, prev, cur>>
     \/ /\ attempt[p] + 1 >= MaxRetries
        /\ Return(p, "contention")
  /\ UNCHANGED <<now, store>>

\* A store call fails without effect.
StoreFails(p) ==
  /\ pc[p] \in Running
  /\ Return(p, "error")
  /\ UNCHANGED <<now, store>>

Step(p) == GetPrev(p) \/ Get(p) \/ Swap(p, "allowed") \/ SwapFails(p)

Next ==
  \/ Tick
  \/ \E p \in Proc : \/ \E c \in Cost : Start(p, c)
                     \/ Step(p) \/ Swap(p, "error") \/ StoreFails(p)

-----------------------------------------------------------------------------
(* Properties *)

\* Types, and that an evaluation only swaps in a count within the limit.
TypeOK ==
  /\ now \in Instant
  /\ counter \in [Window -> [value : Nat, expiry : Nat]]
  /\ charged \in [Window -> Nat]
  /\ pc \in [Proc -> Running \union Ended]
  /\ at \in [Proc -> Nat] /\ cost \in [Proc -> Nat] /\ attempt \in [Proc -> Nat]
  /\ prev \in [Proc -> Nat] /\ cur \in [Proc -> Nat]
  /\ \A p \in Proc : pc[p] = "swap" => cur[p] + cost[p] <= Limit

\* What was admitted to the window before the one that starts at w.
ChargedBefore(w) ==
  LET before == {v \in Window : v < w /\ \A t \in Instant : WindowStart(t) = v => WindowEnd(t) = w}
  IN  IF before = {} THEN 0 ELSE charged[Max(before)]

\* A request of cost c at instant t fits the limit, by what was really
\* admitted to its window w and, by its weight, to the window before.
Admissible(w, c, t) ==
  (charged[w] + c) * Duration + ChargedBefore(w) * Weight(t) <= Limit * Duration
=============================================================================
