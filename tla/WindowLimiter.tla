---------------------------- MODULE WindowLimiter ----------------------------
(***************************************************************************)
(* The fixed window limiter (internal/algorithm/fixedwindow) and the quota *)
(* limiter (internal/algorithm/quota), which run the same loop: read the   *)
(* clock once, then Get the window's counter and CompareAndSwap it, at     *)
(* most MaxRetries times.  Evaluations of one policy key run concurrently  *)
(* and share the counter store; each call to the store is one step.        *)
(*                                                                         *)
(* A remote store may fail a call.  A CompareAndSwap that reports an error *)
(* may or may not have taken effect.                                       *)
(*                                                                         *)
(* charged and rivals are history variables: charged[w] is the cost        *)
(* committed to window w before w ended, and rivals[p] how often the       *)
(* counter p works on has changed under it during its current evaluation.  *)
(***************************************************************************)
EXTENDS CounterItems, Windows

CONSTANTS Proc, Limit, Cost, MaxRetries

ASSUME LimiterAssumption ==
  /\ Limit \in Nat \ {0}          \* a configured limit <= 0 becomes 1
  /\ Cost \subseteq Nat \ {0}     \* common.Cost never returns less than 1
  /\ MaxRetries \in Nat \ {0}

VARIABLES now, counter, pc, at, cost, cur, attempt, charged, rivals

store == <<counter, charged>>
local == <<pc, at, cost, cur, attempt>>
vars == <<now, store, local, rivals>>

\* pc[p] is where p is in the loop, or how its last evaluation ended.
Running == {"get", "swap"}
Ended == {"none", "allowed", "limit_exceeded", "contention", "error"}

windowKey(p) == WindowStart(at[p])

Value(w) == Live(counter[w], now).value

Init ==
  /\ now \in Instant
  /\ counter = [w \in Window |-> ZeroItem]
  /\ charged = [w \in Window |-> 0]
  /\ pc = [p \in Proc |-> "none"]
  /\ at = [p \in Proc |-> 0]
  /\ cost = [p \in Proc |-> 0]
  /\ cur = [p \in Proc |-> 0]
  /\ attempt = [p \in Proc |-> 0]
  /\ rivals = [p \in Proc |-> 0]

Noticed(P) == [p \in Proc |-> IF p \in P /\ rivals[p] < MaxRetries
                              THEN rivals[p] + 1 ELSE rivals[p]]

Tick ==
  /\ now' \in {t \in Instant : t > now}
  /\ UNCHANGED <<store, local>>
  /\ rivals' = Noticed({p \in Proc : /\ pc[p] \in Running
                                     /\ Value(windowKey(p)) # Value(windowKey(p))'})

\* A request arrives: the clock is read, once, and the loop entered.
Start(p, c) ==
  /\ pc[p] \in Ended
  /\ pc' = [pc EXCEPT ![p] = "get"]
  /\ at' = [at EXCEPT ![p] = now]
  /\ cost' = [cost EXCEPT ![p] = c]
  /\ UNCHANGED <<now, store, cur, attempt, rivals>>

\* Evaluate returns, and its local variables are gone.
Return(p, d) ==
  /\ pc' = [pc EXCEPT ![p] = d]
  /\ at' = [at EXCEPT ![p] = 0]
  /\ cost' = [cost EXCEPT ![p] = 0]
  /\ cur' = [cur EXCEPT ![p] = 0]
  /\ attempt' = [attempt EXCEPT ![p] = 0]

Get(p) ==
  /\ pc[p] = "get"
  /\ Value(windowKey(p)) + cost[p] <= Limit
  /\ pc' = [pc EXCEPT ![p] = "swap"]
  /\ cur' = [cur EXCEPT ![p] = Value(windowKey(p))]
  /\ UNCHANGED <<now, store, at, cost, attempt, rivals>>

GetDenies(p) ==
  /\ pc[p] = "get"
  /\ Value(windowKey(p)) + cost[p] > Limit
  /\ Return(p, "limit_exceeded")
  /\ rivals' = [rivals EXCEPT ![p] = 0]
  /\ UNCHANGED <<now, store>>

\* Variant: Set in place of CompareAndSwap, so an update may be lost.
Swap_blind(p, answer) ==
  LET w  == windowKey(p)
      it == Live(counter[w], now)
  IN  /\ pc[p] = "swap"
      /\ counter' = [counter EXCEPT ![w] = Written(it, cur[p] + cost[p], Duration, now)]
      /\ charged' = [charged EXCEPT ![w] =
                       IF now < WindowEnd(at[p]) THEN @ + cost[p] ELSE @]
      /\ rivals' = [Noticed({q \in Proc : pc[q] \in Running /\ windowKey(q) = w})
                      EXCEPT ![p] = 0]
      /\ Return(p, answer)
      /\ UNCHANGED now

\* The store's CompareAndSwap finds the value p has read, and replaces it.
\* The answer may be lost on its way back.
Swap(p, answer) ==
  LET w  == windowKey(p)
      it == Live(counter[w], now)
  IN  /\ pc[p] = "swap"
      /\ it.value = cur[p]
      /\ counter' = [counter EXCEPT ![w] = Written(it, cur[p] + cost[p], Duration, now)]
      /\ charged' = [charged EXCEPT ![w] =
                       IF now < WindowEnd(at[p]) THEN @ + cost[p] ELSE @]
      /\ rivals' = [Noticed({q \in Proc : pc[q] \in Running /\ windowKey(q) = w})
                      EXCEPT ![p] = 0]
      /\ Return(p, answer)
      /\ UNCHANGED now

\* Variant: gives up one attempt too early.
SwapGivesUp_early(p) ==
  /\ pc[p] = "swap"
  /\ Value(windowKey(p)) # cur[p]
  /\ attempt[p] + 2 >= MaxRetries
  /\ Return(p, "contention")
  /\ rivals' = [rivals EXCEPT ![p] = 0]
  /\ UNCHANGED <<now, store>>

\* The value has changed since Get: try again, or give up.
SwapRetries(p) ==
  /\ pc[p] = "swap"
  /\ Value(windowKey(p)) # cur[p]
  /\ attempt[p] + 1 < MaxRetries
  /\ attempt' = [attempt EXCEPT ![p] = @ + 1]
  /\ pc' = [pc EXCEPT ![p] = "get"]
  /\ UNCHANGED <<now, store, at, cost, cur, rivals>>

SwapGivesUp(p) ==
  /\ pc[p] = "swap"
  /\ Value(windowKey(p)) # cur[p]
  /\ attempt[p] + 1 >= MaxRetries
  /\ Return(p, "contention")
  /\ rivals' = [rivals EXCEPT ![p] = 0]
  /\ UNCHANGED <<now, store>>

\* A store call fails without effect, and so does the evaluation.
StoreFails(p) ==
  /\ pc[p] \in Running
  /\ Return(p, "error")
  /\ rivals' = [rivals EXCEPT ![p] = 0]
  /\ UNCHANGED <<now, store>>

Step(p) ==
  Get(p) \/ GetDenies(p) \/ Swap(p, "allowed") \/ SwapRetries(p) \/ SwapGivesUp(p)

Next ==
  \/ Tick
  \/ \E p \in Proc : \/ \E c \in Cost : Start(p, c)
                     \/ Step(p) \/ Swap(p, "error") \/ StoreFails(p)

Spec == Init /\ [][Next]_vars

-----------------------------------------------------------------------------
(* Properties *)

\* Types, and what an evaluation in its loop has established: it is past its
\* clock reading, and it only swaps in a value within the limit.
TypeOK ==
  /\ now \in Instant
  /\ counter \in [Window -> [value : Nat, expiry : Nat]]
  /\ charged \in [Window -> Nat]
  /\ pc \in [Proc -> Running \union Ended]
  /\ at \in [Proc -> Nat]
  /\ cost \in [Proc -> Nat]
  /\ cur \in [Proc -> Nat]
  /\ attempt \in [Proc -> Nat]
  /\ rivals \in [Proc -> 0..MaxRetries]
  /\ \A p \in Proc : /\ pc[p] \in Running => at[p] \in Instant /\ at[p] <= now
                     /\ pc[p] = "swap" => cur[p] + cost[p] <= Limit

\* However evaluations interleave, stall or fail, the cost that is committed
\* to a window before the window ends never exceeds the limit
\* (fixedwindow.go:57-68, quota.go:60-71).
WindowBudget == \A w \in Window : charged[w] <= Limit

\* Before a window ends its counter is exactly the cost committed to it: the
\* counter neither expires in the window nor counts a denied request.
CounterIsCharged ==
  \A t \in Instant : now < WindowEnd(t) => Value(WindowStart(t)) = charged[WindowStart(t)]

\* A step that turns a request away for contention: its counter has changed
\* MaxRetries times during the evaluation.
ContentionEarned ==
  \A p \in Proc : pc[p] = "swap" /\ pc'[p] = "contention" => rivals[p] = MaxRetries
=============================================================================
