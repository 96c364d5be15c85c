---------------------------- MODULE RegionAllocator ----------------------------
(***************************************************************************)
(* The health-aware allocator of internal/region: a global limit split     *)
(* over the regions that are healthy, by weight.  Every operation holds    *)
(* the allocator's mutex.  Regions are numbered in the order of their      *)
(* names.  Time is kept as the age of each region's last heartbeat, which  *)
(* stops growing once it is over heartbeatTTL.                             *)
(*                                                                         *)
(* drained is a history variable: the regions an operator has drained and  *)
(* that have neither sent a heartbeat nor been restored since.             *)
(***************************************************************************)
EXTENDS Integers, FiniteSets, FiniteSetsExt, Functions

CONSTANTS Region, Weight, GlobalLimit, HeartbeatTTL,
          MaxInt      \* the largest integer; that of int64 is 2^63 - 1

ASSUME AllocatorAssumption ==
  /\ Region \subseteq Nat /\ IsFiniteSet(Region) /\ Region # {}
  /\ Weight \subseteq Nat /\ HeartbeatTTL \in Nat \ {0}
  /\ GlobalLimit \in Nat \ {0} /\ MaxInt \in Nat

VARIABLES weight, health, age, allocations, drained

regionVars == <<weight, health, age, allocations, drained>>

Healthy == {r \in Region : health[r] = "healthy"}
Stale == HeartbeatTTL + 1

-----------------------------------------------------------------------------
(* The split *)

\* A signed integer, between -(MaxInt + 1) and MaxInt.
Wrap(n) == ((n + MaxInt + 1) % (2 * (MaxInt + 1))) - (MaxInt + 1)

\* Go's division truncates towards zero.
Quotient(n, d) == IF n >= 0 THEN n \div d ELSE -((-n) \div d)

\* The weights are small enough to be added up.
TotalWeight(S) == SumFunctionOnSet(weight, S)

\* A share before the remainder: a product that wrapped below 0 counts as 0.
Share(r, S) ==
  LET limit == Quotient(Wrap(GlobalLimit * weight[r]), TotalWeight(S))
  IN  IF limit < 0 THEN 0 ELSE limit

\* Variant: the last region gets its share, and the remainder is lost.
AllocateGlobalLimit_rounds_down(regions) ==
  LET valid == {r \in regions : weight[r] > 0}
  IN  [r \in valid |-> Share(r, valid)]

\* Regions without a weight are left out; the last one takes the remainder.
AllocateGlobalLimit(regions) ==
  LET valid == {r \in regions : weight[r] > 0}
      others == valid \ {Max(valid)}
      assigned == SumFunction([r \in others |-> Share(r, valid)])
      rest == GlobalLimit - assigned
  IN  [r \in valid |-> IF r \in others THEN Share(r, valid)
                       ELSE IF rest < 0 THEN 0 ELSE rest]

-----------------------------------------------------------------------------
(* The allocator *)

\* rebalanceLocked, over the health that the operation leaves behind.
Rebalanced(healthy) ==
  AllocateGlobalLimit(IF healthy = {} THEN Region ELSE healthy)

RegionInit ==
  /\ weight \in [Region -> Weight]
  /\ health = [r \in Region |-> "healthy"]
  /\ age = [r \in Region |-> 0]
  /\ allocations = Rebalanced(Region)
  /\ drained = {}

RegionTick ==
  /\ age' = [r \in Region |-> IF age[r] < Stale THEN age[r] + 1 ELSE Stale]
  /\ UNCHANGED <<weight, health, allocations, drained>>

\* Brings an unhealthy region back, also one that was drained.
Heartbeat(r) ==
  /\ age' = [age EXCEPT ![r] = 0]
  /\ health' = [health EXCEPT ![r] = "healthy"]
  /\ allocations' = IF health[r] = "unhealthy" THEN Rebalanced(Healthy \union {r})
                                               ELSE allocations
  /\ drained' = drained \ {r}
  /\ UNCHANGED weight

\* Variant: a heartbeat as old as the ttl is too old.
CheckHealth_off_by_one ==
  LET late == {r \in Healthy : age[r] >= HeartbeatTTL}
  IN  /\ health' = [r \in Region |-> IF r \in late THEN "unhealthy" ELSE health[r]]
      /\ allocations' = IF late # {} THEN Rebalanced(Healthy \ late) ELSE allocations
      /\ UNCHANGED <<weight, age, drained>>

CheckHealth ==
  LET late == {r \in Healthy : age[r] > HeartbeatTTL}
  IN  /\ health' = [r \in Region |-> IF r \in late THEN "unhealthy" ELSE health[r]]
      /\ allocations' = IF late # {} THEN Rebalanced(Healthy \ late) ELSE allocations
      /\ UNCHANGED <<weight, age, drained>>

\* Variant: marks the region after the rebalancing.
DrainRegion_rebalances_first(r) ==
  /\ health' = [health EXCEPT ![r] = "unhealthy"]
  /\ allocations' = Rebalanced(Healthy)
  /\ drained' = drained \union {r}
  /\ UNCHANGED <<weight, age>>

DrainRegion(r) ==
  /\ health' = [health EXCEPT ![r] = "unhealthy"]
  /\ allocations' = Rebalanced(Healthy \ {r})
  /\ drained' = drained \union {r}
  /\ UNCHANGED <<weight, age>>

RestoreRegion(r) ==
  /\ health' = [health EXCEPT ![r] = "healthy"]
  /\ age' = [age EXCEPT ![r] = 0]
  /\ allocations' = Rebalanced(Healthy \union {r})
  /\ drained' = drained \ {r}
  /\ UNCHANGED weight

-----------------------------------------------------------------------------
RegionNext ==
  \/ RegionTick \/ CheckHealth
  \/ \E r \in Region : Heartbeat(r) \/ DrainRegion(r) \/ RestoreRegion(r)

RegionSpec == RegionInit /\ [][RegionNext]_regionVars

-----------------------------------------------------------------------------
(* Properties *)

\* Types, and that shares are never negative.
RegionTypeOK ==
  /\ weight \in [Region -> Weight] /\ health \in [Region -> {"healthy", "unhealthy"}]
  /\ age \in [Region -> 0..Stale] /\ drained \subseteq Region
  /\ DOMAIN allocations \subseteq Region
  /\ \A r \in DOMAIN allocations : allocations[r] \in Nat

\* No part of the limit is lost or handed out twice, whatever regions come and
\* go, and also when a product overflows: as long as some region in the split
\* has a weight, the shares add up to the global limit (AllocateGlobalLimit,
\* allocator.go:39-51).  CheckHealth "redistributes their share to healthy
\* regions" (allocator.go:143).  The limit is split "proportionally" (line 21):
\* a share is off its exact value by less than one unit, the last one by less
\* than one unit for every region, when no product overflows.
LimitSplit ==
  LET S == DOMAIN allocations
      total == TotalWeight(S)
  IN  /\ S # {} => SumFunction(allocations) = GlobalLimit
      /\ (\A r \in S : GlobalLimit * weight[r] <= MaxInt) =>
           \A r \in S : LET off == allocations[r] * total - GlobalLimit * weight[r]
                        IN  IF r = Max(S) THEN off >= 0 /\ off < Cardinality(S) * total
                                          ELSE off <= 0 /\ -off < total

\* The shares always belong to the present health: an unhealthy region has none
\* unless all are unhealthy, a healthy region with a weight has one
\* (allocator.go:129-158, 184-219).
SharesFollowHealth ==
  LET eligible == IF Healthy = {} THEN Region ELSE Healthy
  IN  DOMAIN allocations = {r \in eligible : weight[r] > 0}

\* A region loses its share only for a reason: one that has sent a heartbeat
\* within heartbeatTTL, and that nobody has drained since, has its share
\* whatever the checks and the other regions do (allocator.go:144-158).
AliveKeepsShare ==
  \A r \in Region :
    weight[r] > 0 /\ age[r] <= HeartbeatTTL /\ r \notin drained =>
      r \in DOMAIN allocations
===============================================================================
