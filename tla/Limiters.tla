------------------------------ MODULE Limiters ------------------------------
(***************************************************************************)
(* One policy under the algorithm it names.  The engine looks the          *)
(* algorithm up (engine.go:43) and hands it the counter store; evaluations *)
(* of the policy run concurrently.  Init picks the algorithm, and the      *)
(* component that models it takes the steps:                               *)
(*                                                                         *)
(*   fixed_window    WindowLimiter (the quota limiter runs the same loop)  *)
(*   counter         SlidingCounter                                        *)
(*   log             SlidingLog, on a store with CheckAndAddTimestamps     *)
(*   fallback_log    SlidingLog, on a store without it                     *)
(*   token_bucket, leaky_bucket    BucketLimiter                           *)
(*                                                                         *)
(* Some of the promises hold only if evaluations do not overlap and the    *)
(* store does not fail; calm says that they do not.                        *)
(***************************************************************************)
EXTENDS WindowLimiter

CONSTANTS Algorithm, Capacity, Rate, BucketTTL, Stall, MaxAdmitted,
          Prompt    \* see SlidingCounter and SlidingLog

ASSUME LimitersAssumption ==
  /\ Algorithm \subseteq {"fixed_window", "counter", "log", "fallback_log",
                          "token_bucket", "leaky_bucket"}
  /\ {Capacity, Rate, BucketTTL} \subseteq Nat \ {0}
  /\ {Stall, MaxAdmitted} \subseteq Nat
  /\ Prompt \in BOOLEAN

VARIABLES algorithm, calm, prev, level, ts, old, new, log, expiry, admitted

Counter == INSTANCE SlidingCounter
Log     == INSTANCE SlidingLog WITH left <- cost
Bucket  == INSTANCE BucketLimiter WITH TTL <- BucketTTL

counters == <<counter, charged, cur>>
buckets  == <<level, ts, old, new>>
logs     == <<log, expiry>>
choice   == <<algorithm, calm>>
limiterVars == <<vars, choice, prev, buckets, logs, admitted>>

Logs == {"log", "fallback_log"}
Buckets == {"token_bucket", "leaky_bucket"}

LimitersInit ==
  /\ algorithm \in Algorithm
  /\ calm \in IF algorithm \in Buckets \union {"fallback_log"} THEN BOOLEAN ELSE {FALSE}
  /\ Init /\ Counter!Init /\ Log!Init /\ Bucket!Init

\* What an algorithm has no use for.
WindowRest  == <<choice, prev, buckets, logs, admitted>>
CounterRest == <<choice, rivals, buckets, logs, admitted>>
LogRest     == <<choice, counters, attempt, rivals, prev, buckets>>
BucketRest  == <<choice, counters, rivals, prev, logs>>

LimitersNext ==
  \/ algorithm = "fixed_window" /\ Next /\ UNCHANGED WindowRest
  \/ algorithm = "counter" /\ Counter!Next /\ UNCHANGED CounterRest
  \/ algorithm \in Logs /\ Log!Next(algorithm = "log", calm) /\ UNCHANGED LogRest
  \/ algorithm \in Buckets /\ Bucket!Next(algorithm, calm) /\ UNCHANGED BucketRest

\* A step of p's evaluation, by whichever algorithm.
EvaluationStep(p) ==
  \/ algorithm = "fixed_window" /\ Step(p) /\ UNCHANGED WindowRest
  \/ algorithm = "counter" /\ Counter!Step(p) /\ UNCHANGED CounterRest
  \/ algorithm \in Logs /\ Log!Step(p) /\ UNCHANGED LogRest
  \/ algorithm \in Buckets /\ Bucket!Step(p, algorithm) /\ UNCHANGED BucketRest

LimitersSpec == LimitersInit /\ [][LimitersNext]_limiterVars

\* A goroutine inside Evaluate keeps running.
FairLimitersSpec == LimitersSpec /\ \A p \in Proc : WF_limiterVars(EvaluationStep(p))

-----------------------------------------------------------------------------
(* Properties.  WindowBudget and CounterIsCharged of WindowLimiter are     *)
(* stated of both algorithms that keep a counter per window.               *)

\* A fixed window turns a request away for contention only if the counter
\* really changed MaxRetries times during its evaluation, each time by another
\* request that got through or by its expiry (fixedwindow.go:71, quota.go:74).
ContentionIsReal ==
  [][algorithm = "fixed_window" => ContentionEarned]_limiterVars

\* The sliding counter admits a request only if what was really admitted to
\* its window, and to the window before by its weight, stays within the limit:
\* neither the previous count, read once, nor the current one is stale when it
\* is used, and the previous counter outlives the view (slidingcounter.go:62-86).
RollingEstimate ==
  [][algorithm = "counter" =>
       \A p \in Proc : pc[p] = "swap" /\ pc'[p] = "allowed" =>
         Counter!Admissible(Counter!curStart(p), cost[p], at[p])]_limiterVars

\* The sliding log's rolling limit, with overlapping requests on the atomic
\* path (slidinglog.go:49-65), and one request at a time on the fallback,
\* whose race the code concedes (slidinglog.go:68-94).
LogLimit ==
  algorithm = "log" \/ (algorithm = "fallback_log" /\ calm) => Log!RollingLimit

\* Taken one at a time, the requests that a bucket admits between any two
\* instants cost no more than its capacity and the refill, or leak, between
\* them: no stall, retry or expiry of the two keys the bucket keeps adds
\* tokens (tokenbucket.go:73-94, leakybucket.go:72-91).
BucketRate == algorithm \in Buckets /\ calm => Bucket!RateRespected

\* "over-admission detected: allowed %d > burst %d" (stress_test.go:221): what
\* overlapping requests are admitted by a bucket is bounded in the same way.
BurstRespected == algorithm \in Buckets => Bucket!RateRespected

\* Every evaluation ends, whatever the algorithm: a store that keeps changing
\* under it cannot hold a request forever (fixedwindow.go:71, quota.go:74,
\* slidingcounter.go, tokenbucket.go, leakybucket.go: MaxRetries).
EvaluationEnds == \A p \in Proc : pc[p] \notin Ended ~> pc[p] \in Ended
=============================================================================
