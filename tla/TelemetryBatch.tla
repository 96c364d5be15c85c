---------------------------- MODULE TelemetryBatch ----------------------------
(***************************************************************************)
(* A batch of telemetry records filtered by a pool of workers, for one of  *)
(* the adapters: Process of pkg/provider and what the adapter makes of its *)
(* decisions, or, for otel, ProcessBatch of internal/adapter/otel, which   *)
(* runs its own pool over the logs, then over the spans, and then finds    *)
(* out which records were kept by comparing their fields.                  *)
(*                                                                         *)
(* evaluated is a history variable: how often each record was evaluated.   *)
(***************************************************************************)
EXTENDS Naturals, FiniteSets, FiniteSetsExt, Functions

CONSTANTS Worker, N,    \* the largest batch
          Fields        \* organization, service and severity or span name

ASSUME BatchAssumption == N \in Nat

VARIABLES adapter, FailOpen, records, phase, jobs, task, evaluated, keep,
          allowCnt, dropCnt, errorCnt, result, answer

batch == <<adapter, FailOpen, records>>
counters == <<allowCnt, dropCnt, errorCnt>>
batchVars == <<batch, phase, jobs, task, evaluated, keep, counters, result, answer>>

Index == DOMAIN records
NoTask == 0
NoAnswer == [kind |-> "none"]
Signal == {"log", "span", "other"}

\* The native records of an adapter have one signal; ProcessBatch ("generic",
\* "otel") takes records of every signal.
Adapters == {"generic", "otel", "datadog logs", "datadog metrics", "fluentbit", "kafka",
             "envoy", "ext_authz"}
SignalsOf(a) ==
  IF a \in {"generic", "otel"} THEN Signal
  ELSE IF a \in {"datadog logs", "fluentbit"} THEN {"log"} ELSE {"other"}
BatchRecord(a) == [signal : SignalsOf(a), fields : Fields]

\* ext_authz asks about one request, the others about a batch, maybe an empty one.
Sizes(a) == IF a = "ext_authz" THEN {1} ELSE 0..N

\* What the evaluator returns: a decision, also when there is an error.
Answer == [err : BOOLEAN, allowed : BOOLEAN]

otel == adapter = "otel"

\* The indices with one signal.  Without otel, the one pool takes them all.
OfSignal(s) == {i \in Index : records[i].signal = s}
Jobs(s) == IF otel THEN OfSignal(s) ELSE Index

BatchInit ==
  /\ adapter \in Adapters
  /\ FailOpen \in BOOLEAN
  /\ \E n \in Sizes(adapter) : records \in [1..n -> BatchRecord(adapter)]
  /\ phase = "log"
  /\ jobs = Jobs("log")
  /\ task = [w \in Worker |-> NoTask]
  /\ evaluated = [i \in Index |-> 0]
  /\ keep = [i \in Index |-> otel]
  /\ allowCnt = 0 /\ dropCnt = 0 /\ errorCnt = 0
  /\ result = [i \in Index |-> otel /\ records[i].signal = "other"]
  /\ answer = NoAnswer

-----------------------------------------------------------------------------
(* The pool *)

\* for idx := range jobs, in the order of the batch.
ReceiveJob(w) ==
  /\ task[w] = NoTask /\ jobs # {}
  /\ task' = [task EXCEPT ![w] = Min(jobs)]
  /\ jobs' = jobs \ {Min(jobs)}
  /\ UNCHANGED <<batch, phase, evaluated, keep, counters, result, answer>>

\* Process obeys FailOpen on an error; the OTEL processor then still looks at
\* the decision that came with the error.
Kept(a) ==
  IF otel THEN a.allowed /\ (a.err => FailOpen)
          ELSE IF a.err THEN FailOpen ELSE a.allowed

\* Variant: a record whose evaluation fails is queued again.
Evaluate_requeues(w, a) ==
  /\ task[w] # NoTask
  /\ jobs' = IF a.err THEN jobs \union {task[w]} ELSE jobs
  /\ evaluated' = IF a.err THEN evaluated ELSE [evaluated EXCEPT ![task[w]] = @ + 1]
  /\ keep' = IF a.err THEN keep ELSE [keep EXCEPT ![task[w]] = a.allowed]
  /\ task' = [task EXCEPT ![w] = NoTask]
  /\ UNCHANGED <<batch, phase, counters, result, answer>>

\* Variant: an error that does not fail open is not counted as a drop.
Evaluate_uncounted(w, a) ==
  /\ task[w] # NoTask
  /\ evaluated' = [evaluated EXCEPT ![task[w]] = @ + 1]
  /\ keep' = [keep EXCEPT ![task[w]] = Kept(a)]
  /\ allowCnt' = IF otel /\ Kept(a) THEN allowCnt + 1 ELSE allowCnt
  /\ dropCnt' = IF otel /\ ~a.allowed THEN dropCnt + 1 ELSE dropCnt
  /\ errorCnt' = IF otel /\ a.err THEN errorCnt + 1 ELSE errorCnt
  /\ task' = [task EXCEPT ![w] = NoTask]
  /\ UNCHANGED <<batch, phase, jobs, result, answer>>

Evaluate(w, a) ==
  /\ task[w] # NoTask
  /\ evaluated' = [evaluated EXCEPT ![task[w]] = @ + 1]
  /\ keep' = [keep EXCEPT ![task[w]] = Kept(a)]
  /\ allowCnt' = IF otel /\ Kept(a) THEN allowCnt + 1 ELSE allowCnt
  /\ dropCnt' = IF otel /\ ~Kept(a) THEN dropCnt + 1 ELSE dropCnt
  /\ errorCnt' = IF otel /\ a.err THEN errorCnt + 1 ELSE errorCnt
  /\ task' = [task EXCEPT ![w] = NoTask]
  /\ UNCHANGED <<batch, phase, jobs, result, answer>>

-----------------------------------------------------------------------------
(* After the pool *)

\* A record counts as kept when a kept record of its signal has its fields.
MatchesKept(i) ==
  \E k \in Index : /\ records[k].signal = records[i].signal
                   /\ records[k].fields = records[i].fields
                   /\ keep[k]

\* Variant: does not wait for the records that are being evaluated.
PoolDone_early ==
  /\ phase # "returned" /\ jobs = {}
  /\ LET next == IF otel /\ phase = "log" THEN "span" ELSE "returned"
     IN  /\ phase' = next
         /\ jobs' = IF next = "span" THEN Jobs("span") ELSE {}
  /\ result' = [i \in Index |->
       IF ~otel THEN keep[i]
       ELSE IF records[i].signal = phase THEN MatchesKept(i) ELSE result[i]]
  /\ UNCHANGED <<batch, task, evaluated, keep, counters, answer>>

\* wg.Wait() returns: the decisions of this pool, and the next pool or the end.
PoolDone ==
  /\ phase # "returned" /\ jobs = {}
  /\ \A w \in Worker : task[w] = NoTask
  /\ LET next == IF otel /\ phase = "log" THEN "span" ELSE "returned"
     IN  /\ phase' = next
         /\ jobs' = IF next = "span" THEN Jobs("span") ELSE {}
  /\ result' = [i \in Index |->
       IF ~otel THEN keep[i]
       ELSE IF records[i].signal = phase THEN MatchesKept(i) ELSE result[i]]
  /\ UNCHANGED <<batch, task, evaluated, keep, counters, answer>>

-----------------------------------------------------------------------------
(* What the adapters make of the decisions *)

Answered(a) ==
  /\ phase = "returned" /\ answer = NoAnswer
  /\ answer' = a
  /\ UNCHANGED <<batch, phase, jobs, task, evaluated, keep, counters, result>>

\* The numbers of a set in their order: each comes after the smaller ones.
InOrder(S) == [j \in 1..Cardinality(S) |-> CHOOSE i \in S : Cardinality({k \in S : k <= i}) = j]

\* The allowed ones, in the order of the batch.
FilterAllowed(decisions) ==
  [kind |-> "filter", kept |-> InOrder({i \in DOMAIN decisions : decisions[i]})]

FilterLogs == adapter = "datadog logs" /\ Answered(FilterAllowed(result))

FilterMetrics == adapter = "datadog metrics" /\ Answered(FilterAllowed(result))

FilterRecords == adapter = "fluentbit" /\ Answered(FilterAllowed(result))

FilterMessages == adapter = "kafka" /\ Answered(FilterAllowed(result))

\* One status per descriptor, and the overall code of all of them.
CheckRateLimit ==
  /\ adapter = "envoy"
  /\ Answered([kind |-> "envoy", ok |-> \A i \in Index : result[i], statuses |-> result])

CheckAuth ==
  /\ adapter = "ext_authz"
  /\ Answered([kind |-> "auth", ok |-> result[1]])

\* ProcessBatch returns the decisions themselves.
ProcessBatch ==
  /\ adapter \in {"generic", "otel"}
  /\ Answered([kind |-> "decisions", kept |-> result])

Respond ==
  \/ FilterLogs \/ FilterMetrics \/ FilterRecords \/ FilterMessages
  \/ CheckRateLimit \/ CheckAuth \/ ProcessBatch

\* The batch is over.
Finished == answer # NoAnswer /\ UNCHANGED batchVars

-----------------------------------------------------------------------------
WorkerStep(w) == ReceiveJob(w) \/ \E a \in Answer : Evaluate(w, a)

BatchNext == PoolDone \/ Respond \/ Finished \/ \E w \in Worker : WorkerStep(w)

BatchSpec == BatchInit /\ [][BatchNext]_batchVars

-----------------------------------------------------------------------------
(* Properties *)

Pooled == IF otel THEN OfSignal("log") \union OfSignal("span") ELSE Index

\* Every record of the batch is evaluated, and so charged to its limit, exactly
\* once by the time the pool is done, whichever worker took it; and at every
\* moment what the OTEL processor counts as allowed and as dropped adds up to
\* what was evaluated, the allowed ones being the ones kept
\* (provider.go:131-172, processor.go:55-159).
RecordsAccounted ==
  /\ phase = "returned" =>
       \A i \in Index : evaluated[i] = IF i \in Pooled THEN 1 ELSE 0
  /\ otel =>
       LET over == {i \in Pooled : evaluated[i] > 0}
       IN  /\ allowCnt + dropCnt = Cardinality(over)
           /\ allowCnt = Cardinality({i \in over : keep[i]})

\* What an adapter answers is what the evaluations said, whichever worker made
\* them: a record within its limit is never lost; the filters return exactly the
\* allowed ones, in the order of the batch; Envoy is told to stop exactly if one
\* of its descriptors is over its limit
\* (provider.go:129-183, processor.go:197-271, the adapters' Filter and Check
\* functions).
KeptIsReturned ==
  /\ phase = "returned" => \A i \in Pooled : keep[i] => result[i]
  /\ answer.kind = "filter" =>
       /\ Range(answer.kept) = {i \in Index : keep[i]}
       /\ \A j, k \in DOMAIN answer.kept : j < k => answer.kept[j] < answer.kept[k]
  /\ answer.kind \in {"envoy", "auth"} => (answer.ok <=> \A i \in Index : keep[i])

\* A batch is processed as if its records were evaluated one after the other: each
\* one once, with statistics that add up (see RecordsAccounted), and what the call
\* returns is what was let through (see KeptIsReturned), whatever the workers'
\* order (provider.go:129-183, processor.go:55-159, 197-271).
BatchSound == RecordsAccounted /\ KeptIsReturned

\* The call returns: no worker waits for a job, no one waits for a worker.
BatchReturns == <>(answer # NoAnswer)
===============================================================================
