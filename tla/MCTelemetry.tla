----------------------------- MODULE MCTelemetry -----------------------------
(***************************************************************************)
(* The parts that handle telemetry, for TLC: the batch processors          *)
(* (TelemetryBatch), the audit log (AuditLog), the metrics collector       *)
(* (Metrics), the analytics recorder (Analytics) and the broker that feeds *)
(* it (InvalidationBroker).  They share no state, so each behaviour is     *)
(* about one of them: part says which.                                     *)
(***************************************************************************)
EXTENDS AuditLog, TelemetryBatch, Metrics, Analytics, InvalidationBroker

VARIABLE part

mcVars == <<auditVars, batchVars, metricsVars, analyticsVars, brokerVars, part>>

\* A tenant with and without a policy, and a denied request that took long.
MCDecision ==
  LET x == CHOOSE id \in Id : TRUE
      y == CHOOSE id \in Id \ {x} : TRUE
  IN  { [tenant |-> x, policy |-> NoId, allowed |-> TRUE, bucket |-> 1],
        [tenant |-> y, policy |-> x, allowed |-> TRUE, bucket |-> 2],
        [tenant |-> x, policy |-> y, allowed |-> FALSE, bucket |-> Bound + 1] }

MCInit ==
  /\ part \in {"batch", "audit", "collector", "recorder", "broker"}
  /\ AuditInit /\ BatchInit /\ MetricsInit /\ AnalyticsInit /\ BrokerInit
  /\ part # "batch" => adapter = "generic" /\ FailOpen /\ records = <<>>
  /\ part # "audit" => ~busy
  /\ part # "broker" => ~distributed

MCNext ==
  \/ /\ part = "batch" /\ BatchNext
     /\ UNCHANGED <<auditVars, metricsVars, analyticsVars, brokerVars, part>>
  \/ /\ part = "audit" /\ AuditNext
     /\ UNCHANGED <<batchVars, metricsVars, analyticsVars, brokerVars, part>>
  \/ /\ part = "collector" /\ MetricsNext
     /\ UNCHANGED <<auditVars, batchVars, analyticsVars, brokerVars, part>>
  \/ /\ part = "recorder" /\ AnalyticsNext
     /\ UNCHANGED <<auditVars, batchVars, metricsVars, brokerVars, part>>
  \/ /\ part = "broker" /\ BrokerNext
     /\ UNCHANGED <<auditVars, batchVars, metricsVars, analyticsVars, part>>

\* The evaluator, the inner logger and the callbacks return, and goroutines that
\* can run do.
MCSpec ==
  /\ MCInit /\ [][MCNext]_mcVars
  /\ WF_batchVars(part = "batch" /\ (PoolDone \/ Respond))
  /\ \A w \in Worker : WF_batchVars(part = "batch" /\ WorkerStep(w))
  /\ WF_auditVars(part = "audit" /\ AuditLoopStep)
  /\ WF_auditVars(part = "audit" /\ CloseReturns)
  /\ WF_brokerVars(part = "broker" /\ ReceiveLoopStep)

-----------------------------------------------------------------------------
(* Properties of several parts *)

\* A batch is answered (see BatchReturns), Close of the audit log returns once the
\* callers stop logging (see CloseEnds), and the broker hands on what arrives until
\* it is stopped, and then ends (see BrokerLive).
CallsEnd == (part = "batch" => BatchReturns) /\ CloseEnds /\ BrokerLive
=============================================================================
