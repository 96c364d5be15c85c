------------------------------ MODULE AuditLog ------------------------------
(***************************************************************************)
(* AsyncAuditLogger (internal/analytics/audit.go): callers put decision    *)
(* records into a buffered channel without waiting, one goroutine writes   *)
(* them to the inner logger, and Close stops it.  Of a record only matters *)
(* whether it was accepted before Close was called ("early") or after.     *)
(*                                                                         *)
(* busy says whether callers go on logging once Close has been called; it  *)
(* never changes.                                                          *)
(***************************************************************************)
EXTENDS Naturals, Sequences, Functions

CONSTANT BufSize

VARIABLES ch, loop, hand, closer, busy

auditVars == <<ch, loop, hand, closer, busy>>

LogRecord == {"early", "late"}
NoRecord == "none"

AuditInit ==
  /\ ch = <<>>
  /\ loop = "select"
  /\ hand = NoRecord
  /\ closer = "open"
  /\ busy \in BOOLEAN

\* Accepted: Log returns nil.
Log ==
  /\ busy \/ closer = "open"
  /\ Len(ch) < BufSize
  /\ ch' = Append(ch, IF closer = "open" THEN "early" ELSE "late")
  /\ UNCHANGED <<loop, hand, closer, busy>>

\* The buffer is full: the record is dropped and Log returns an error.
LogDropped ==
  /\ busy \/ closer = "open"
  /\ Len(ch) = BufSize
  /\ UNCHANGED auditVars

\* close(a.stop); Close is called once.
Close ==
  /\ closer = "open"
  /\ closer' = "waiting"
  /\ UNCHANGED <<ch, loop, hand, busy>>

\* <-a.done, and the inner logger is closed.
CloseReturns ==
  /\ closer = "waiting" /\ loop = "exited"
  /\ closer' = "returned"
  /\ UNCHANGED <<ch, loop, hand, busy>>

-----------------------------------------------------------------------------
(* loop *)

\* case rec := <-a.ch, in the outer loop and in the one that drains.
ReceiveRecord ==
  /\ loop \in {"select", "drain"} /\ ch # <<>>
  /\ hand' = Head(ch)
  /\ ch' = Tail(ch)
  /\ loop' = IF loop = "select" THEN "write" ELSE "drain_write"
  /\ UNCHANGED <<closer, busy>>

\* inner.Log; a failure is logged and the record is gone.
Write ==
  /\ loop \in {"write", "drain_write"}
  /\ hand' = NoRecord
  /\ loop' = IF loop = "write" THEN "select" ELSE "drain"
  /\ UNCHANGED <<ch, closer, busy>>

\* Variant: the loop ends as soon as it sees the stop signal.
ReceiveStop_without_drain ==
  /\ loop = "select" /\ closer # "open"
  /\ loop' = "exited"
  /\ UNCHANGED <<ch, hand, closer, busy>>

\* case <-a.stop: may be chosen while there are records.
ReceiveStop ==
  /\ loop = "select" /\ closer # "open"
  /\ loop' = "drain"
  /\ UNCHANGED <<ch, hand, closer, busy>>

Drained ==
  /\ loop = "drain" /\ ch = <<>>
  /\ loop' = "exited"
  /\ UNCHANGED <<ch, hand, closer, busy>>

-----------------------------------------------------------------------------
AuditLoopStep == ReceiveRecord \/ Write \/ ReceiveStop \/ Drained

AuditNext == Log \/ LogDropped \/ Close \/ CloseReturns \/ AuditLoopStep

AuditSpec == AuditInit /\ [][AuditNext]_auditVars

-----------------------------------------------------------------------------
(* Properties *)

\* Types, and when the goroutine has a record in its hand.
AuditTypeOK ==
  /\ ch \in Seq(LogRecord)
  /\ loop \in {"select", "write", "drain", "drain_write", "exited"}
  /\ hand \in LogRecord \union {NoRecord} /\ closer \in {"open", "waiting", "returned"}
  /\ hand # NoRecord <=> loop \in {"write", "drain_write"}

\* "Close drains remaining records and shuts down." (audit.go:110): every record
\* accepted before Close was called has been handed to the inner logger when
\* Close returns, whatever was logged meanwhile and whichever ready case the
\* goroutine chose.
EarlyRecordsWritten ==
  closer = "returned" => "early" \notin Range(ch) /\ hand = NoRecord

\* When callers stop logging, Close returns (audit.go:111-137).
CloseEnds == closer = "waiting" /\ ~busy ~> closer = "returned"
=============================================================================
