------------------------------- MODULE SQLLog -------------------------------
(***************************************************************************)
(* CheckAndAddTimestamps of the SQL counter stores for one key: a          *)
(* transaction that deletes the log entries before the cutoff, counts the  *)
(* rest, and inserts the request's own if they fit.                        *)
(*                                                                         *)
(* The PostgreSQL store first takes an advisory lock of the key, and each  *)
(* statement sees what is committed (advisory).  The Oracle store takes no *)
(* lock; its isolation level is serializable, which in Oracle means that   *)
(* the transaction reads a snapshot of its start, and a statement that     *)
(* would change a row changed since then fails.                            *)
(*                                                                         *)
(* Instants are clock readings; an evaluation may have been held up since, *)
(* so they come in any order.                                              *)
(***************************************************************************)
EXTENDS CounterItems

CONSTANTS Proc, NoProc, Limit, Cost, Window, Instant,
          MaxEntries    \* bound of the log

VARIABLES advisory, log, lock, pc, at, cost, snapshot

local == <<pc, at, cost, snapshot>>
vars == <<log, lock, local>>

cutoff(p) == at[p] - Window

Init ==
  /\ log = EmptyLog(Instant)
  /\ lock = NoProc
  /\ pc = [p \in Proc |-> "idle"]
  /\ at = [p \in Proc |-> 0]
  /\ cost = [p \in Proc |-> 0]
  /\ snapshot = [p \in Proc |-> EmptyLog(Instant)]

Ended == {"idle", "allowed", "denied", "error"}

Begin(p, t, c) ==
  /\ pc[p] \in Ended
  /\ CountFrom(log, 0) < MaxEntries
  /\ pc' = [pc EXCEPT ![p] = IF advisory THEN "lock" ELSE "count"]
  /\ at' = [at EXCEPT ![p] = t]
  /\ cost' = [cost EXCEPT ![p] = c]
  /\ snapshot' = [snapshot EXCEPT ![p] = log]
  /\ UNCHANGED <<log, lock>>

\* Commit or rollback, which gives the advisory lock back.
End(p, d) ==
  /\ lock' = IF lock = p THEN NoProc ELSE lock
  /\ pc' = [pc EXCEPT ![p] = d]
  /\ at' = [at EXCEPT ![p] = 0]
  /\ cost' = [cost EXCEPT ![p] = 0]
  /\ snapshot' = [snapshot EXCEPT ![p] = EmptyLog(Instant)]

\* Variant: the lock is given back at once (a transaction of its own).
AdvisoryLock_own_transaction(p) ==
  /\ pc[p] = "lock" /\ lock = NoProc
  /\ pc' = [pc EXCEPT ![p] = "count"]
  /\ UNCHANGED <<log, lock, at, cost, snapshot>>

\* pg_advisory_xact_lock
AdvisoryLock(p) ==
  /\ pc[p] = "lock" /\ lock = NoProc
  /\ lock' = p
  /\ pc' = [pc EXCEPT ![p] = "count"]
  /\ UNCHANGED <<log, at, cost, snapshot>>

\* DELETE and SELECT COUNT.  Others see the deletion when it is committed.
Count(p) ==
  LET seen == IF advisory THEN log ELSE snapshot[p]
  IN  /\ pc[p] = "count"
      /\ pc' = [pc EXCEPT ![p] =
                  IF CountFrom(seen, cutoff(p)) + cost[p] <= Limit THEN "add" ELSE "refuse"]
      /\ UNCHANGED <<log, lock, at, cost, snapshot>>

\* The log without the deleted entries.  On a snapshot the DELETE may have
\* failed, because another transaction deleted one of them; the code goes on.
Rest(p) == {Trimmed(log, cutoff(p))} \union IF advisory THEN {} ELSE {log}

\* The inserts and the commit, or the commit of the deletion alone.
Commit(p) ==
  \E rest \in Rest(p) :
    \/ /\ pc[p] = "add"
       /\ log' = Added(rest, at[p], cost[p])
       /\ End(p, "allowed")
    \/ /\ pc[p] = "refuse"
       /\ log' = rest
       /\ End(p, "denied")

\* A statement or the commit fails.  A failed commit may have been made.
Fails(p) ==
  /\ pc[p] \notin Ended
  /\ \/ log' = log
     \/ pc[p] = "add" /\ \E rest \in Rest(p) : log' = Added(rest, at[p], cost[p])
  /\ End(p, "error")

Step(p) == AdvisoryLock(p) \/ Count(p) \/ Commit(p)

Next ==
  \E p \in Proc : \/ Step(p) \/ Fails(p)
                  \/ \E t \in Instant, c \in Cost : Begin(p, t, c)

-----------------------------------------------------------------------------
(* Properties *)

\* Types, and that between the lock and the commit exactly its holder runs.
TypeOK ==
  /\ log \in [Instant -> Nat]
  /\ lock \in Proc \union {NoProc}
  /\ pc \in [Proc -> Ended \union {"lock", "count", "add", "refuse"}]
  /\ at \in [Proc -> Nat] /\ cost \in [Proc -> Nat]
  /\ snapshot \in [Proc -> [Instant -> Nat]]
  /\ advisory => \A p \in Proc : pc[p] \in {"count", "add", "refuse"} <=> lock = p

\* What the transaction of p does as one atomic step, made when it commits:
\* what CheckAndAddTimestamps of the memory store would answer at that moment,
\* with the same entries left behind from the cutoff on.
Atomic(p) ==
  LET rest == Trimmed(log, cutoff(p))
      fits == CountFrom(log, cutoff(p)) + cost[p] <= Limit
  IN  /\ pc'[p] = "allowed" /\ pc[p] # "allowed" =>
           fits /\ Trimmed(log', cutoff(p)) = Added(rest, at[p], cost[p])
      /\ pc'[p] = "denied" /\ pc[p] # "denied" =>
           ~fits /\ Trimmed(log', cutoff(p)) = rest
=============================================================================
