------------------------------ MODULE SQLStore ------------------------------
(***************************************************************************)
(* The three tables of the SQL counter stores (postgres and oracle) under  *)
(* concurrent transactions.  No transaction touches two of them, so each   *)
(* behaviour is about one: rlaas_counters or rlaas_leases (SQLRows), or    *)
(* rlaas_timestamps (SQLLog).                                              *)
(***************************************************************************)
EXTENDS SQLRows

CONSTANTS Cost, Window, Instant, LogLimit, MaxEntries

ASSUME SQLStoreAssumption ==
  /\ LogLimit \in Nat /\ Cost \subseteq Nat \ {0} /\ Window \in Nat
  /\ Instant \subseteq Nat \ {0} /\ MaxEntries \in Nat

VARIABLES log, cost, snapshot

Log == INSTANCE SQLLog WITH Limit <- LogLimit, advisory <- (dialect = "postgres")

logData == <<log, cost, snapshot>>
rowData == <<clock, row, op, found, cur, history>>
storeVars == <<vars, logData>>

StoreInit == Init /\ Log!Init

StoreNext ==
  \/ table # "timestamps" /\ Next /\ UNCHANGED logData
  \/ table = "timestamps" /\ Log!Next /\ UNCHANGED rowData

StoreStep(p) ==
  \/ table # "timestamps" /\ Step(p) /\ UNCHANGED logData
  \/ table = "timestamps" /\ Log!Step(p) /\ UNCHANGED rowData

\* Statements return, and the database does not starve a waiting transaction.
StoreSpec ==
  /\ StoreInit /\ [][StoreNext]_storeVars
  /\ \A p \in Proc : SF_storeVars(StoreStep(p))

-----------------------------------------------------------------------------
(* Properties, besides RowReadIsStable and LeaseLimit of SQLRows *)

\* The transaction of the PostgreSQL store "atomically trims, counts, checks
\* limit, and adds timestamps" (postgres/store.go:238), however transactions
\* interleave and whatever clock readings they come with: it answers and
\* leaves behind what one atomic step at its commit would.
CheckAndAddAtomic ==
  [][table = "timestamps" /\ dialect = "postgres" => \A p \in Proc : Log!Atomic(p)]_storeVars

\* Every transaction ends: none waits for a row, or a key's advisory lock,
\* that nobody gives back.
TransactionsEnd == \A p \in Proc : pc[p] \notin Log!Ended ~> pc[p] \in Log!Ended
=============================================================================
