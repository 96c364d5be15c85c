------------------------------- MODULE SQLRows -------------------------------
(***************************************************************************)
(* One key of the SQL counter stores (internal/store/counter/postgres and  *)
(* oracle): its row in rlaas_counters or in rlaas_leases.  CompareAndSwap  *)
(* and AcquireLease are transactions of three statements, SELECT ... FOR   *)
(* UPDATE, a write, and the commit; the other operations are one statement *)
(* each.  What the database does is taken from its READ COMMITTED level: a *)
(* statement sees committed rows, a writer holds the row (or the key it    *)
(* has inserted) until it commits, other writers of it wait, and FOR       *)
(* UPDATE locks the rows it returns, so none if it returns none.           *)
(*                                                                         *)
(* The two databases differ in NOW(): in PostgreSQL it is the start of the *)
(* transaction.                                                            *)
(*                                                                         *)
(* History variables: granted is the number of leases that callers hold,   *)
(* and missed says that some transaction has found no live row.            *)
(***************************************************************************)
EXTENDS CounterItems

CONSTANTS Proc, NoProc, Absent, Value, TTL, Limit, MaxTime, MaxValue,
          MaxHeld       \* leases held when no further caller comes

ASSUME RowsAssumption ==
  /\ NoProc \notin Proc
  /\ Absent \notin [value : Nat, expiry : Nat]
  /\ Value \subseteq Nat /\ TTL \in Nat /\ Limit \in Nat \ {0}
  /\ MaxTime \in Nat /\ MaxValue \in Nat /\ MaxHeld \in Nat

VARIABLES table, dialect, now, row, lock, pc, at, op, found, cur, granted, missed

\* A transaction: where it is, when it began, its operation, and whether it
\* has found a row, with which value.
local == <<pc, at, op, found, cur>>
history == <<granted, missed>>
clock == <<now, table, dialect>>
vars == <<clock, row, lock, local, history>>

Row == [value : Nat, expiry : Nat]

\* CompareAndSwap(old, new), or AcquireLease: whether the operation goes on
\* from the value it has found, and what it writes.
Operation == [kind : {"cas"}, old : Value, new : Value] \union [kind : {"lease"}]
NoOp == [kind |-> "none"]

Accepts(o, v) == IF o.kind = "cas" THEN v = o.old ELSE v < Limit
NewValue(o, v) == IF o.kind = "cas" THEN o.new ELSE v + 1

\* expiresAt: a ttl of 0 stands for no expiry, NULL.
expiresAt(t) == IF TTL > 0 THEN t + TTL ELSE NoExpiry

Init ==
  /\ table \in {"counters", "leases", "timestamps"}
  /\ dialect \in {"postgres", "oracle"}
  /\ now = 1
  /\ row \in {ZeroItem, Absent}
  /\ lock = NoProc
  /\ pc = [p \in Proc |-> "idle"]
  /\ at = [p \in Proc |-> 0]
  /\ op = [p \in Proc |-> NoOp]
  /\ found = [p \in Proc |-> FALSE]
  /\ cur = [p \in Proc |-> 0]
  /\ granted = 0 /\ missed = FALSE

Tick ==
  /\ now < MaxTime
  /\ now' = now + 1
  /\ UNCHANGED <<table, dialect, row, lock, local, history>>

-----------------------------------------------------------------------------
(* The transactions *)

Begin(p, o) ==
  /\ pc[p] = "idle"
  /\ table = IF o.kind = "cas" THEN "counters" ELSE "leases"
  /\ granted < MaxHeld
  /\ pc' = [pc EXCEPT ![p] = "select"]
  /\ at' = [at EXCEPT ![p] = now]
  /\ op' = [op EXCEPT ![p] = o]
  /\ UNCHANGED <<clock, row, lock, found, cur, history>>

\* The transaction is over, by commit or rollback; free if it held the row.
End(p) ==
  /\ lock' = IF lock = p THEN NoProc ELSE lock
  /\ pc' = [pc EXCEPT ![p] = "idle"]
  /\ at' = [at EXCEPT ![p] = 0]
  /\ op' = [op EXCEPT ![p] = NoOp]
  /\ found' = [found EXCEPT ![p] = FALSE]
  /\ cur' = [cur EXCEPT ![p] = 0]

\* expires_at IS NULL OR expires_at >= NOW()
Selected(p) == row # Absent /\ ~Expired(row, IF dialect = "postgres" THEN at[p] ELSE now)

\* Variant: SELECT without FOR UPDATE.
SelectRow_unlocked(p) ==
  /\ pc[p] = "select"
  /\ Selected(p) /\ Accepts(op[p], row.value)
  /\ pc' = [pc EXCEPT ![p] = "write"]
  /\ found' = [found EXCEPT ![p] = TRUE]
  /\ cur' = [cur EXCEPT ![p] = row.value]
  /\ UNCHANGED <<clock, row, lock, at, op, history>>

\* The row is there, and is locked as soon as nobody else holds it.
SelectRow(p) ==
  /\ pc[p] = "select"
  /\ Selected(p) /\ lock = NoProc
  /\ Accepts(op[p], row.value)
  /\ lock' = p
  /\ pc' = [pc EXCEPT ![p] = "write"]
  /\ found' = [found EXCEPT ![p] = TRUE]
  /\ cur' = [cur EXCEPT ![p] = row.value]
  /\ UNCHANGED <<clock, row, at, op, history>>

\* sql.ErrNoRows: nothing is locked, and the value counts as 0.
SelectNone(p) ==
  /\ pc[p] = "select"
  /\ ~Selected(p)
  /\ Accepts(op[p], 0)
  /\ pc' = [pc EXCEPT ![p] = "write"]
  /\ missed' = TRUE
  /\ UNCHANGED <<clock, row, lock, at, op, found, cur, granted>>

\* Variant: returns without the deferred rollback.
Refused_keeps_transaction(p) ==
  /\ pc[p] = "select"
  /\ Selected(p) /\ lock = NoProc /\ ~Accepts(op[p], row.value)
  /\ lock' = p
  /\ pc' = [pc EXCEPT ![p] = "idle"]
  /\ UNCHANGED <<clock, row, at, op, found, cur, history>>

\* Not the old value, or no slot left: rolled back.
Refused(p) ==
  /\ pc[p] = "select"
  /\ \/ Selected(p) /\ lock = NoProc /\ ~Accepts(op[p], row.value)
     \/ ~Selected(p) /\ ~Accepts(op[p], 0)
  /\ End(p)
  /\ UNCHANGED <<clock, row, history>>

\* UPDATE, or INSERT ... ON CONFLICT DO UPDATE: waits for the row.  Others see
\* what it wrote when it is committed.
Write(p) ==
  /\ pc[p] = "write"
  /\ lock \in {NoProc, p}
  /\ lock' = p
  /\ pc' = [pc EXCEPT ![p] = "commit"]
  /\ UNCHANGED <<clock, row, at, op, found, cur, history>>

Commit(p) ==
  /\ pc[p] = "commit"
  /\ row' = [value |-> NewValue(op[p], cur[p]), expiry |-> expiresAt(at[p])]
  /\ granted' = IF op[p].kind = "lease" THEN granted + 1 ELSE granted
  /\ End(p)
  /\ UNCHANGED <<clock, missed>>

\* A statement fails, and the transaction is rolled back.  A commit that
\* fails may have been made; its caller is told that it was not.
Fails(p) ==
  /\ pc[p] # "idle"
  /\ End(p)
  /\ \/ row' = row
     \/ /\ pc[p] = "commit"
        /\ row' = [value |-> NewValue(op[p], cur[p]), expiry |-> expiresAt(at[p])]
  /\ UNCHANGED <<clock, history>>

-----------------------------------------------------------------------------
(* Operations of one statement *)

Increment(v) ==
  /\ table = "counters" /\ lock = NoProc
  /\ LET base == IF row = Absent \/ Expired(row, now) THEN 0 ELSE row.value
     IN  base + v <= MaxValue /\ row' = [value |-> base + v, expiry |-> expiresAt(now)]
  /\ UNCHANGED <<clock, lock, local, history>>

Set(v) ==
  /\ table = "counters" /\ lock = NoProc
  /\ row' = [value |-> v, expiry |-> expiresAt(now)]
  /\ UNCHANGED <<clock, lock, local, history>>

\* Called once for every lease that is held.  Does not look at the expiry.
ReleaseLease ==
  /\ table = "leases" /\ lock = NoProc
  /\ granted > 0
  /\ granted' = granted - 1
  /\ row' = IF row # Absent /\ row.value > 0 THEN [row EXCEPT !.value = @ - 1] ELSE row
  /\ UNCHANGED <<clock, lock, local, missed>>

Delete ==
  /\ lock = NoProc
  /\ row' = Absent
  /\ UNCHANGED <<clock, lock, local, history>>

PurgeExpired ==
  /\ row # Absent /\ Expired(row, now) /\ lock = NoProc
  /\ row' = Absent
  /\ UNCHANGED <<clock, lock, local, history>>

-----------------------------------------------------------------------------
Step(p) == SelectRow(p) \/ SelectNone(p) \/ Refused(p) \/ Write(p) \/ Commit(p)

Next ==
  \/ Tick \/ ReleaseLease \/ Delete \/ PurgeExpired
  \/ \E v \in Value : Increment(v) \/ Set(v)
  \/ \E p \in Proc : Step(p) \/ Fails(p) \/ \E o \in Operation : Begin(p, o)

Spec == Init /\ [][Next]_vars

-----------------------------------------------------------------------------
(* Properties *)

\* Types, and that exactly the transactions that have locked or written the
\* row hold it.
TypeOK ==
  /\ now \in Nat /\ granted \in Nat /\ missed \in BOOLEAN
  /\ row \in Row \union {Absent}
  /\ pc \in [Proc -> {"idle", "select", "write", "commit"}]
  /\ at \in [Proc -> 0..now] /\ op \in [Proc -> Operation \union {NoOp}]
  /\ found \in [Proc -> BOOLEAN] /\ cur \in [Proc -> Nat]
  /\ \A p \in Proc : lock = p <=> pc[p] = "commit" \/ found[p]
  /\ lock \in Proc \union {NoProc}

\* What a transaction found under FOR UPDATE is still there when it commits:
\* whatever other transactions, releases, deletes or purges run, the value it
\* replaces is the one it has read (postgres/store.go:154-188, 297-320).
RowReadIsStable ==
  \A p \in Proc : found[p] => row # Absent /\ row.value = cur[p]

\* AcquireLease "reserves one concurrency slot" (postgres/store.go:284): as
\* long as every transaction has found a live row, no more leases are held
\* than the limit allows, whatever fails, is released or deleted in between.
LeaseLimit == ~missed => granted <= Limit
=============================================================================
