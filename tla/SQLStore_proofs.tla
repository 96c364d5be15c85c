-------------------------- MODULE SQLStore_proofs ---------------------------
(***************************************************************************)
(* The SQL counter stores, for any number of transactions: on a row of     *)
(* counters or leases, with any values and any ttl; and on the log of the  *)
(* PostgreSQL store, with any clock readings, costs, limit and window.     *)
(***************************************************************************)
EXTENDS SQLStore, TLAPS

\* The time a prover has for a leaf that names none.
USE SMTT(40), ZenonT(40)

-----------------------------------------------------------------------------
(* Transactions on a row *)

USE DEF clock, history

\* Types of the parts that statements of one row leave alone.
LocalOK ==
  /\ pc \in [Proc -> {"idle", "select", "write", "commit"}]
  /\ at \in [Proc -> 0..now] /\ op \in [Proc -> Operation \union {NoOp}]
  /\ found \in [Proc -> BOOLEAN] /\ cur \in [Proc -> Nat]

\* Who holds the row.
LockOK ==
  /\ \A p \in Proc : lock = p <=> pc[p] = "commit" \/ found[p]
  /\ lock \in Proc \union {NoProc}

\* What a transaction commits is a row.
LEMMA CommittedRow ==
  ASSUME TypeOK, NEW p \in Proc, pc[p] = "commit"
  PROVE  [value |-> NewValue(op[p], cur[p]), expiry |-> expiresAt(at[p])] \in Row
<1>1. at[p] \in Nat /\ cur[p] \in Nat /\ op[p] \in Operation \union {NoOp}
  BY DEF TypeOK
<1>2. expiresAt(at[p]) \in Nat
  BY <1>1, RowsAssumption DEF expiresAt, NoExpiry
<1>3. NewValue(op[p], cur[p]) \in Nat
  <2>1. CASE op[p].kind = "cas"
    <3>1. op[p] \in [kind : {"cas"}, old : Value, new : Value]
      BY <1>1, <2>1 DEF Operation, NoOp
    <3>2. op[p].new \in Value
      BY <3>1
    <3> QED
      BY ZenonT(40), <2>1, <3>2, RowsAssumption DEF NewValue
  <2>2. CASE op[p].kind # "cas"
    BY <1>1, <2>2 DEF NewValue
  <2> QED
    BY <2>1, <2>2
<1> QED
  BY <1>2, <1>3 DEF Row

\* The end of a transaction leaves locals and lock in order.
LEMMA EndTyped ==
  ASSUME TypeOK, NEW p \in Proc, End(p), now' = now
  PROVE  LocalOK' /\ LockOK'
<1>1. LocalOK'
  BY DEF TypeOK, LocalOK, End
<1>2. LockOK'
  BY RowsAssumption DEF TypeOK, LockOK, End
<1> QED
  BY <1>1, <1>2

\* Types and lock discipline, for every value of the constants.
THEOREM TypeCorrect == Spec => []TypeOK
<1>1. Init => TypeOK
  <2> SUFFICES ASSUME Init PROVE TypeOK
    OBVIOUS
  <2>1. now \in Nat /\ granted \in Nat /\ row \in Row \union {Absent}
    BY DEF Init, Row, ZeroItem, NoExpiry
  <2>2. LocalOK /\ LockOK
    BY RowsAssumption DEF Init, LocalOK, LockOK
  <2>3. missed \in BOOLEAN
    BY ZenonT(40) DEF Init
  <2> QED
    BY <2>1, <2>2, <2>3, ZenonT(40) DEF TypeOK, LocalOK, LockOK
<1>2. TypeOK /\ [Next]_vars => TypeOK'
  <2> SUFFICES ASSUME TypeOK, [Next]_vars PROVE TypeOK'
    OBVIOUS
  <2>m. missed' \in BOOLEAN
    <3>1. missed \in BOOLEAN
      BY ZenonT(40) DEF TypeOK
    <3>2. missed' = missed \/ missed' = TRUE
      BY ZenonT(40) DEF Next, Step, Tick, ReleaseLease, Delete, PurgeExpired, Increment, Set, Begin,
                   SelectRow, SelectNone, Refused, Write, Commit, Fails, vars
    <3> QED
      BY <3>1, <3>2, ZenonT(40)
  <2>0. ASSUME LocalOK', LockOK', row' \in Row \union {Absent}, now' \in Nat, granted' \in Nat
        PROVE  TypeOK'
    BY <2>0, <2>m, ZenonT(40) DEF TypeOK, LocalOK, LockOK
  <2>1. CASE Tick
    <3>1. now' \in Nat /\ now <= now'
      BY <2>1 DEF Tick, TypeOK
    <3>2. LocalOK'
      BY <2>1, <3>1 DEF Tick, TypeOK, LocalOK, local
    <3>3. LockOK'
      BY <2>1 DEF Tick, TypeOK, LockOK, local
    <3> QED
      BY <2>0, <2>1, <3>1, <3>2, <3>3 DEF Tick, TypeOK
  <2>2. ASSUME UNCHANGED <<now, lock, local>>,
               row' \in Row \union {Absent}, granted' \in Nat
        PROVE  TypeOK'
    <3>1. LocalOK' /\ LockOK' /\ now' \in Nat
      BY <2>2 DEF TypeOK, LocalOK, LockOK, local
    <3> QED
      BY <2>0, <2>2, <3>1
  <2>3. CASE ReleaseLease
    <3>1. row' \in Row \union {Absent}
      BY <2>3, RowsAssumption DEF ReleaseLease, TypeOK, Row
    <3>2. granted' \in Nat
      BY <2>3 DEF ReleaseLease, TypeOK
    <3> QED
      BY <2>2, <2>3, <3>1, <3>2 DEF ReleaseLease
  <2>4. CASE Delete \/ PurgeExpired
    BY <2>2, <2>4 DEF Delete, PurgeExpired, TypeOK
  <2>5. ASSUME NEW v \in Value, Increment(v) \/ Set(v) PROVE TypeOK'
    <3>1. v \in Nat /\ expiresAt(now) \in Nat
      BY RowsAssumption DEF expiresAt, NoExpiry, TypeOK
    <3>2. row # Absent => row.value \in Nat
      BY DEF TypeOK, Row
    <3>3. row' \in Row
      BY <2>5, <3>1, <3>2 DEF Increment, Set, Row
    <3> QED
      BY <2>2, <2>5, <3>3 DEF Increment, Set, TypeOK
  <2>6. ASSUME NEW p \in Proc, NEW o \in Operation, Begin(p, o) PROVE TypeOK'
    <3>1. LocalOK'
      BY <2>6 DEF Begin, TypeOK, LocalOK
    <3>2. LockOK'
      BY <2>6 DEF Begin, TypeOK, LockOK
    <3> QED
      BY <2>0, <2>6, <3>1, <3>2 DEF Begin, TypeOK
  <2>7. ASSUME NEW p \in Proc, SelectRow(p) PROVE TypeOK'
    <3>1. row.value \in Nat
      BY <2>7 DEF SelectRow, Selected, TypeOK, Row
    <3>2. LocalOK'
      BY <2>7, <3>1 DEF SelectRow, TypeOK, LocalOK
    <3>3. LockOK'
      BY <2>7, RowsAssumption DEF SelectRow, TypeOK, LockOK
    <3> QED
      BY <2>0, <2>7, <3>2, <3>3 DEF SelectRow, TypeOK
  <2>8. ASSUME NEW p \in Proc, SelectNone(p) PROVE TypeOK'
    <3>1. LocalOK' /\ LockOK'
      BY <2>8 DEF SelectNone, TypeOK, LocalOK, LockOK
    <3> QED
      BY <2>0, <2>8, <3>1 DEF SelectNone, TypeOK
  <2>9. ASSUME NEW p \in Proc, Refused(p) PROVE TypeOK'
    BY <2>0, <2>9, EndTyped DEF Refused, TypeOK
  <2>10. ASSUME NEW p \in Proc, Write(p) PROVE TypeOK'
    <3>1. LocalOK'
      BY <2>10 DEF Write, TypeOK, LocalOK
    <3>2. LockOK'
      BY <2>10, RowsAssumption DEF Write, TypeOK, LockOK
    <3> QED
      BY <2>0, <2>10, <3>1, <3>2 DEF Write, TypeOK
  <2>11. ASSUME NEW p \in Proc, Commit(p) PROVE TypeOK'
    <3>1. row' \in Row
      BY <2>11, CommittedRow DEF Commit
    <3>2. LocalOK' /\ LockOK'
      BY <2>11, EndTyped DEF Commit
    <3> QED
      BY <2>0, <2>11, <3>1, <3>2 DEF Commit, TypeOK
  <2>12. ASSUME NEW p \in Proc, Fails(p) PROVE TypeOK'
    <3>1. row' \in Row \union {Absent}
      BY <2>12, CommittedRow DEF Fails, TypeOK
    <3>2. LocalOK' /\ LockOK'
      BY <2>12, EndTyped DEF Fails
    <3> QED
      BY <2>0, <2>12, <3>1, <3>2 DEF Fails, TypeOK
  <2>13. CASE UNCHANGED vars
    BY <2>2, <2>13 DEF vars, TypeOK
  <2> QED
    BY <2>1, <2>3, <2>4, <2>5, <2>6, <2>7, <2>8, <2>9, <2>10, <2>11, <2>12, <2>13
       DEF Next, Step
<1> QED
  BY <1>1, <1>2, PTL DEF Spec

\* A row that a transaction has read under FOR UPDATE is neither changed nor
\* removed before that transaction ends.
THEOREM ReadsAreStable == Spec => []RowReadIsStable
<1>1. Init => RowReadIsStable
  BY DEF Init, RowReadIsStable
<1>2. TypeOK /\ RowReadIsStable /\ [Next]_vars => RowReadIsStable'
  <2> SUFFICES ASSUME TypeOK, RowReadIsStable, [Next]_vars,
                      NEW q \in Proc, found'[q]
               PROVE  row' # Absent /\ row'.value = cur'[q]
    BY DEF RowReadIsStable
  <2>0. ASSUME found[q], row' = row, cur'[q] = cur[q]
        PROVE  row' # Absent /\ row'.value = cur'[q]
    BY <2>0 DEF RowReadIsStable
  <2>1. found[q] => lock = q /\ lock # NoProc
    BY RowsAssumption DEF TypeOK
  <2>2. CASE Tick \/ UNCHANGED vars
    BY <2>0, <2>2 DEF Tick, vars, local
  <2>3. CASE ReleaseLease \/ Delete \/ PurgeExpired
    BY <2>1, <2>3 DEF ReleaseLease, Delete, PurgeExpired, local
  <2>4. ASSUME NEW v \in Value, Increment(v) \/ Set(v)
        PROVE  row' # Absent /\ row'.value = cur'[q]
    BY <2>1, <2>4 DEF Increment, Set, local
  <2>5. ASSUME NEW p \in Proc, NEW o \in Operation, Begin(p, o)
        PROVE  row' # Absent /\ row'.value = cur'[q]
    BY <2>0, <2>5 DEF Begin
  <2>6. ASSUME NEW p \in Proc, SelectRow(p)
        PROVE  row' # Absent /\ row'.value = cur'[q]
    <3>1. CASE q = p
      BY <2>6, <3>1 DEF SelectRow, Selected, TypeOK
    <3>2. CASE q # p
      BY <2>0, <2>6, <3>2 DEF SelectRow, TypeOK
    <3> QED
      BY <3>1, <3>2
  <2>7. ASSUME NEW p \in Proc, SelectNone(p) \/ Write(p)
        PROVE  row' # Absent /\ row'.value = cur'[q]
    BY <2>0, <2>7 DEF SelectNone, Write
  <2>8. ASSUME NEW p \in Proc, Refused(p) \/ Commit(p) \/ Fails(p)
        PROVE  row' # Absent /\ row'.value = cur'[q]
    <3>1. q # p /\ found[q] /\ cur'[q] = cur[q]
      BY <2>8 DEF Refused, Commit, Fails, End, TypeOK
    <3>2. pc[p] # "commit"
      BY <2>1, <3>1 DEF TypeOK
    <3> QED
      BY <2>0, <2>8, <3>1, <3>2 DEF Refused, Commit, Fails
  <2> QED
    BY <2>2, <2>3, <2>4, <2>5, <2>6, <2>7, <2>8 DEF Next, Step
<1> QED
  BY <1>1, <1>2, TypeCorrect, PTL DEF Spec

\* The inductive invariant of the lease limit.  Leases are a matter of their
\* table alone.  Until a transaction has found no row, the row counts every
\* lease that is held, and a transaction about to add one has read a value
\* below the limit, which by RowReadIsStable is still there.
LeaseInv ==
  /\ \A p \in Proc : /\ op[p].kind = "lease" => table = "leases"
                     /\ op[p].kind = "cas" => table = "counters"
                     /\ pc[p] # "idle" => op[p] \in Operation
                     /\ found[p] => pc[p] \in {"write", "commit"}
  /\ table # "leases" => granted = 0
  /\ ~missed => /\ granted <= Limit
                /\ row # Absent => granted <= row.value
                /\ \A p \in Proc : /\ pc[p] \in {"write", "commit"} => found[p]
                                   /\ found[p] /\ op[p].kind = "lease" => cur[p] < Limit

\* A step keeps the invariant.
LEMMA LeaseInvKept ==
  ASSUME TypeOK, RowReadIsStable, LeaseInv, [Next]_vars
  PROVE  LeaseInv'
<1>t. granted \in Nat /\ Limit \in Nat \ {0} /\ (row # Absent => row.value \in Nat)
  BY RowsAssumption DEF TypeOK, Row
<1>1. CASE Tick \/ UNCHANGED vars
  BY <1>1 DEF Tick, vars, local, LeaseInv
<1>2. CASE ReleaseLease
  BY <1>2, <1>t, RowsAssumption DEF ReleaseLease, LeaseInv, local, TypeOK, Row
<1>3. CASE Delete \/ PurgeExpired
  BY <1>3 DEF Delete, PurgeExpired, LeaseInv, local
<1>4. ASSUME NEW v \in Value, Increment(v) \/ Set(v) PROVE LeaseInv'
  <2>1. v \in Nat /\ granted = 0 /\ row'.value \in Nat
    BY <1>4, <1>t, RowsAssumption DEF Increment, Set, LeaseInv
  <2> QED
    BY <1>4, <1>t, <2>1 DEF Increment, Set, LeaseInv, local
<1>5. ASSUME NEW p \in Proc, NEW o \in Operation, Begin(p, o) PROVE LeaseInv'
  <2>1. o.kind \in {"cas", "lease"}
    BY DEF Operation
  <2>2. ~found[p]
    BY <1>5 DEF Begin, LeaseInv
  <2> QED
    BY <1>5, <2>1, <2>2 DEF Begin, LeaseInv, TypeOK
<1>6. ASSUME NEW p \in Proc, SelectRow(p) PROVE LeaseInv'
  BY <1>6, <1>t DEF SelectRow, Accepts, LeaseInv, TypeOK
<1>7. ASSUME NEW p \in Proc, SelectNone(p) PROVE LeaseInv'
  BY <1>7 DEF SelectNone, LeaseInv, TypeOK
<1>8. ASSUME NEW p \in Proc, Write(p) PROVE LeaseInv'
  BY <1>8 DEF Write, LeaseInv, TypeOK
<1>9. ASSUME NEW p \in Proc, Refused(p) \/ (Fails(p) /\ row' = row) PROVE LeaseInv'
  BY <1>9 DEF Refused, Fails, End, NoOp, LeaseInv, TypeOK
<1>10. ASSUME NEW p \in Proc, pc[p] = "commit", End(p), UNCHANGED <<clock, missed>>,
              row' = [value |-> NewValue(op[p], cur[p]), expiry |-> expiresAt(at[p])],
              granted' \in {granted, IF op[p].kind = "lease" THEN granted + 1 ELSE granted}
       PROVE  LeaseInv'
  <2>1. op[p] \in Operation
    BY <1>10 DEF LeaseInv
  <2>2. CASE op[p].kind = "lease"
    <3>1. ~missed => granted <= cur[p] /\ cur[p] < Limit
      BY <1>10, <2>2 DEF LeaseInv, RowReadIsStable
    <3>2. cur[p] \in Nat /\ row'.value = cur[p] + 1 /\ granted' <= granted + 1 /\ granted' \in Nat
      BY <1>10, <1>t, <2>2 DEF NewValue, TypeOK
    <3>3. ~missed => granted' <= Limit /\ granted' <= row'.value
      BY <1>t, <3>1, <3>2
    <3> QED
      BY <1>10, <2>2, <3>3 DEF End, NoOp, LeaseInv, TypeOK
  <2>3. CASE op[p].kind # "lease"
    <3>1. op[p] \in [kind : {"cas"}, old : Value, new : Value]
      BY <2>1, <2>3 DEF Operation
    <3>2. granted = 0 /\ granted' = 0 /\ row'.value \in Nat
      BY ZenonT(40), <1>10, <2>3, <3>1, RowsAssumption DEF LeaseInv, NewValue
    <3> QED
      BY <1>10, <1>t, <3>2 DEF End, NoOp, LeaseInv, TypeOK
  <2> QED
    BY <2>2, <2>3
<1>11. ASSUME NEW p \in Proc, Commit(p) \/ Fails(p) PROVE LeaseInv'
  BY <1>9, <1>10, <1>11 DEF Commit, Fails
<1> QED
  BY <1>1, <1>2, <1>3, <1>4, <1>5, <1>6, <1>7, <1>8, <1>9, <1>11 DEF Next, Step

\* Whatever transactions interleave, fail, release or delete: as long as each
\* has found a live row, no more leases are held than the limit allows.
THEOREM LeasesLimited == Spec => []LeaseLimit
<1>1. Init => LeaseInv
  BY RowsAssumption DEF Init, LeaseInv, NoOp, ZeroItem
<1>2. LeaseInv => LeaseLimit
  BY DEF LeaseInv, LeaseLimit
<1> QED
  BY <1>1, <1>2, LeaseInvKept, TypeCorrect, ReadsAreStable, PTL DEF Spec

-----------------------------------------------------------------------------
(* Transactions on the log *)

\* Trimming a log at a cutoff twice is trimming it once, and what is
\* added after the cutoff stays when the log is trimmed again.
LEMMA TrimFacts ==
  ASSUME NEW l \in [Instant -> Nat], NEW c \in Int
  PROVE  /\ Log!Trimmed(l, c) \in [Instant -> Nat]
         /\ Log!Trimmed(Log!Trimmed(l, c), c) = Log!Trimmed(l, c)
         /\ \A t \in Instant, n \in Nat : t >= c =>
              /\ Log!Added(Log!Trimmed(l, c), t, n) \in [Instant -> Nat]
              /\ Log!Trimmed(Log!Added(Log!Trimmed(l, c), t, n), c) = Log!Added(Log!Trimmed(l, c), t, n)
<1> DEFINE r == Log!Trimmed(l, c)
<1>1. r \in [Instant -> Nat] /\ \A t \in Instant : r[t] = IF t < c THEN 0 ELSE l[t]
  BY DEF Log!Trimmed
<1>2. \A t \in Instant : t \in Int
  BY SQLStoreAssumption
<1>3. Log!Trimmed(r, c) = r
  BY <1>1 DEF Log!Trimmed
<1>4. ASSUME NEW t \in Instant, NEW n \in Nat, t >= c
      PROVE  Log!Added(r, t, n) \in [Instant -> Nat] /\ Log!Trimmed(Log!Added(r, t, n), c) = Log!Added(r, t, n)
  <2> DEFINE a == Log!Added(r, t, n)
  <2>1. /\ a \in [Instant -> Nat] /\ \A u \in Instant \ {t} : a[u] = r[u]
    BY <1>1 DEF Log!Added
  <2>2. \A u \in Instant : u < c => a[u] = 0
    BY <1>1, <1>2, <1>4, <2>1
  <2> HIDE DEF a
  <2>3. Log!Trimmed(a, c) = [u \in Instant |-> IF u < c THEN 0 ELSE a[u]]
    BY <2>1 DEF Log!Trimmed
  <2>4. \A u \in Instant : (IF u < c THEN 0 ELSE a[u]) = a[u]
    BY <2>2
  <2> QED
    BY <2>1, <2>3, <2>4 DEF a
<1> QED
  BY <1>1, <1>3, <1>4

\* A transaction under way has the advisory lock from its count on.
Holding == {"count", "add", "refuse"}

\* With the advisory lock of PostgreSQL, what a transaction has counted is
\* still so when it commits.
LogInv ==
  table = "timestamps" /\ dialect = "postgres" =>
       /\ log \in [Instant -> Nat] /\ at \in [Proc -> Nat] /\ cost \in [Proc -> Nat]
       /\ pc \in [Proc -> Log!Ended \union {"lock"} \union Holding]
       /\ \A p \in Proc : pc[p] \notin Log!Ended => at[p] \in Instant
       /\ \A p \in Proc : pc[p] \in Holding => lock = p
       /\ \A p \in Proc :
            /\ pc[p] = "add" => Log!CountFrom(log, Log!cutoff(p)) + cost[p] <= LogLimit
            /\ pc[p] = "refuse" => ~(Log!CountFrom(log, Log!cutoff(p)) + cost[p] <= LogLimit)

\* No transaction is under way at first.
LEMMA LogInitially == StoreInit => LogInv
<1> SUFFICES ASSUME StoreInit PROVE LogInv
  OBVIOUS
<1>1. log \in [Instant -> Nat]
  BY DEF StoreInit, Log!Init, Log!EmptyLog
<1>2. at \in [Proc -> Nat] /\ cost \in [Proc -> Nat] /\ \A p \in Proc : pc[p] = "idle"
  BY DEF StoreInit, Log!Init
<1>3. pc \in [Proc -> Log!Ended \union {"lock"} \union Holding]
  BY DEF StoreInit, Log!Init, Log!Ended
<1> QED
  BY <1>1, <1>2, <1>3 DEF LogInv, Holding, Log!Ended

\* A behaviour is about one table of one database.
LEMMA TableFixed == ASSUME StoreNext PROVE table' = table /\ dialect' = dialect
<1>1. CASE Next
  <2>1. CASE Tick \/ ReleaseLease \/ Delete \/ PurgeExpired
    BY <2>1 DEF Tick, ReleaseLease, Delete, PurgeExpired, clock
  <2>2. ASSUME NEW v \in Value, Increment(v) \/ Set(v) PROVE UNCHANGED clock
    BY <2>2 DEF Increment, Set
  <2>3. ASSUME NEW p \in Proc, Step(p) \/ Fails(p) \/ \E o \in Operation : Begin(p, o)
        PROVE  UNCHANGED clock
    BY <2>3 DEF Step, SelectRow, SelectNone, Refused, Write, Commit, Fails, Begin
  <2> QED
    BY <1>1, <2>1, <2>2, <2>3 DEF Next, clock
<1>2. CASE UNCHANGED rowData
  BY <1>2 DEF rowData, clock
<1> QED
  BY <1>1, <1>2 DEF StoreNext

-----------------------------------------------------------------------------

\* What a step of a transaction on the log does, by its outcome: it moves p on
\* and leaves the others' local values alone.
LEMMA LogStepKeeps ==
  ASSUME LogInv, table = "timestamps", dialect = "postgres", table' = table, dialect' = dialect,
         NEW p \in Proc,
         \/ Log!Step(p) \/ Log!Fails(p)
         \/ \E t \in Instant, c \in Cost : Log!Begin(p, t, c)
  PROVE  LogInv' /\ \A q \in Proc : Log!Atomic(q)
<1>1. /\ log \in [Instant -> Nat] /\ at \in [Proc -> Nat] /\ cost \in [Proc -> Nat]
      /\ pc \in [Proc -> Log!Ended \union {"lock"} \union Holding]
      /\ pc[p] \notin Log!Ended => at[p] \in Instant
      /\ \A q \in Proc \ {p} : lock \in {p, NoProc} => pc[q] \notin Holding
  BY RowsAssumption DEF LogInv
<1> DEFINE c == Log!cutoff(p)
           r == Log!Trimmed(log, c)
           fits == Log!CountFrom(log, c) + cost[p] <= LogLimit
<1>2. /\ Log!Trimmed(r, c) = r /\ r \in [Instant -> Nat]
      /\ pc[p] = "add" => /\ Log!Added(r, at[p], cost[p]) \in [Instant -> Nat]
                          /\ Log!Trimmed(Log!Added(r, at[p], cost[p]), c) = Log!Added(r, at[p], cost[p])
  <2>1. c \in Int /\ at[p] >= c /\ at[p] \in Nat /\ cost[p] \in Nat
    BY <1>1, SQLStoreAssumption DEF Log!cutoff
  <2>2. pc[p] = "add" => at[p] \in Instant
    BY <1>1 DEF Log!Ended
  <2> HIDE DEF c
  <2> QED
    BY <1>1, <2>1, <2>2, TrimFacts
<1>3. (pc[p] = "add" => fits) /\ (pc[p] = "refuse" => ~fits)
  BY DEF LogInv
<1>4. Log!Rest(p) = {r}
  BY DEF Log!Rest
<1> HIDE DEF c, r, fits
\* The others go on from where they were, with the log as it was if they have
\* counted it.
<1> DEFINE Others == /\ \A q \in Proc \ {p} : pc'[q] = pc[q] /\ at'[q] = at[q] /\ cost'[q] = cost[q]
                     /\ log' = log \/ \A q \in Proc \ {p} : pc[q] \notin Holding
                     /\ \A q \in Proc \ {p} : lock = q => lock' = q
<1>5. ASSUME Others,
             /\ log' \in [Instant -> Nat] /\ at' \in [Proc -> Nat] /\ cost' \in [Proc -> Nat]
             /\ pc' \in [Proc -> Log!Ended \union {"lock"} \union Holding]
             /\ pc'[p] \notin Log!Ended => at'[p] \in Instant
             /\ pc'[p] \in Holding => lock' = p
             /\ pc'[p] = "add" => (Log!CountFrom(log, Log!cutoff(p)) + cost[p] <= LogLimit)'
             /\ pc'[p] = "refuse" => ~(Log!CountFrom(log, Log!cutoff(p)) + cost[p] <= LogLimit)'
      PROVE  LogInv'
  <2> SUFFICES ASSUME NEW q \in Proc
               PROVE  /\ pc'[q] \notin Log!Ended => at'[q] \in Instant
                      /\ pc'[q] \in Holding => lock' = q
                      /\ pc'[q] = "add" => (Log!CountFrom(log, Log!cutoff(q)) + cost[q] <= LogLimit)'
                      /\ pc'[q] = "refuse" => ~(Log!CountFrom(log, Log!cutoff(q)) + cost[q] <= LogLimit)'
    BY <1>5 DEF LogInv
  <2>1. CASE q = p
    BY <1>5, <2>1
  <2>2. CASE q # p
    <3>1. pc'[q] = pc[q] /\ at'[q] = at[q] /\ cost'[q] = cost[q] /\ (pc[q] \in Holding => lock' = q /\ log' = log)
      BY <1>5, <2>2 DEF LogInv
    <3> QED
      BY <3>1 DEF LogInv, Holding, Log!cutoff
  <2> QED
    BY <2>1, <2>2
<1>6. ASSUME \A q \in Proc \ {p} : pc'[q] = pc[q],
             pc'[p] = "allowed" => fits /\ Log!Trimmed(log', c) = Log!Added(r, at[p], cost[p]),
             pc'[p] = "denied" => ~fits /\ Log!Trimmed(log', c) = r
      PROVE  \A q \in Proc : Log!Atomic(q)
  <2>1. Log!Atomic(p)
    BY ZenonT(40), <1>6 DEF Log!Atomic, fits, r, c
  <2>2. ASSUME NEW q \in Proc \ {p} PROVE Log!Atomic(q)
    BY ZenonT(40), <1>6 DEF Log!Atomic
  <2> QED
    BY ZenonT(40), <2>1, <2>2
<1>7. ASSUME NEW t \in Instant, NEW d \in Cost, Log!Begin(p, t, d)
      PROVE  LogInv' /\ \A q \in Proc : Log!Atomic(q)
  <2>1. t \in Nat /\ d \in Nat
    BY SQLStoreAssumption
  <2>2. /\ pc' = [pc EXCEPT ![p] = "lock"] /\ at' = [at EXCEPT ![p] = t]
        /\ cost' = [cost EXCEPT ![p] = d] /\ UNCHANGED <<log, lock>>
    BY <1>7 DEF Log!Begin
  <2>3. Others
    BY <1>1, <2>2
  <2>4. LogInv'
    BY <1>1, <1>5, <2>1, <2>2, <2>3 DEF Holding
  <2>5. \A q \in Proc : Log!Atomic(q)
    BY <1>1, <1>6, <2>2, <2>3
  <2> QED
    BY <2>4, <2>5
<1>8. ASSUME Log!AdvisoryLock(p)
      PROVE  LogInv' /\ \A q \in Proc : Log!Atomic(q)
  <2>1. /\ pc[p] = "lock" /\ lock = NoProc /\ lock' = p /\ pc' = [pc EXCEPT ![p] = "count"]
        /\ UNCHANGED <<log, at, cost>>
    BY <1>8 DEF Log!AdvisoryLock
  <2>2. Others
    BY <1>1, <2>1, RowsAssumption
  <2>3. LogInv'
    BY <1>1, <1>5, <2>1, <2>2 DEF Holding, Log!Ended
  <2>4. \A q \in Proc : Log!Atomic(q)
    BY <1>1, <1>6, <2>1, <2>2
  <2> QED
    BY <2>3, <2>4
<1>9. ASSUME Log!Count(p)
      PROVE  LogInv' /\ \A q \in Proc : Log!Atomic(q)
  <2>1. /\ pc[p] = "count" /\ pc' = [pc EXCEPT ![p] = IF fits THEN "add" ELSE "refuse"]
        /\ UNCHANGED <<log, lock, at, cost>>
    BY <1>9 DEF Log!Count, fits, c
  <2>2. Others /\ lock = p
    BY <1>1, <2>1 DEF LogInv, Holding
  <2>3. (Log!CountFrom(log, Log!cutoff(p)) + cost[p] <= LogLimit)' <=> fits
    BY <2>1 DEF fits, c, Log!cutoff
  <2>4. LogInv'
    BY <1>1, <1>5, <2>1, <2>2, <2>3 DEF Holding, Log!Ended
  <2>5. \A q \in Proc : Log!Atomic(q)
    BY <1>1, <1>6, <2>1, <2>2
  <2> QED
    BY <2>4, <2>5
<1>10. ASSUME NEW d \in {"allowed", "denied", "error"}, Log!End(p, d),
              \/ log' = log
              \/ pc[p] \in Holding /\ log' \in [Instant -> Nat]
       PROVE  LogInv' /\ Others
  <2>1. /\ pc' = [pc EXCEPT ![p] = d] /\ at' = [at EXCEPT ![p] = 0] /\ cost' = [cost EXCEPT ![p] = 0]
        /\ lock' = IF lock = p THEN NoProc ELSE lock
    BY <1>10 DEF Log!End
  <2>2. pc[p] \in Holding => lock = p
    BY DEF LogInv
  <2>3. Others
    BY <1>1, <1>10, <2>1, <2>2
  <2>4. LogInv'
    BY <1>1, <1>5, <1>10, <2>1, <2>3 DEF Holding, Log!Ended
  <2> QED
    BY <2>3, <2>4
<1>11. ASSUME Log!Commit(p)
       PROVE  LogInv' /\ \A q \in Proc : Log!Atomic(q)
  <2>1. CASE pc[p] = "add" /\ log' = Log!Added(r, at[p], cost[p]) /\ Log!End(p, "allowed")
    <3>1. LogInv' /\ Others
      BY <1>2, <1>10, <2>1 DEF Holding
    <3>2. pc'[p] = "allowed"
      BY <1>1, <2>1 DEF Log!End
    <3>3. \A q \in Proc : Log!Atomic(q)
      BY <1>2, <1>3, <1>6, <2>1, <3>1, <3>2
    <3> QED
      BY <3>1, <3>3
  <2>2. CASE pc[p] = "refuse" /\ log' = r /\ Log!End(p, "denied")
    <3>1. LogInv' /\ Others
      BY <1>2, <1>10, <2>2 DEF Holding
    <3>2. pc'[p] = "denied"
      BY <1>1, <2>2 DEF Log!End
    <3>3. \A q \in Proc : Log!Atomic(q)
      BY <1>2, <1>3, <1>6, <2>2, <3>1, <3>2
    <3> QED
      BY <3>1, <3>3
  <2> QED
    BY <1>4, <1>11, <2>1, <2>2 DEF Log!Commit
<1>12. ASSUME Log!Fails(p)
       PROVE  LogInv' /\ \A q \in Proc : Log!Atomic(q)
  <2>1. Log!End(p, "error") /\ (log' = log \/ (pc[p] = "add" /\ log' = Log!Added(r, at[p], cost[p])))
    BY <1>4, <1>12 DEF Log!Fails
  <2>2. LogInv' /\ Others
    BY <1>2, <1>10, <2>1 DEF Holding
  <2>3. pc'[p] = "error"
    BY <1>1, <2>1 DEF Log!End
  <2>4. \A q \in Proc : Log!Atomic(q)
    BY <1>6, <2>2, <2>3
  <2> QED
    BY <2>2, <2>4
<1> QED
  BY <1>7, <1>8, <1>9, <1>11, <1>12 DEF Log!Step

\* Every step keeps the invariant and is atomic for the transactions it ends.
LEMMA StoreStepKeeps ==
  ASSUME LogInv, StoreNext
  PROVE  /\ LogInv'
         /\ table = "timestamps" /\ dialect = "postgres" => \A p \in Proc : Log!Atomic(p)
<1>1. table' = table /\ dialect' = dialect
  BY TableFixed
<1>2. CASE table = "timestamps" /\ dialect = "postgres"
  <2>1. Log!Next
    BY <1>2 DEF StoreNext
  <2>2. PICK p \in Proc : \/ Log!Step(p) \/ Log!Fails(p)
                          \/ \E t \in Instant, c \in Cost : Log!Begin(p, t, c)
    BY ZenonT(40), <2>1 DEF Log!Next
  <2> QED
    BY <1>1, <1>2, <2>2, LogStepKeeps
<1>3. CASE ~(table = "timestamps" /\ dialect = "postgres")
  BY <1>1, <1>3 DEF LogInv
<1> QED
  BY <1>2, <1>3

\* CheckAndAddTimestamps of the PostgreSQL store (postgres/store.go:238-279) is
\* atomic: it answers and leaves behind what one step at its commit would, for
\* any number of transactions, any clock readings, costs, limit and window.
THEOREM LogCallsAtomic == StoreSpec => CheckAndAddAtomic
<1>1. LogInv /\ [StoreNext]_storeVars => LogInv'
  <2> SUFFICES ASSUME LogInv, [StoreNext]_storeVars PROVE LogInv'
    OBVIOUS
  <2>1. CASE StoreNext
    BY <2>1, StoreStepKeeps
  <2>2. CASE UNCHANGED storeVars
    BY <2>2 DEF storeVars, vars, clock, local, logData, LogInv, Log!cutoff
  <2> QED
    BY <2>1, <2>2
<1>2. LogInv /\ [StoreNext]_storeVars =>
        [table = "timestamps" /\ dialect = "postgres" => \A p \in Proc : Log!Atomic(p)]_storeVars
  BY StoreStepKeeps
<1> QED
  BY <1>1, <1>2, LogInitially, PTL DEF StoreSpec, CheckAndAddAtomic
=============================================================================
