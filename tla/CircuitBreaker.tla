--------------------------- MODULE CircuitBreaker ---------------------------
(***************************************************************************)
(* The circuit breaker of the Redis counter store (internal/store/counter/ *)
(* redis/store.go) under concurrent operations.  Its fields are atomics    *)
(* that are read without the mutex, so every load, store and add is a step *)
(* of its own; mu is held from the first store of a locked section to the  *)
(* last.                                                                   *)
(*                                                                         *)
(* waited stands for the clock: more than halfOpenAfter has passed since   *)
(* openedAt.  It is true at first, since openedAt is the zero time.        *)
(***************************************************************************)
EXTENDS Integers

CONSTANTS Proc, Threshold, MaxProbe, NoProc

VARIABLES state, failures, probeCount, waited, mu, pc, healthy

fields == <<state, failures, probeCount, waited, mu>>
vars == <<fields, pc, healthy>>

Init ==
  /\ state = "closed" /\ failures = 0 /\ probeCount = 0
  /\ waited = TRUE /\ mu = NoProc
  /\ pc = [p \in Proc |-> "idle"]
  /\ healthy \in BOOLEAN

\* The goroutine p moves from one line to another.
Goto(p, from, to) == pc[p] = from /\ pc' = [pc EXCEPT ![p] = to]

\* The same, taking or leaving the mutex on the way.
Lock(p, from, to) == mu = NoProc /\ mu' = p /\ Goto(p, from, to)
Unlock(p, from, to) == mu' = NoProc /\ Goto(p, from, to)

-----------------------------------------------------------------------------
(* Allow *)

LoadState(p) ==
  /\ Goto(p, "idle", CASE state = "closed" -> "call"
                       [] state = "open" -> "checkTime"
                       [] state = "halfOpen" -> "checkProbe")
  /\ UNCHANGED <<fields, healthy>>

CheckTime(p) ==
  /\ Goto(p, "checkTime", IF waited THEN "wantHalf" ELSE "idle")
  /\ UNCHANGED <<fields, healthy>>

CheckProbe(p) ==
  /\ Goto(p, "checkProbe", IF probeCount < MaxProbe THEN "probe" ELSE "idle")
  /\ UNCHANGED <<fields, healthy>>

\* The first store of the transition to half-open, if it is still to be made.
HalfOpen(p) ==
  /\ \/ /\ state = "open"
        /\ Lock(p, "wantHalf", "zeroProbes")
        /\ state' = "halfOpen"
     \/ /\ state # "open"
        /\ mu = NoProc
        /\ Goto(p, "wantHalf", "recheck")
        /\ UNCHANGED <<state, mu>>
  /\ UNCHANGED <<failures, probeCount, waited, healthy>>

ZeroProbes(p) ==
  /\ Unlock(p, "zeroProbes", "recheck")
  /\ probeCount' = 0
  /\ UNCHANGED <<state, failures, waited, healthy>>

Recheck(p) ==
  /\ Goto(p, "recheck", IF state = "halfOpen" THEN "probe" ELSE "idle")
  /\ UNCHANGED <<fields, healthy>>

-----------------------------------------------------------------------------
(* The operation, and RecordSuccess *)

\* The operation fails if and when the backend is not healthy.
Call(p) ==
  /\ \E from \in {"call", "probe"} : Goto(p, from, IF healthy THEN "success" ELSE "failure")
  /\ UNCHANGED <<fields, healthy>>

Success(p) ==
  /\ Goto(p, "success", CASE state = "closed" -> "zeroFailures"
                          [] state = "open" -> "idle"
                          [] state = "halfOpen" -> "addProbe")
  /\ UNCHANGED <<fields, healthy>>

ZeroFailures(p) ==
  /\ Goto(p, "zeroFailures", "idle")
  /\ failures' = 0
  /\ UNCHANGED <<state, probeCount, waited, mu, healthy>>

\* Variant: only the probe after the last one closes the breaker.
AddProbe_off_by_one(p) ==
  /\ probeCount' = probeCount + 1
  /\ Goto(p, "addProbe", IF probeCount + 1 > MaxProbe THEN "wantClosed" ELSE "idle")
  /\ UNCHANGED <<state, failures, waited, mu, healthy>>

AddProbe(p) ==
  /\ probeCount' = probeCount + 1
  /\ Goto(p, "addProbe", IF probeCount + 1 >= MaxProbe THEN "wantClosed" ELSE "idle")
  /\ UNCHANGED <<state, failures, waited, mu, healthy>>

\* Three stores under the mutex: closed, no failures, no probes.
Close(p) ==
  /\ Lock(p, "wantClosed", "closeFailures")
  /\ state' = "closed"
  /\ UNCHANGED <<failures, probeCount, waited, healthy>>

CloseFailures(p) ==
  /\ Goto(p, "closeFailures", "closeProbes")
  /\ failures' = 0
  /\ UNCHANGED <<state, probeCount, waited, mu, healthy>>

CloseProbes(p) ==
  /\ Unlock(p, "closeProbes", "idle")
  /\ probeCount' = 0
  /\ UNCHANGED <<state, failures, waited, healthy>>

-----------------------------------------------------------------------------
(* RecordFailure *)

Failure(p) ==
  /\ Goto(p, "failure", CASE state = "closed" -> "addFailure"
                          [] state = "open" -> "idle"
                          [] state = "halfOpen" -> "wantReopen")
  /\ UNCHANGED <<fields, healthy>>

AddFailure(p) ==
  /\ failures' = failures + 1
  /\ Goto(p, "addFailure", IF failures + 1 >= Threshold THEN "wantOpen" ELSE "idle")
  /\ UNCHANGED <<state, probeCount, waited, mu, healthy>>

Open(p) ==
  /\ \/ /\ state = "closed"
        /\ Lock(p, "wantOpen", "stamp")
        /\ state' = "open"
     \/ /\ state # "closed"
        /\ mu = NoProc
        /\ Goto(p, "wantOpen", "idle")
        /\ UNCHANGED <<state, mu>>
  /\ UNCHANGED <<failures, probeCount, waited, healthy>>

\* openedAt is stored after the state.
Stamp(p) ==
  /\ Unlock(p, "stamp", "idle")
  /\ waited' = FALSE
  /\ UNCHANGED <<state, failures, probeCount, healthy>>

Reopen(p) ==
  /\ Lock(p, "wantReopen", "restamp")
  /\ state' = "open"
  /\ UNCHANGED <<failures, probeCount, waited, healthy>>

Restamp(p) ==
  /\ Goto(p, "restamp", "reopenProbes")
  /\ waited' = FALSE
  /\ UNCHANGED <<state, failures, probeCount, mu, healthy>>

ReopenProbes(p) ==
  /\ Unlock(p, "reopenProbes", "idle")
  /\ probeCount' = 0
  /\ UNCHANGED <<state, failures, waited, healthy>>

-----------------------------------------------------------------------------
\* The steps of Allow, RecordSuccess and RecordFailure.
Guard(p) ==
  \/ LoadState(p) \/ CheckTime(p) \/ CheckProbe(p) \/ HalfOpen(p) \/ ZeroProbes(p) \/ Recheck(p)
  \/ Success(p) \/ ZeroFailures(p) \/ AddProbe(p)
  \/ Close(p) \/ CloseFailures(p) \/ CloseProbes(p)
  \/ Failure(p) \/ AddFailure(p) \/ Open(p) \/ Stamp(p)
  \/ Reopen(p) \/ Restamp(p) \/ ReopenProbes(p)

Step(p) == Guard(p) \/ Call(p)

\* halfOpenAfter goes by.
Wait ==
  /\ ~waited
  /\ waited' = TRUE
  /\ UNCHANGED <<state, failures, probeCount, mu, pc, healthy>>

\* The backend goes down or comes back.
Backend ==
  /\ healthy' = ~healthy
  /\ UNCHANGED <<fields, pc>>

-----------------------------------------------------------------------------
(* Properties *)

Lines == {"idle", "checkTime", "checkProbe", "wantHalf", "zeroProbes", "recheck",
          "call", "probe", "success", "zeroFailures", "addProbe",
          "wantClosed", "closeFailures", "closeProbes",
          "failure", "addFailure", "wantOpen", "stamp",
          "wantReopen", "restamp", "reopenProbes"}

Locked == {"zeroProbes", "closeFailures", "closeProbes", "stamp", "restamp", "reopenProbes"}

\* Types, and that exactly the holder of the mutex is in a locked section.
TypeOK ==
  /\ state \in {"closed", "open", "halfOpen"}
  /\ failures \in Nat /\ probeCount \in Nat
  /\ waited \in BOOLEAN /\ healthy \in BOOLEAN
  /\ pc \in [Proc -> Lines]
  /\ \A p \in Proc : pc[p] \in Locked <=> mu = p

\* Once the backend has recovered, and stays up, the breaker closes for good.
Recovers == <>[]healthy => <>[](state = "closed")
=============================================================================
