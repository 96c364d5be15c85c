------------------------ MODULE DecisionSync_proofs -------------------------
(***************************************************************************)
(* What the decisions of the engine promise whatever the policies, the     *)
(* requests and the number of requests under way: which policy decides a   *)
(* request does not depend on the order of the list, the requests it       *)
(* decides share one counter, a slot comes with its release, and the       *)
(* surfaces agree. A list has a policy that no other one beats, by         *)
(* induction on its length, so the winner is one of the policies that      *)
(* match.                                                                  *)
(*                                                                         *)
(* For any number of handlers, workers and agents and any capacity of the  *)
(* queues, an agent never loses an invalidation it has received, and the   *)
(* server process with its shutdowns and restarts implements PolicySync.   *)
(* No definition of one is used in the proofs of the other.                *)
(***************************************************************************)
EXTENDS Decision, ServerProcess, SumTheorems

\* The time a prover has for a leaf that names none.
USE SMTT(40), ZenonT(40)

-----------------------------------------------------------------------------
(* The decision *)

-----------------------------------------------------------------------------
(* The matcher *)

\* The sequences of policies that can be sorted.
Sortable(list) ==
  /\ list \in Seq(Policy)
  /\ \A i \in DOMAIN list : list[i].id \in Nat /\ list[i].priority \in Int

\* The lists of the store are such sequences, and so is the list of any of
\* their policies.
LEMMA ListsSortable ==
  ASSUME NEW list \in Seq(Policy)
  PROVE  Sortable(list) /\ \A i \in DOMAIN list : list[i] # NoPolicy
<1>1. \A p \in Policy : p.id \in Nat /\ p.priority \in Int /\ p # NoPolicy
  BY DecisionAssumption DEF Policy
<1>2. \A i \in DOMAIN list : list[i] \in Policy
  OBVIOUS
<1> QED
  BY <1>1, <1>2 DEF Sortable

\* A score is a natural number.
LEMMA ScoreType ==
  ASSUME NEW p
  PROVE  specificityScore(p) \in Nat
<1>1. IsFiniteSet(Scoped(p) \ Tag) /\ IsFiniteSet(Scoped(p) \intersect Tag)
  BY DecisionAssumption, CardSubset DEF Scoped
<1> QED
  BY <1>1, CardType DEF specificityScore

\* The sort compares like an order (matcher.go:45-73).
LEMMA BeforeOrder ==
  ASSUME NEW list, Sortable(list)
  PROVE  /\ \A i \in DOMAIN list : ~Before(list[i], list[i])
         /\ \A i, j, k \in DOMAIN list :
              Before(list[i], list[j]) /\ Before(list[j], list[k]) => Before(list[i], list[k])
         /\ \A i, j \in DOMAIN list :
              Before(list[i], list[j]) \/ Before(list[j], list[i]) \/ list[i].id = list[j].id
<1>1. \A i \in DOMAIN list : /\ specificityScore(list[i]) \in Int
                             /\ list[i].priority \in Int /\ list[i].id \in Int
  <2>1. \A i \in DOMAIN list : specificityScore(list[i]) \in Nat
    BY ZenonT(40), ScoreType
  <2>. QED  BY <2>1 DEF Sortable
<1>2. \A i \in DOMAIN list : ~Before(list[i], list[i])
  BY <1>1 DEF Before
<1>3. ASSUME NEW i \in DOMAIN list, NEW j \in DOMAIN list, NEW k \in DOMAIN list,
             Before(list[i], list[j]), Before(list[j], list[k])
      PROVE  Before(list[i], list[k])
  BY <1>1, <1>3 DEF Before
<1>4. ASSUME NEW i \in DOMAIN list, NEW j \in DOMAIN list
      PROVE  Before(list[i], list[j]) \/ Before(list[j], list[i]) \/ list[i].id = list[j].id
  BY <1>1 DEF Before
<1>. QED  BY ZenonT(40), <1>2, <1>3, <1>4

\* The indices of I whose policies no policy of I comes before.
Unbeaten(list, I) == {i \in I : \A j \in I : ~Before(list[j], list[i])}

\* Among some policies of a list there is one that no other comes before.
LEMMA UnbeatenExists ==
  ASSUME NEW list, Sortable(list), NEW I \in SUBSET DOMAIN list, I # {}
  PROVE  Unbeaten(list, I) # {}
<1> DEFINE S == {n \in Nat : \A J \in SUBSET DOMAIN list :
                   J # {} /\ J \subseteq 1..n => Unbeaten(list, J) # {}}
<1>1. 0 \in S
  OBVIOUS
<1>2. ASSUME NEW n \in S PROVE n + 1 \in S
  <2> SUFFICES ASSUME NEW J \in SUBSET DOMAIN list, J # {}, J \subseteq 1..(n + 1)
               PROVE  Unbeaten(list, J) # {}
    OBVIOUS
  <2> DEFINE K == J \ {n + 1}
  <2>1. K \in SUBSET DOMAIN list /\ K \subseteq 1..n
    OBVIOUS
  <2>2. CASE K = {}
    <3>1. J = {n + 1}
      BY <2>2
    <3>2. n + 1 \in Unbeaten(list, J)
      BY <3>1, BeforeOrder DEF Unbeaten
    <3> QED
      BY <3>2
  <2>3. CASE K # {}
    <3>1. PICK i : i \in Unbeaten(list, K)
      BY <2>1, <2>3
    <3>2. i \in J /\ \A j \in K : ~Before(list[j], list[i])
      BY <3>1 DEF Unbeaten
    <3>3. CASE n + 1 \in J /\ Before(list[n + 1], list[i])
      <4>1. \A j \in J : ~Before(list[j], list[n + 1])
        BY <3>2, <3>3, BeforeOrder
      <4>2. n + 1 \in Unbeaten(list, J)
        BY <3>3, <4>1 DEF Unbeaten
      <4> QED
        BY <4>2
    <3>4. CASE ~(n + 1 \in J /\ Before(list[n + 1], list[i]))
      <4>1. i \in Unbeaten(list, J)
        BY <3>2, <3>4 DEF Unbeaten
      <4> QED
        BY <4>1
    <3> QED
      BY <3>3, <3>4
  <2> QED
    BY <2>2, <2>3
<1>3. S = Nat
  <2> HIDE DEF S
  <2>1. S \in SUBSET Nat
    BY DEF S
  <2> QED
    BY <1>1, <1>2, <2>1, SetInduction
<1>4. Len(list) \in S /\ I \subseteq 1..Len(list)
  <2> HIDE DEF S
  <2> QED
    BY <1>3 DEF Sortable
<1> QED
  BY <1>4

\* What the winner is: a policy of the list that matches the request and that
\* no other matching one comes before; there is none only if none matches.
LEMMA WinnerOf ==
  ASSUME NEW list \in Seq(Policy), NEW r, NEW t
  PROVE  /\ Winner(list, r, t) = NoPolicy <=> Matched(list, r, t) = {}
         /\ Matched(list, r, t) # {} =>
              \E i \in Unbeaten(list, Matched(list, r, t)) : Winner(list, r, t) = list[i]
<1> DEFINE I == Matched(list, r, t)
           U == Unbeaten(list, I)
<1>1. I \in SUBSET DOMAIN list
  BY DEF Matched
<1>2. CASE I = {}
  BY <1>2 DEF Winner
<1>3. CASE I # {}
  <2>1. U # {} /\ U \subseteq I
    BY <1>1, <1>3, UnbeatenExists, ListsSortable DEF Unbeaten
  <2>2. U \subseteq Nat
    BY <1>1, <2>1
  <2>3. PICK m \in U : \A k \in U : m <= k
    BY <2>1, <2>2, LeastNat
  <2>4. Min(U) \in U
    BY <2>3 DEF Min
  <2>5. Winner(list, r, t) = list[Min(U)]
    BY <1>3 DEF Winner, SelectWinner, Unbeaten
  <2>6. list[Min(U)] # NoPolicy
    BY <1>1, <2>1, <2>4, ListsSortable
  <2> QED
    BY <1>3, <2>4, <2>5, <2>6
<1> QED
  BY <1>2, <1>3

\* A winner is a policy, and matches the request.
LEMMA WinnerMatches ==
  ASSUME NEW list \in Seq(Policy), NEW r, NEW t, Winner(list, r, t) # NoPolicy
  PROVE  /\ Winner(list, r, t) \in Policy
         /\ matchesPolicy(r, Winner(list, r, t))
<1>1. PICK i \in Matched(list, r, t) : Winner(list, r, t) = list[i]
  BY WinnerOf DEF Unbeaten
<1>2. i \in DOMAIN list /\ matchesPolicy(r, list[i])
  BY DEF Matched
<1> QED
  BY <1>1, <1>2

\* Two requests that one policy matches have the same key.
LEMMA SameKey ==
  ASSUME NEW w, NEW r, NEW s, matchesPolicy(r, w), matchesPolicy(s, w)
  PROVE  Build(w, r) = Build(w, s)
<1>1. \A f \in Scoped(w) : r[f] = s[f]
  BY DEF matchesPolicy, matchesScope, matchString, Scoped
<1> QED
  BY <1>1 DEF Build

\* Lists of the same policies, each with an identifier of its own, have the
\* same winner.
LEMMA SameWinner ==
  ASSUME NEW list \in Seq(Policy), NEW s \in Seq(Policy), Range(s) = Range(list),
         \A p, q \in Range(list) : p.id = q.id => p = q,
         NEW r, NEW t
  PROVE  Winner(s, r, t) = Winner(list, r, t)
<1>1. (\A i \in DOMAIN s : \E j \in DOMAIN list : list[j] = s[i])
      /\ (\A j \in DOMAIN list : \E i \in DOMAIN s : s[i] = list[j])
  BY ZenonT(40) DEF Range
<1>2. Matched(s, r, t) = {} <=> Matched(list, r, t) = {}
  BY ZenonT(40), <1>1 DEF Matched
<1>3. CASE Matched(s, r, t) = {}
  BY <1>2, <1>3, WinnerOf
<1>4. CASE Matched(s, r, t) # {}
  <2>1. PICK i \in Unbeaten(s, Matched(s, r, t)) : Winner(s, r, t) = s[i]
    BY <1>4, WinnerOf
  <2>2. PICK j \in Unbeaten(list, Matched(list, r, t)) : Winner(list, r, t) = list[j]
    BY <1>2, <1>4, WinnerOf
  <2>3. i \in Matched(s, r, t) /\ \A k \in Matched(s, r, t) : ~Before(s[k], s[i])
    BY DEF Unbeaten
  <2>4. j \in Matched(list, r, t) /\ \A k \in Matched(list, r, t) : ~Before(list[k], list[j])
    BY DEF Unbeaten
  <2>5. PICK i2 \in DOMAIN list : list[i2] = s[i]
    BY <1>1, <2>3 DEF Matched
  <2>6. PICK j2 \in DOMAIN s : s[j2] = list[j]
    BY <1>1, <2>4 DEF Matched
  <2>7. i2 \in Matched(list, r, t) /\ j2 \in Matched(s, r, t)
    BY <2>3, <2>4, <2>5, <2>6 DEF Matched
  <2>8. ~Before(list[i2], list[j]) /\ ~Before(list[j], list[i2])
    BY <2>3, <2>4, <2>5, <2>6, <2>7
  <2>9. j \in DOMAIN list
    BY <2>4 DEF Matched
  <2>10. list[i2].id = list[j].id
    BY <2>8, <2>9, BeforeOrder, ListsSortable
  <2>11. list[i2] = list[j]
    BY <2>9, <2>10 DEF Range
  <2> QED
    BY <2>1, <2>2, <2>5, <2>11
<1> QED
  BY <1>3, <1>4

\* The reorderings of a list have the policies of the list.
LEMMA Reordered ==
  ASSUME NEW list \in Seq(Policy), NEW s \in Bijection(DOMAIN list, Range(list))
  PROVE  s \in Seq(Policy) /\ Range(s) = Range(list)
<1>1. Range(list) \subseteq Policy /\ DOMAIN list = 1..Len(list) /\ Len(list) \in Nat
  BY DEF Range
<1>2. s \in [DOMAIN list -> Range(list)] /\ s \in Surjection(DOMAIN list, Range(list))
  BY DEF Bijection, Injection
<1>3. Range(s) = Range(list)
  <2>1. \A y \in Range(list) : \E x \in DOMAIN list : s[x] = y
    BY <1>2 DEF Surjection
  <2> QED
    BY ZenonT(40), <1>2, <2>1 DEF Range
<1>4. s \in Seq(Policy)
  BY <1>1, <1>2
<1> QED
  BY <1>3, <1>4

-----------------------------------------------------------------------------
(* The engine *)

\* What the limiters answer.
Verdicts ==
  [allowed : BOOLEAN, action : Action, failed : BOOLEAN, slot : BOOLEAN, release : BOOLEAN]

\* The actions of the data model (model.go:40-47).
ActionType ==
  {"allow", "deny", "delay", "sample", "drop", "downgrade", "drop_low_priority", "shadow_only"}

\* All surfaces make the same of a verdict.
Agreed(v) ==
  IF v.allowed THEN v.action \notin Refusing ELSE v.action \in Refusing \union {"sample", "allow"}

\* Only a failure makes a policy in shadow mode refuse.
Shadowing(w, v) == Shadow(w) /\ ~v.allowed => v.failed /\ w.failure = "fail_closed"

\* Letting a request through.
LEMMA AllowVerdict ==
  allowDecision \in Verdicts /\ ~allowDecision.slot /\ Agreed(allowDecision)
BY DEF Verdicts, allowDecision, Verdict, Agreed, Refusing, Action

\* The verdict of a failure.
LEMMA FailureVerdict ==
  ASSUME NEW w \in Policy
  PROVE  /\ handleFailure(w) \in Verdicts /\ ~handleFailure(w).slot
         /\ Agreed(handleFailure(w)) /\ Shadowing(w, handleFailure(w))
BY ZenonT(40) DEF Verdicts, handleFailure, allowDecision, Verdict, Agreed, Refusing, Shadowing, Action

\* A verdict with shadow mode taken into account.
LEMMA ShadowedVerdict ==
  ASSUME NEW w \in Policy, NEW v \in Verdicts
  PROVE  /\ Shadowed(w, v) \in Verdicts
         /\ Shadowed(w, v).slot = v.slot /\ Shadowed(w, v).release = v.release
         /\ Agreed(v) => Agreed(Shadowed(w, v))
         /\ Shadowing(w, Shadowed(w, v))
<1>1. CASE Shadow(w)
  BY ZenonT(40), <1>1 DEF Shadowed, Verdicts, Agreed, Shadowing, Refusing, Action
<1>2. CASE ~Shadow(w)
  BY <1>2 DEF Shadowed, Shadowing
<1> QED
  BY <1>1, <1>2

\* The verdicts of Evaluate.
LEMMA EvaluatedVerdict ==
  ASSUME NEW w \in Policy, NEW outcome \in {"within", "over", "error"}
  PROVE  /\ Evaluated(w, outcome) \in Verdicts
         /\ Evaluated(w, outcome).slot => w.type = "concurrency"
         /\ w.action \in ActionType => Agreed(Evaluated(w, outcome))
         /\ Shadowing(w, Evaluated(w, outcome))
<1>1. CASE outcome = "error"
  BY <1>1, FailureVerdict DEF Evaluated
<1>2. CASE outcome = "within"
  <2> DEFINE v == [allowDecision EXCEPT !.slot = (w.type = "concurrency")]
  <2>1. v \in Verdicts /\ v.slot = (w.type = "concurrency") /\ Agreed(v)
    BY ZenonT(40) DEF Verdicts, allowDecision, Verdict, Agreed, Refusing, Action
  <2>2. Evaluated(w, outcome) = Shadowed(w, v)
    BY <1>2 DEF Evaluated
  <2> HIDE DEF v
  <2> QED
    BY ZenonT(40), <2>1, <2>2, ShadowedVerdict
<1>3. CASE outcome = "over"
  <2> DEFINE v == OverLimitDecision(w)
  <2>1. v \in Verdicts /\ v.slot = FALSE
    BY DEF Verdicts, OverLimitDecision, Verdict, Action
  <2>2. w.action \in ActionType => Agreed(v)
    BY ZenonT(40) DEF OverLimitDecision, Verdict, Agreed, Refusing, ActionType
  <2>3. Evaluated(w, outcome) = Shadowed(w, v)
    BY <1>3 DEF Evaluated
  <2> HIDE DEF v
  <2> QED
    BY <2>1, <2>2, <2>3, ShadowedVerdict
<1> QED
  BY <1>1, <1>2, <1>3

\* The verdicts of StartConcurrencyLease.
LEMMA LeasedVerdict ==
  ASSUME NEW w \in Policy, NEW outcome \in {"within", "over", "error"}
  PROVE  /\ Leased(w, outcome) \in Verdicts
         /\ Leased(w, outcome).slot => Leased(w, outcome).release
         /\ Shadowing(w, Leased(w, outcome))
<1>1. CASE outcome = "error"
  BY <1>1, FailureVerdict DEF Leased
<1>2. CASE outcome = "within"
  <2> DEFINE v == [allowDecision EXCEPT !.slot = TRUE, !.release = TRUE]
  <2>1. v \in Verdicts /\ v.release = TRUE
    BY ZenonT(40) DEF Verdicts, allowDecision, Verdict, Action
  <2>2. Leased(w, outcome) = Shadowed(w, v)
    BY <1>2 DEF Leased
  <2> HIDE DEF v
  <2> QED
    BY <2>1, <2>2, ShadowedVerdict
<1>3. CASE outcome = "over"
  <2> DEFINE v == Verdict(FALSE, w.action)
  <2>1. v \in Verdicts /\ v.slot = FALSE
    BY DEF Verdicts, Verdict, Action
  <2>2. Leased(w, outcome) = Shadowed(w, v)
    BY <1>3 DEF Leased
  <2> HIDE DEF v
  <2> QED
    BY <2>1, <2>2, ShadowedVerdict
<1> QED
  BY <1>1, <1>2, <1>3

\* As long as no policy changes, starts or ends, the second pick of an acquire
\* request finds what the first one found: a policy that takes no slot.
SameAgain ==
  ~changed =>
    /\ cached \in {NoEntry, policies}
    /\ \A p \in Proc : op[p] = "acquire" =>
         /\ pc[p] = "repick" => chosen[p] = Winner(policies, req[p], now)
         /\ pc[p] \in {"repick", "run"} => chosen[p].type # "concurrency"

\* What has been decided was agreed on; only an acquire request leases.
AllAgreed ==
  \A p \in Proc :
    /\ pc[p] = "lease" => op[p] = "acquire"
    /\ decision[p].made /\ op[p] = "check" => Agreed(decision[p])
    /\ decision[p].by # NoPolicy => Shadowing(decision[p].by, decision[p])

\* The inductive invariant.
DecisionInv == TypeOK /\ SameAgain /\ SlotHasRelease

\* The decisions a request can have.
Decisions ==
  [made : BOOLEAN, by : Policy \union {NoPolicy}, allowed : BOOLEAN,
   action : Action, failed : BOOLEAN, slot : BOOLEAN, release : BOOLEAN]

\* No request has been decided at first.
LEMMA InitDecision == Init => DecisionInv /\ AllAgreed
<1> SUFFICES ASSUME Init PROVE DecisionInv /\ AllAgreed
  OBVIOUS
<1>1. NoDecision \in Decisions
  BY DEF NoDecision, Decisions, Action
<1>2. TypeOK
  <2>1. now \in 1..MaxTime
    BY DecisionAssumption DEF Init
  <2>2. decision \in [Proc -> Decisions]
    BY <1>1 DEF Init
  <2> QED
    BY ZenonT(40), <2>1, <2>2 DEF Init, TypeOK, Decisions
<1>3. SameAgain /\ SlotHasRelease /\ AllAgreed
  BY DEF Init, SameAgain, SlotHasRelease, AllAgreed, NoDecision
<1> QED
  BY <1>2, <1>3 DEF DecisionInv

\* The list that is read is one of the store's.
LEMMA ListedList ==
  ASSUME TypeOK
  PROVE  /\ Listed \in Lists /\ Listed \in Seq(Policy)
         /\ SameAgain /\ ~changed => Listed = policies
BY DecisionAssumption DEF TypeOK, Listed, SameAgain, Policy

\* What deciding a request changes.
LEMMA DecideEffect ==
  ASSUME TypeOK, NEW p \in Proc, NEW by \in Policy \union {NoPolicy}, NEW v \in Verdicts,
         Decide(p, by, v)
  PROVE  /\ decision' \in [Proc -> Decisions]
         /\ decision'[p].made /\ decision'[p].by = by
         /\ decision'[p].allowed = v.allowed /\ decision'[p].action = v.action
         /\ decision'[p].failed = v.failed
         /\ decision'[p].slot = v.slot /\ decision'[p].release = v.release
         /\ \A q \in Proc \ {p} : decision'[q] = decision[q]
<1> DEFINE d == [made |-> TRUE, by |-> by, allowed |-> v.allowed, action |-> v.action,
                 failed |-> v.failed, slot |-> v.slot, release |-> v.release]
<1>1. d \in Decisions
  BY DEF Verdicts, Decisions
<1>2. decision \in [Proc -> Decisions] /\ decision' = [decision EXCEPT ![p] = d]
  BY DEF TypeOK, Decide, Decisions
<1>3. d.made /\ d.by = by /\ d.allowed = v.allowed /\ d.action = v.action
      /\ d.failed = v.failed /\ d.slot = v.slot /\ d.release = v.release
  OBVIOUS
<1> HIDE DEF d
<1>4. decision' \in [Proc -> Decisions] /\ decision'[p] = d
      /\ \A q \in Proc \ {p} : decision'[q] = decision[q]
  BY <1>1, <1>2
<1> QED
  BY <1>3, <1>4

\* A decision keeps the invariant, if a slot that an acquire request is given
\* comes with its release.
LEMMA DecideKeeps ==
  ASSUME DecisionInv, NEW p \in Proc, NEW by \in Policy \union {NoPolicy}, NEW v \in Verdicts,
         Decide(p, by, v), cached' \in {cached, Listed}, UNCHANGED <<store, op, req>>,
         ~changed /\ op[p] = "acquire" /\ v.slot => v.release
  PROVE  DecisionInv'
<1>1. decision' \in [Proc -> Decisions]
  BY DecideEffect DEF DecisionInv
<1>2. pc' = [pc EXCEPT ![p] = "idle"] /\ chosen' = [chosen EXCEPT ![p] = NoPolicy]
  BY DEF Decide
<1>3. Listed \in Lists /\ (~changed => Listed = policies)
  BY ListedList DEF DecisionInv
<1>4. TypeOK'
  BY <1>1, <1>2, <1>3 DEF TypeOK, DecisionInv, store, Decisions
<1>5. SameAgain'
  BY <1>2, <1>3 DEF SameAgain, DecisionInv, TypeOK, store
<1>6. SlotHasRelease'
  BY DecideEffect DEF SlotHasRelease, DecisionInv, store
<1> QED
  BY <1>4, <1>5, <1>6 DEF DecisionInv

\* A decision is agreed on, if its verdict is.
LEMMA DecideAgreed ==
  ASSUME TypeOK, AllAgreed, NEW p \in Proc, NEW by \in Policy \union {NoPolicy}, NEW v \in Verdicts,
         Decide(p, by, v), UNCHANGED op,
         op[p] = "check" => Agreed(v), by # NoPolicy => Shadowing(by, v)
  PROVE  AllAgreed'
<1>1. op[p] = "check" => Agreed(decision'[p])
  BY DecideEffect DEF Agreed
<1>2. by # NoPolicy => Shadowing(by, decision'[p])
  BY DecideEffect DEF Shadowing
<1>3. \A q \in Proc \ {p} : decision'[q] = decision[q] /\ pc'[q] = pc[q]
  BY DecideEffect DEF Decide, TypeOK
<1>4. pc'[p] = "idle"
  BY DEF Decide, TypeOK
<1>5. decision'[p].by = by
  BY DecideEffect
<1> SUFFICES ASSUME NEW q \in Proc
             PROVE  /\ pc'[q] = "lease" => op[q] = "acquire"
                    /\ decision'[q].made /\ op[q] = "check" => Agreed(decision'[q])
                    /\ decision'[q].by # NoPolicy => Shadowing(decision'[q].by, decision'[q])
  BY DEF AllAgreed, Agreed, Shadowing, Shadow
<1>6. CASE q = p
  BY <1>1, <1>2, <1>4, <1>5, <1>6
<1>7. CASE q # p
  BY <1>3, <1>7 DEF AllAgreed
<1> QED
  BY <1>6, <1>7

\* The policies' actions are the data model's.
KnownActions == \A w \in Policy : w.action \in ActionType

\* Every way a request is decided keeps the invariants.
LEMMA DecisionsKeep ==
  ASSUME DecisionInv, NEW p \in Proc,
         \/ PickFails(p) \/ NonePicked(p)
         \/ \E outcome \in {"within", "over", "error"} : Run(p, outcome) \/ AcquireLease(p, outcome)
  PROVE  DecisionInv' /\ (KnownActions /\ AllAgreed => AllAgreed')
<1>1. TypeOK /\ chosen[p] \in Policy \union {NoPolicy}
      /\ (pc[p] \in {"run", "lease"} => chosen[p] \in Policy)
  BY DEF DecisionInv, TypeOK
<1>2. CASE PickFails(p) \/ NonePicked(p)
  <2>1. Decide(p, NoPolicy, allowDecision) /\ cached' \in {cached, Listed} /\ UNCHANGED <<store, op, req>>
    BY <1>2 DEF PickFails, NonePicked
  <2>2. DecisionInv'
    BY <2>1, AllowVerdict, DecideKeeps
  <2>3. AllAgreed => AllAgreed'
    BY <1>1, <2>1, AllowVerdict, DecideAgreed
  <2> QED
    BY <2>2, <2>3
<1>3. CASE \E outcome \in {"within", "over", "error"} : Run(p, outcome)
  <2>1. PICK outcome \in {"within", "over", "error"} : Run(p, outcome)
    BY <1>3
  <2> DEFINE v == Evaluated(chosen[p], outcome)
  <2>2. /\ pc[p] = "run" /\ Decide(p, chosen[p], v) /\ cached' \in {cached, Listed}
        /\ UNCHANGED <<store, op, req>>
    BY <2>1 DEF Run
  <2>3. /\ v \in Verdicts /\ (v.slot => chosen[p].type = "concurrency")
        /\ (chosen[p].action \in ActionType => Agreed(v)) /\ Shadowing(chosen[p], v)
    BY <1>1, <2>2, EvaluatedVerdict
  <2>4. ~changed /\ op[p] = "acquire" => chosen[p].type # "concurrency"
    BY <2>2 DEF DecisionInv, SameAgain
  <2> HIDE DEF v
  <2>5. DecisionInv'
    BY <1>1, <2>2, <2>3, <2>4, DecideKeeps
  <2>6. KnownActions /\ AllAgreed => AllAgreed'
    BY <1>1, <2>2, <2>3, DecideAgreed DEF KnownActions
  <2> QED
    BY <2>5, <2>6
<1>4. CASE \E outcome \in {"within", "over", "error"} : AcquireLease(p, outcome)
  <2>1. PICK outcome \in {"within", "over", "error"} : AcquireLease(p, outcome)
    BY <1>4
  <2> DEFINE v == Leased(chosen[p], outcome)
  <2>2. /\ pc[p] = "lease" /\ Decide(p, chosen[p], v) /\ cached' \in {cached, Listed}
        /\ UNCHANGED <<store, op, req>>
    BY <2>1 DEF AcquireLease
  <2>3. v \in Verdicts /\ (v.slot => v.release) /\ Shadowing(chosen[p], v)
    BY <1>1, <2>2, LeasedVerdict
  <2> HIDE DEF v
  <2>4. DecisionInv'
    BY <1>1, <2>2, <2>3, DecideKeeps
  <2>5. AllAgreed => AllAgreed'
    <3> SUFFICES ASSUME AllAgreed PROVE AllAgreed'
      OBVIOUS
    <3>1. op[p] # "check"
      BY <2>2 DEF AllAgreed
    <3> QED
      BY <1>1, <2>2, <2>3, <3>1, DecideAgreed
  <2> QED
    BY <2>4, <2>5
<1> QED
  BY <1>2, <1>3, <1>4

\* A pick keeps the invariants.
LEMMA PickKeeps ==
  ASSUME DecisionInv, NEW p \in Proc, Pick(p)
  PROVE  DecisionInv' /\ (AllAgreed => AllAgreed')
<1>1. PICK w : /\ w = Winner(Listed, req[p], now) /\ w # NoPolicy
               /\ chosen' = [chosen EXCEPT ![p] = w]
               /\ pc' = [pc EXCEPT ![p] =
                    IF op[p] = "check" \/ pc[p] = "repick" THEN "run"
                    ELSE IF w.type = "concurrency" THEN "lease" ELSE "repick"]
  BY ZenonT(40) DEF Pick
<1>2. /\ pc[p] \in {"pick", "repick"} /\ cached' = Listed
      /\ UNCHANGED <<now, policies, changed, op, req, decision>>
  BY DEF Pick, store
<1>3. Listed \in Lists /\ Listed \in Seq(Policy) /\ (~changed => Listed = policies)
  BY ListedList DEF DecisionInv
<1>4. w \in Policy
  BY <1>1, <1>3, WinnerMatches
<1>5. TypeOK'
  BY <1>1, <1>2, <1>3, <1>4 DEF DecisionInv, TypeOK
<1>6. ~changed =>
        /\ w = Winner(policies, req[p], now)
        /\ op[p] = "acquire" /\ pc[p] = "repick" => w.type # "concurrency"
  BY <1>1, <1>2, <1>3 DEF DecisionInv, SameAgain
<1>7. SameAgain'
  <2> SUFFICES ASSUME ~changed PROVE SameAgain'
    BY <1>2 DEF SameAgain
  <2>1. cached' \in {NoEntry, policies'}
    BY <1>2, <1>3
  <2>2. \A q \in Proc \ {p} : pc'[q] = pc[q] /\ chosen'[q] = chosen[q]
    BY <1>1 DEF DecisionInv, TypeOK
  <2>3. chosen'[p] = w /\ (pc'[p] = "repick" => w.type # "concurrency")
        /\ (op[p] = "acquire" /\ pc'[p] = "run" => pc[p] = "repick")
    BY <1>1, <1>2 DEF DecisionInv, TypeOK
  <2> SUFFICES ASSUME NEW q \in Proc, op[q] = "acquire"
               PROVE  /\ pc'[q] = "repick" => chosen'[q] = Winner(policies, req[q], now)
                      /\ pc'[q] \in {"repick", "run"} => chosen'[q].type # "concurrency"
    BY <1>2, <2>1 DEF SameAgain
  <2>4. CASE q = p
    BY <1>6, <2>3, <2>4
  <2>5. CASE q # p
    BY <2>2, <2>5 DEF DecisionInv, SameAgain
  <2> QED
    BY <2>4, <2>5
<1>8. SlotHasRelease'
  BY <1>2 DEF DecisionInv, SlotHasRelease
<1>9. AllAgreed => AllAgreed'
  BY <1>1, <1>2 DEF DecisionInv, TypeOK, AllAgreed, Agreed, Shadowing, Shadow
<1> QED
  BY <1>5, <1>7, <1>8, <1>9 DEF DecisionInv

\* A new request keeps the invariants.
LEMMA BeginKeeps ==
  ASSUME DecisionInv, NEW p \in Proc, NEW o \in {"check", "acquire"}, NEW r \in Request, Begin(p, o, r)
  PROVE  DecisionInv' /\ (AllAgreed => AllAgreed')
<1>1. NoDecision \in Decisions /\ ~NoDecision.made /\ NoDecision.by = NoPolicy /\ ~NoDecision.slot
  BY DEF NoDecision, Decisions, Action
<1>2. /\ pc[p] = "idle" /\ pc' = [pc EXCEPT ![p] = "pick"] /\ op' = [op EXCEPT ![p] = o]
      /\ req' = [req EXCEPT ![p] = r] /\ decision' = [decision EXCEPT ![p] = NoDecision]
      /\ UNCHANGED <<now, policies, changed, cached, chosen>>
  BY DEF Begin, store
<1>3. decision \in [Proc -> Decisions]
  BY DEF DecisionInv, TypeOK, Decisions
<1>4. decision' \in [Proc -> Decisions] /\ decision'[p] = NoDecision
      /\ \A q \in Proc \ {p} : decision'[q] = decision[q]
  BY <1>1, <1>2, <1>3
<1>5. TypeOK'
  BY <1>2, <1>4 DEF DecisionInv, TypeOK, Decisions
<1>6. SameAgain'
  BY <1>2 DEF DecisionInv, TypeOK, SameAgain
<1>7. \A q \in Proc \ {p} : op'[q] = op[q] /\ pc'[q] = pc[q]
  BY <1>2 DEF DecisionInv, TypeOK
<1>8. SlotHasRelease'
  BY <1>1, <1>2, <1>4, <1>7 DEF DecisionInv, SlotHasRelease
<1>9. AllAgreed => AllAgreed'
  <2> SUFFICES ASSUME AllAgreed, NEW q \in Proc
               PROVE  /\ pc'[q] = "lease" => op'[q] = "acquire"
                      /\ decision'[q].made /\ op'[q] = "check" => Agreed(decision'[q])
                      /\ decision'[q].by # NoPolicy => Shadowing(decision'[q].by, decision'[q])
    BY DEF AllAgreed, Agreed, Shadowing, Shadow
  <2>1. CASE q = p
    <3>1. pc'[p] = "pick"
      BY <1>2 DEF DecisionInv, TypeOK
    <3> QED
      BY <1>1, <1>4, <2>1, <3>1
  <2>2. CASE q # p
    BY <1>4, <1>7, <2>2 DEF AllAgreed
  <2> QED
    BY <2>1, <2>2
<1> QED
  BY <1>5, <1>6, <1>8, <1>9 DEF DecisionInv

\* Every step keeps the invariants.
LEMMA NextDecision ==
  ASSUME DecisionInv, [Next]_vars
  PROVE  DecisionInv' /\ (KnownActions /\ AllAgreed => AllAgreed')
<1>1. CASE Tick
  <2>1. DecisionInv'
    BY <1>1, DecisionAssumption DEF Tick, DecisionInv, TypeOK, SameAgain, SlotHasRelease
  <2>2. AllAgreed => AllAgreed'
    BY <1>1 DEF Tick, AllAgreed, Agreed, Shadowing, Shadow
  <2> QED
    BY <2>1, <2>2
<1>2. CASE PoliciesChange
  <2>1. DecisionInv'
    BY <1>2 DEF PoliciesChange, DecisionInv, TypeOK, SameAgain, SlotHasRelease
  <2>2. AllAgreed => AllAgreed'
    BY <1>2 DEF PoliciesChange, AllAgreed, Agreed, Shadowing, Shadow
  <2> QED
    BY <2>1, <2>2
<1>3. CASE CacheExpires
  <2>1. DecisionInv'
    BY <1>3 DEF CacheExpires, store, DecisionInv, TypeOK, SameAgain, SlotHasRelease
  <2>2. AllAgreed => AllAgreed'
    BY <1>3 DEF CacheExpires, store, AllAgreed, Agreed, Shadowing, Shadow
  <2> QED
    BY <2>1, <2>2
<1>4. ASSUME NEW p \in Proc, Step(p)
      PROVE  DecisionInv' /\ (KnownActions /\ AllAgreed => AllAgreed')
  BY <1>4, DecisionsKeep, PickKeeps DEF Step
<1>5. ASSUME NEW p \in Proc, NEW o \in {"check", "acquire"}, NEW r \in Request, Begin(p, o, r)
      PROVE  DecisionInv' /\ (KnownActions /\ AllAgreed => AllAgreed')
  BY <1>5, BeginKeeps
<1>6. CASE UNCHANGED vars
  BY <1>6 DEF vars, store, DecisionInv, TypeOK, SameAgain, SlotHasRelease, AllAgreed, Agreed, Shadowing, Shadow
<1> QED
  BY <1>1, <1>2, <1>3, <1>4, <1>5, <1>6 DEF Next

\* The invariant holds throughout.
LEMMA Decided == Spec => []DecisionInv
<1>1. Init => DecisionInv
  BY InitDecision
<1>2. DecisionInv /\ [Next]_vars => DecisionInv'
  BY NextDecision
<1> QED
  BY <1>1, <1>2, PTL DEF Spec

\* The surfaces make of a decision what the engine makes of it.
LEMMA AnswersAgree ==
  ASSUME NEW d, d.allowed \in BOOLEAN, Agreed(d)
  PROVE  LET refused == {i \in DOMAIN Answers(d) : "refused" \in Answers(d)[i]}
         IN  \/ refused = IF d.allowed THEN {} ELSE DOMAIN Answers(d)
             \/ ~d.allowed /\ d.action \in {"sample", "allow"}
<1>1. DOMAIN Answers(d) = 1..5
  BY DEF Answers
<1>2. /\ Answers(d)[1] = Handler(d) /\ Answers(d)[2] = UnaryServerInterceptor(d)
      /\ Answers(d)[3] = CheckHandler(d) /\ Answers(d)[4] = CheckLimit(d) /\ Answers(d)[5] = AllowLog(d)
  BY DEF Answers
<1>3. CASE d.allowed
  <2>1. \A i \in 1..5 : "refused" \notin Answers(d)[i]
    BY <1>2, <1>3 DEF Agreed, Handler, UnaryServerInterceptor, CheckHandler, CheckLimit, AllowLog
  <2> QED
    BY <1>1, <1>3, <2>1
<1>4. CASE ~d.allowed /\ d.action \in Refusing
  <2>1. \A i \in 1..5 : "refused" \in Answers(d)[i]
    BY <1>2, <1>4 DEF Handler, UnaryServerInterceptor, CheckHandler, CheckLimit, AllowLog
  <2> QED
    BY <1>1, <1>4, <2>1
<1> QED
  BY <1>3, <1>4 DEF Agreed

-----------------------------------------------------------------------------
(* The theorems *)

\* Types, and that a request has a policy exactly when it has picked one
\* (engine.go:35-117).
THEOREM DecisionTypes == Spec => []TypeOK
BY Decided, PTL DEF DecisionInv

\* Whatever lists the store holds, if no two policies of a list share an
\* identifier, the policy that decides a request is the same for every order of
\* the list (matcher.go:53-72).
THEOREM WinnerWithoutOrder ==
  ASSUME \A l \in Lists : \A p, q \in Range(l) : p.id = q.id => p = q
  PROVE  Spec => []OrderIrrelevant
<1>1. TypeOK => OrderIrrelevant
  <2> SUFFICES ASSUME TypeOK, NEW r \in Request, NEW s \in Bijection(DOMAIN policies, Range(policies))
               PROVE  Winner(s, r, now) = Winner(policies, r, now)
    BY DEF OrderIrrelevant
  <2>1. policies \in Lists /\ policies \in Seq(Policy)
    BY DecisionAssumption DEF TypeOK, Policy
  <2>2. s \in Seq(Policy) /\ Range(s) = Range(policies)
    BY <2>1, Reordered
  <2>3. \A p, q \in Range(policies) : p.id = q.id => p = q
    BY <2>1
  <2> QED
    BY <2>1, <2>2, <2>3, SameWinner
<1> QED
  BY <1>1, Decided, PTL DEF DecisionInv

\* Whatever the policies and the requests, two requests that one policy decides
\* are charged to one counter (matcher.go:75-90, builder.go:32-64).
THEOREM OneCounter == Spec => []OneCounterPerPolicy
<1>1. TypeOK => OneCounterPerPolicy
  <2> SUFFICES ASSUME TypeOK, NEW r \in Request, NEW s \in Request,
                      Winner(policies, r, now) # NoPolicy,
                      Winner(policies, s, now) = Winner(policies, r, now)
               PROVE  Build(Winner(policies, r, now), r) = Build(Winner(policies, r, now), s)
    BY DEF OneCounterPerPolicy
  <2>1. policies \in Seq(Policy)
    BY DecisionAssumption DEF TypeOK, Policy
  <2>2. PICK w : w = Winner(policies, r, now)
    OBVIOUS
  <2>3. matchesPolicy(r, w) /\ matchesPolicy(s, w)
    BY <2>1, <2>2, WinnerMatches
  <2> QED
    BY <2>2, <2>3, SameKey
<1> QED
  BY <1>1, Decided, PTL DEF DecisionInv

\* Whatever the number of requests under way, a slot taken for an acquire request
\* comes with its release, as long as no policy changes, starts or ends
\* (engine.go:65-117).
THEOREM SlotReleased == Spec => []SlotHasRelease
BY Decided, PTL DEF DecisionInv

\* The surfaces agree on every decision, if the policies' actions are among the
\* data model's (engine.go:47-61, 172-178, common.go:69-93, middleware.go:52-83,
\* interceptor.go:22-33).
THEOREM SurfacesAgreed ==
  ASSUME KnownActions
  PROVE  Spec => []SurfacesAgree
<1>1. Init => AllAgreed
  BY InitDecision
<1>2. DecisionInv /\ AllAgreed /\ [Next]_vars => AllAgreed'
  BY NextDecision
<1>3. DecisionInv /\ AllAgreed => SurfacesAgree
  <2> SUFFICES ASSUME DecisionInv, AllAgreed PROVE SurfacesAgree
    OBVIOUS
  <2>1. ASSUME NEW p \in Proc, decision[p].made, op[p] = "check"
        PROVE  LET refused == {i \in DOMAIN Answers(decision[p]) : "refused" \in Answers(decision[p])[i]}
               IN  \/ refused = IF decision[p].allowed THEN {} ELSE DOMAIN Answers(decision[p])
                   \/ ~decision[p].allowed /\ decision[p].action \in {"sample", "allow"}
    <3>1. PICK d : d = decision[p]
      OBVIOUS
    <3>2. d.allowed \in BOOLEAN /\ Agreed(d)
      BY <2>1, <3>1 DEF DecisionInv, TypeOK, AllAgreed
    <3> QED
      BY <3>1, <3>2, AnswersAgree
  <2>2. ASSUME NEW p \in Proc, decision[p].by # NoPolicy, Shadow(decision[p].by), ~decision[p].allowed
        PROVE  decision[p].failed /\ decision[p].by.failure = "fail_closed"
    BY <2>2 DEF AllAgreed, Shadowing
  <2> QED
    BY <2>1, <2>2 DEF SurfacesAgree
<1> QED
  BY <1>1, <1>2, <1>3, Decided, PTL DEF Spec

-----------------------------------------------------------------------------
(* Invalidation and agent sync *)

USE SyncAssumption

\* Nothing has changed at first, and every agent is about to fetch.
LEMMA SyncInitType == SyncInit => SyncTypeOK
  BY DEF SyncInit, SyncTypeOK, NoVersion

\* The server's steps preserve the types.
LEMMA ServerType ==
  ASSUME SyncTypeOK,
         \/ \E h \in PolicyHandler : Change(h) \/ Publish(h)
         \/ \E w \in Worker : TakeEvent(w) \/ \E a \in Agent : Push(w, a) \/ PushFails(w, a)
         \/ ServerRestart
  PROVE  SyncTypeOK'
<1>1. CASE \E h \in PolicyHandler : Change(h) \/ Publish(h)
  BY <1>1 DEF SyncTypeOK, Change, Publish, agents, NoVersion
<1>2. ASSUME NEW w \in Worker, TakeEvent(w)
      PROVE  SyncTypeOK'
  BY <1>2 DEF SyncTypeOK, TakeEvent, agents
<1>3. ASSUME NEW w \in Worker, NEW a \in Agent, Push(w, a)
      PROVE  SyncTypeOK'
  BY <1>3 DEF SyncTypeOK, Push, NoVersion
<1>4. ASSUME NEW w \in Worker, NEW a \in Agent, PushFails(w, a)
      PROVE  SyncTypeOK'
  BY <1>4 DEF SyncTypeOK, PushFails, agents
<1>5. CASE ServerRestart
  BY <1>5 DEF SyncTypeOK, ServerRestart, agents, NoVersion
<1>. QED  BY <1>1, <1>2, <1>3, <1>4, <1>5

\* So do the agents' steps.
LEMMA AgentType ==
  ASSUME SyncTypeOK, NEW a \in Agent,
         Sync(a) \/ FetchReads(a) \/ FetchOk(a) \/ FetchFails(a) \/ AgentRestart(a)
  PROVE  SyncTypeOK'
<1>1. CASE Sync(a)
  BY <1>1 DEF SyncTypeOK, Sync, Receive, Drain, Drained, TickerFires, Goto, server
<1>2. CASE FetchReads(a)
  BY <1>2 DEF SyncTypeOK, FetchReads, Goto, server, NoVersion
<1>3. CASE FetchOk(a)
  <2>1. reading[a] \in NoVersion..version /\ NoVersion \in NoVersion..version
    BY DEF SyncTypeOK, NoVersion
  <2>. QED  BY <1>3, <2>1 DEF SyncTypeOK, FetchOk, Goto, server
<1>4. CASE FetchFails(a)
  <2>1. NoVersion \in NoVersion..version
    BY DEF SyncTypeOK, NoVersion
  <2>. QED  BY <1>4, <2>1 DEF SyncTypeOK, FetchFails, Goto, server
<1>5. CASE AgentRestart(a)
  BY <1>5 DEF SyncTypeOK, AgentRestart, server, NoVersion
<1>. QED  BY <1>1, <1>2, <1>3, <1>4, <1>5

\* Every step preserves the types.
LEMMA SyncNextType == SyncTypeOK /\ [SyncNext]_syncVars => SyncTypeOK'
<1>. SUFFICES ASSUME SyncTypeOK, [SyncNext]_syncVars
              PROVE  SyncTypeOK'
  OBVIOUS
<1>1. CASE SyncNext
  BY <1>1, ServerType, AgentType DEF SyncNext
<1>2. CASE UNCHANGED syncVars
  BY <1>2 DEF SyncTypeOK, syncVars, server, agents
<1>. QED  BY <1>1, <1>2

\* The queues keep to their capacities, and no part of the system knows of a
\* version before it exists (cmd/rlaas-server/main.go:288-295,
\* cmd/rlaas-agent/main.go:140-143).
THEOREM SyncTypeCorrect == SyncSpec => []SyncTypeOK
<1>1. SyncInit => SyncTypeOK
  BY SyncInitType
<1>2. SyncTypeOK /\ [SyncNext]_syncVars => SyncTypeOK'
  BY SyncNextType
<1>. QED  BY <1>1, <1>2, PTL DEF SyncSpec

-----------------------------------------------------------------------------
\* One agent's part of the inductive invariant.  NoLostInvalidation alone is
\* not inductive: a failed fetch excuses the agent, and the next successful
\* one takes the excuse away.  What it lacks is that an event newer than the
\* snapshot being read is still in the channel.
Safe(a) ==
  /\ heard[a] > synced[a] =>
       \/ buffer[a] > 0
       \/ loop[a] \in {"drain", "fetch"}
       \/ loop[a] = "read" /\ reading[a] >= heard[a]
       \/ lastError[a]
  /\ loop[a] = "read" => buffer[a] > 0 \/ reading[a] >= heard[a]

\* A step of one agent does not touch the others.
LEMMA OtherAgents ==
  ASSUME SyncTypeOK, NEW a \in Agent, NEW b \in Agent, b # a, Safe(b),
         Sync(a) \/ FetchReads(a) \/ FetchOk(a) \/ FetchFails(a) \/ AgentRestart(a)
  PROVE  Safe(b)'
<1>1. /\ heard'[b] = heard[b] /\ synced'[b] = synced[b] /\ buffer'[b] = buffer[b]
      /\ loop'[b] = loop[b] /\ reading'[b] = reading[b] /\ lastError'[b] = lastError[b]
  BY DEF SyncTypeOK, Sync, Receive, Drain, Drained, TickerFires, FetchReads, FetchOk, FetchFails,
         AgentRestart, Goto
<1>. QED  BY <1>1 DEF Safe

\* The agent's own steps.  A fetch reads the server after the channel was
\* drained, so it covers every event it stands for.
LEMMA OwnSteps ==
  ASSUME SyncTypeOK, NEW a \in Agent, Safe(a),
         Sync(a) \/ FetchReads(a) \/ FetchOk(a) \/ FetchFails(a) \/ AgentRestart(a)
  PROVE  Safe(a)'
<1>1. CASE Sync(a)
  BY <1>1 DEF SyncTypeOK, Safe, Sync, Receive, Drain, Drained, TickerFires, Goto
<1>2. CASE FetchReads(a)
  <2>1. heard'[a] = heard[a] /\ loop'[a] = "read" /\ reading'[a] = version
    BY <1>2 DEF SyncTypeOK, FetchReads, Goto
  <2>2. heard[a] \in NoVersion..version /\ version \in Nat
    BY DEF SyncTypeOK
  <2>3. version >= heard[a]
    BY ONLY <2>2 DEF NoVersion
  <2>4. reading'[a] >= heard'[a]
    BY ZenonT(40), <2>1, <2>3
  <2>. QED  BY ZenonT(40), <2>1, <2>4 DEF Safe
<1>3. CASE FetchOk(a)
  <2>1. /\ heard'[a] = heard[a] /\ buffer'[a] = buffer[a] /\ synced'[a] = reading[a]
        /\ loop[a] = "read" /\ loop'[a] = "select"
    BY <1>3 DEF SyncTypeOK, FetchOk, Goto
  <2>2. heard[a] \in Int /\ reading[a] \in Int
    BY DEF SyncTypeOK, NoVersion
  <2>3. buffer[a] > 0 \/ reading[a] >= heard[a]
    BY ZenonT(40), <2>1 DEF Safe
  <2>4. reading[a] >= heard[a] => ~(heard[a] > reading[a])
    BY ONLY <2>2
  <2>5. buffer'[a] > 0 \/ ~(heard'[a] > synced'[a])
    BY ZenonT(40), <2>1, <2>3, <2>4
  <2>6. loop'[a] # "read"
    BY ZenonT(40), <2>1
  <2>. QED  BY ZenonT(40), <2>5, <2>6 DEF Safe
<1>4. CASE FetchFails(a)
  <2>1. lastError'[a] = TRUE /\ loop'[a] = "select"
    BY <1>4 DEF SyncTypeOK, FetchFails, Goto
  <2>. QED  BY <2>1 DEF Safe
<1>5. CASE AgentRestart(a)
  <2>1. heard'[a] = NoVersion /\ synced'[a] = NoVersion /\ loop'[a] = "fetch"
    BY <1>5 DEF SyncTypeOK, AgentRestart
  <2>. QED  BY <2>1 DEF Safe, NoVersion
<1>. QED  BY <1>1, <1>2, <1>3, <1>4, <1>5

\* An invalidation request that reaches the agent leaves its channel
\* non-empty, whether it is queued or dropped.
LEMMA PushSafe ==
  ASSUME SyncTypeOK, NEW a \in Agent, Safe(a), NEW w \in Worker, NEW b \in Agent, Push(w, b)
  PROVE  Safe(a)'
<1>1. CASE a = b
  <2>1. buffer[a] \in 0..BufferSize /\ buffer'[a] = IF buffer[a] < BufferSize THEN buffer[a] + 1
                                                                          ELSE buffer[a]
    BY <1>1 DEF SyncTypeOK, Push
  <2>2. buffer'[a] > 0
    BY ONLY <2>1, SyncAssumption
  <2>. QED  BY ZenonT(40), <2>2 DEF Safe
<1>2. CASE a # b
  <2>1. /\ heard'[a] = heard[a] /\ buffer'[a] = buffer[a]
        /\ UNCHANGED <<synced, loop, reading, lastError>>
    BY <1>2 DEF SyncTypeOK, Push
  <2>. QED  BY <2>1 DEF Safe
<1>. QED  BY <1>1, <1>2

\* Every step keeps every agent safe.
LEMMA NextSafe ==
  ASSUME SyncTypeOK, [SyncNext]_syncVars, \A a \in Agent : Safe(a)
  PROVE  \A a \in Agent : Safe(a)'
<1>. TAKE a \in Agent
<1>1. CASE UNCHANGED agents
  BY <1>1 DEF agents, Safe
<1>2. ASSUME NEW w \in Worker, NEW b \in Agent, Push(w, b)
      PROVE  Safe(a)'
  BY <1>2, PushSafe
<1>3. ASSUME NEW b \in Agent,
             Sync(b) \/ FetchReads(b) \/ FetchOk(b) \/ FetchFails(b) \/ AgentRestart(b)
      PROVE  Safe(a)'
  BY <1>3, OwnSteps, OtherAgents
<1>4. \/ UNCHANGED agents
      \/ \E w \in Worker, b \in Agent : Push(w, b)
      \/ \E b \in Agent : Sync(b) \/ FetchReads(b) \/ FetchOk(b) \/ FetchFails(b) \/ AgentRestart(b)
  BY DEF SyncNext, syncVars, Change, Publish, TakeEvent, PushFails, ServerRestart
<1>. QED  BY <1>1, <1>2, <1>3, <1>4

\* An agent never loses an invalidation it has received, whatever the
\* capacities of the queues, and through crashes of the server and of agents:
\* coalescing, and dropping events of a full channel, are harmless
\* (cmd/rlaas-agent/main.go:140-143, 220-237).
THEOREM InvalidationsKept == SyncSpec => []NoLostInvalidation
<1>1. SyncInit => \A a \in Agent : Safe(a)
  BY DEF SyncInit, Safe, NoVersion
<1>2. SyncTypeOK /\ (\A a \in Agent : Safe(a)) /\ [SyncNext]_syncVars => (\A a \in Agent : Safe(a))'
  BY NextSafe
<1>3. (\A a \in Agent : Safe(a)) => NoLostInvalidation
  BY DEF Safe, NoLostInvalidation
<1>. QED  BY <1>1, <1>2, <1>3, SyncTypeCorrect, PTL DEF SyncSpec

-----------------------------------------------------------------------------
\* Every step of the process is a step of PolicySync, or none.
LEMMA ServerStep == [ServerNext]_allVars => [SyncNext]_syncVars
<1>. SUFFICES ASSUME [ServerNext]_allVars
              PROVE  [SyncNext]_syncVars
  OBVIOUS
<1>1. CASE Serve \/ Signal \/ Start \/ GracefulStop \/ UNCHANGED allVars
  BY <1>1 DEF Serve, Signal, Start, GracefulStop, allVars
<1>2. CASE \E r \in RPC : BeginRPC(r) \/ EndRPC(r)
  BY <1>2 DEF BeginRPC, EndRPC
<1>3. CASE HTTPDrained \/ ShutdownTimesOut \/ Crash
  BY <1>3 DEF HTTPDrained, ShutdownTimesOut, Crash, End, SyncNext
<1>4. CASE \E h \in PolicyHandler : HandlerStep(h)
  BY <1>4 DEF HandlerStep, SyncNext
<1>5. CASE \E w \in Worker : WorkerStep(w)
  BY <1>5 DEF WorkerStep, SyncNext
<1>6. CASE \E a \in Agent : AgentStep(a)
  BY <1>6 DEF AgentStep, SyncNext
<1>. QED  BY <1>1, <1>2, <1>3, <1>4, <1>5, <1>6 DEF ServerNext

\* The server process, with its shutdown, crashes and restarts, only ever does
\* what PolicySync says of its handlers, workers and agents
\* (cmd/rlaas-server/main.go:84-359).
THEOREM ProcessImplementsSync == ServerSpec => SyncSpec
<1>1. ServerInit => SyncInit
  BY DEF ServerInit
<1>. QED  BY <1>1, ServerStep, PTL DEF ServerSpec, SyncSpec

\* So no shutdown, graceful or not, makes an agent lose an invalidation it has
\* received (cmd/rlaas-agent/main.go:140-143, 220-237).
THEOREM ProcessKeepsInvalidations == ServerSpec => []NoLostInvalidation
  BY ProcessImplementsSync, InvalidationsKept, PTL
=============================================================================
