------------------------------- MODULE Decision -------------------------------
(***************************************************************************)
(* The engine's decisions (internal/engine/evaluator), with the matcher    *)
(* and the key builder: from a request and the policies of its namespace   *)
(* to the policy that decides it, the key of the counter it is charged to, *)
(* and the answer.  The control plane may change the policies, and the     *)
(* cached copy may expire, between any two steps of a request.             *)
(*                                                                         *)
(* A request and the scope of a policy give each field a value, a sequence *)
(* of characters; Unset is the empty one.  What the algorithm makes of the *)
(* counter is left open: within the limit, over it, or an error.           *)
(*                                                                         *)
(* changed is a history variable: the policies, or what is valid of them,  *)
(* may have changed since the start.                                       *)
(***************************************************************************)
EXTENDS Integers, Sequences, FiniteSets, FiniteSetsExt, Functions

CONSTANTS Proc, Field,
          Tag,        \* the fields that are tags
          Request,    \* the requests, functions from Field to values
          Lists,      \* what the policy store may hold, sequences of policies
          Bucket,     \* Bucket[id, request]: the rollout hash, in 0..99
          NoPolicy, MaxTime

ASSUME DecisionAssumption ==
  /\ IsFiniteSet(Field) /\ Tag \subseteq Field /\ Lists # {} /\ <<>> \notin Lists
  /\ Lists \subseteq Seq(UNION {Range(l) : l \in Lists})
  /\ \A l \in Lists : \A p \in Range(l) :
       p # NoPolicy /\ p.id \in Nat /\ p.priority \in Int
  /\ MaxTime \in Nat \ {0}

VARIABLES now, policies, cached, pc, op, req, chosen, decision, changed

store == <<now, policies, changed>>
vars == <<store, cached, pc, op, req, chosen, decision>>

Unset == <<>>
NoEntry == <<>>
Policy == UNION {Range(l) : l \in Lists}
Action == {"allow", "deny", "shadow_only"} \union {p.action : p \in Policy}

-----------------------------------------------------------------------------
(* The matcher *)

matchString(scope, val) == scope = Unset \/ scope = val

matchesScope(r, scope) == \A f \in Field : matchString(scope[f], r[f])

\* An expression is a set of clauses; one that does not parse fails the match.
evaluateExpression(r, expr) ==
  \A c \in expr : c.op \in {"==", "!="} /\ (c.op = "==" <=> r[c.field] = c.value)

matchesPolicy(r, p) == matchesScope(r, p.scope) /\ evaluateExpression(r, p.expr)

Scoped(p) == {f \in Field : p.scope[f] # Unset}

specificityScore(p) == 10 * Cardinality(Scoped(p) \ Tag) + Cardinality(Scoped(p) \intersect Tag)

\* Variant: policies of one score and priority stay in the order they came.
Before_without_id(p, q) ==
  LET sp == specificityScore(p) sq == specificityScore(q)
  IN  \/ sp > sq
      \/ sp = sq /\ p.priority > q.priority

Before(p, q) ==
  LET sp == specificityScore(p) sq == specificityScore(q)
  IN  \/ sp > sq
      \/ sp = sq /\ p.priority > q.priority
      \/ sp = sq /\ p.priority = q.priority /\ p.id > q.id

\* The head, after the stable sort, of the policies that list has at I.
SelectWinner(list, I) == list[Min({i \in I : \A j \in I : ~Before(list[j], list[i])})]

-----------------------------------------------------------------------------
(* Picking a policy and a key *)

isInRollout(p, r) == Bucket[p.id, r] < p.rollout

\* A rollout of 0 counts as one that was never set.
Eligible(p, r, t) ==
  /\ p.enabled
  /\ p.from > 0 => t >= p.from
  /\ p.to > 0 => t <= p.to
  /\ p.rollout \in 1..99 => isInRollout(p, r)

\* Where in the list the policies are that match a request.
Matched(list, r, t) ==
  {i \in DOMAIN list : Eligible(list[i], r, t) /\ matchesPolicy(r, list[i])}

Winner(list, r, t) ==
  LET matched == Matched(list, r, t)
  IN  IF matched = {} THEN NoPolicy ELSE SelectWinner(list, matched)

sanitize(v) ==
  IF v = Unset THEN <<"_">> ELSE [i \in DOMAIN v |-> IF v[i] \in {" ", ":"} THEN "_" ELSE v[i]]

\* Variant: the key has every field of the request.
Build_all_fields(p, r) == [f \in Field |-> IF f \in Tag THEN r[f] ELSE sanitize(r[f])]

\* The hash of the tags stands for the tags themselves.
Build(p, r) == [f \in Scoped(p) |-> IF f \in Tag THEN r[f] ELSE sanitize(r[f])]

-----------------------------------------------------------------------------
(* The environment *)

NoDecision ==
  [made |-> FALSE, by |-> NoPolicy, allowed |-> FALSE, action |-> "allow", failed |-> FALSE,
   slot |-> FALSE, release |-> FALSE]

Init ==
  /\ now = 1
  /\ policies \in Lists
  /\ cached = NoEntry
  /\ pc = [p \in Proc |-> "idle"]
  /\ op = [p \in Proc |-> "check"]
  /\ req \in [Proc -> Request]
  /\ chosen = [p \in Proc |-> NoPolicy]
  /\ decision = [p \in Proc |-> NoDecision]
  /\ changed = FALSE

Tick ==
  /\ now < MaxTime
  /\ now' = now + 1
  /\ changed' = TRUE
  /\ UNCHANGED <<policies, cached, pc, op, req, chosen, decision>>

\* The control plane changes the store; the cache entry expires or is dropped.
PoliciesChange ==
  /\ policies' \in Lists
  /\ changed' = TRUE
  /\ UNCHANGED <<now, cached, pc, op, req, chosen, decision>>

CacheExpires ==
  /\ cached # NoEntry
  /\ cached' = NoEntry
  /\ UNCHANGED <<store, pc, op, req, chosen, decision>>

-----------------------------------------------------------------------------
(* The engine: Evaluate ("check") and StartConcurrencyLease ("acquire") *)

Begin(p, o, r) ==
  /\ pc[p] = "idle"
  /\ pc' = [pc EXCEPT ![p] = "pick"]
  /\ op' = [op EXCEPT ![p] = o]
  /\ req' = [req EXCEPT ![p] = r]
  /\ decision' = [decision EXCEPT ![p] = NoDecision]
  /\ UNCHANGED <<store, cached, chosen>>

Decide(p, by, verdict) ==
  /\ decision' = [decision EXCEPT ![p] =
       [made |-> TRUE, by |-> by, allowed |-> verdict.allowed, action |-> verdict.action,
        failed |-> verdict.failed, slot |-> verdict.slot, release |-> verdict.release]]
  /\ pc' = [pc EXCEPT ![p] = "idle"]
  /\ chosen' = [chosen EXCEPT ![p] = NoPolicy]

\* A verdict that holds no slot.
Verdict(allowed, action) ==
  [allowed |-> allowed, action |-> action, failed |-> FALSE, slot |-> FALSE, release |-> FALSE]

allowDecision == Verdict(TRUE, "allow")

\* pickPolicy cannot load the policies: the request is let through.
PickFails(p) ==
  /\ pc[p] \in {"pick", "repick"} /\ cached = NoEntry
  /\ Decide(p, NoPolicy, allowDecision)
  /\ UNCHANGED <<store, cached, op, req>>

Listed == IF cached # NoEntry THEN cached ELSE policies

NonePicked(p) ==
  /\ pc[p] \in {"pick", "repick"}
  /\ Winner(Listed, req[p], now) = NoPolicy
  /\ cached' = Listed
  /\ Decide(p, NoPolicy, allowDecision)
  /\ UNCHANGED <<store, op, req>>

\* Variant: an acquisition is evaluated whatever the policy's algorithm.
Pick_always_evaluates(p) ==
  /\ pc[p] \in {"pick", "repick"}
  /\ LET w == Winner(Listed, req[p], now)
     IN  /\ w # NoPolicy
         /\ chosen' = [chosen EXCEPT ![p] = w]
         /\ pc' = [pc EXCEPT ![p] = "run"]
  /\ cached' = Listed
  /\ UNCHANGED <<store, op, req, decision>>

\* StartConcurrencyLease goes on with a concurrency policy; with another one
\* it calls Evaluate, which picks again.
Pick(p) ==
  /\ pc[p] \in {"pick", "repick"}
  /\ LET w == Winner(Listed, req[p], now)
     IN  /\ w # NoPolicy
         /\ chosen' = [chosen EXCEPT ![p] = w]
         /\ pc' = [pc EXCEPT ![p] =
              IF op[p] = "check" \/ pc[p] = "repick" THEN "run"
              ELSE IF w.type = "concurrency" THEN "lease" ELSE "repick"]
  /\ cached' = Listed
  /\ UNCHANGED <<store, op, req, decision>>

\* The failure mode decides, also in shadow mode.
handleFailure(w) ==
  [(IF w.failure = "fail_closed" THEN Verdict(FALSE, "deny") ELSE allowDecision)
     EXCEPT !.failed = TRUE]

Shadow(w) == w.mode = "shadow"

\* Some actions let a request through that is over the limit.
OverLimitDecision(w) == Verdict(w.action \in {"delay", "downgrade", "shadow_only"}, w.action)

\* Variant: shadow mode lets the request through, but keeps the action.
Shadowed_keeps_action(w, v) == IF Shadow(w) THEN [v EXCEPT !.allowed = TRUE] ELSE v

\* Evaluate overwrites the verdict of a policy in shadow mode.
Shadowed(w, v) ==
  IF Shadow(w) THEN [v EXCEPT !.allowed = TRUE, !.action = "shadow_only"] ELSE v

\* The algorithm's evaluation, and its verdict.
Evaluated(w, outcome) ==
  IF outcome = "error" THEN handleFailure(w)
  ELSE IF outcome = "within"
       THEN Shadowed(w, [allowDecision EXCEPT !.slot = (w.type = "concurrency")])
       ELSE Shadowed(w, OverLimitDecision(w))

Run(p, outcome) ==
  /\ pc[p] = "run"
  /\ Decide(p, chosen[p], Evaluated(chosen[p], outcome))
  /\ UNCHANGED <<store, cached, op, req>>

\* StartConcurrencyLease asks the store itself.
Leased(w, outcome) ==
  IF outcome = "error" THEN handleFailure(w)
  ELSE IF outcome = "within"
       THEN Shadowed(w, [allowDecision EXCEPT !.slot = TRUE, !.release = TRUE])
       ELSE Shadowed(w, Verdict(FALSE, w.action))

AcquireLease(p, outcome) ==
  /\ pc[p] = "lease"
  /\ Decide(p, chosen[p], Leased(chosen[p], outcome))
  /\ UNCHANGED <<store, cached, op, req>>

-----------------------------------------------------------------------------
(* What the surfaces make of a decision d: what may become of the request *)

Refusing == {"deny", "drop", "drop_low_priority"}

\* HTTP middleware: a delayed client may be gone before the delay is over.
Handler(d) ==
  IF d.action \in Refusing THEN {"refused"}
  ELSE IF d.action = "delay" THEN {"passed", "gone"} ELSE {"passed"}

UnaryServerInterceptor(d) ==
  IF ~d.allowed /\ d.action \in Refusing THEN {"refused"} ELSE {"passed"}

\* The decision APIs over HTTP and gRPC, and the OTEL hook, tell the caller.
CheckHandler(d) == {IF d.allowed THEN "passed" ELSE "refused"}
CheckLimit(d) == {IF d.allowed THEN "passed" ELSE "refused"}
AllowLog(d) == {IF d.allowed THEN "passed" ELSE "refused"}

Answers(d) == <<Handler(d), UnaryServerInterceptor(d), CheckHandler(d), CheckLimit(d), AllowLog(d)>>

-----------------------------------------------------------------------------
Step(p) ==
  \/ PickFails(p) \/ NonePicked(p) \/ Pick(p)
  \/ \E outcome \in {"within", "over", "error"} : Run(p, outcome) \/ AcquireLease(p, outcome)

Next ==
  \/ Tick \/ PoliciesChange \/ CacheExpires
  \/ \E p \in Proc :
       \/ Step(p)
       \/ \E o \in {"check", "acquire"}, r \in Request : Begin(p, o, r)

Spec == Init /\ [][Next]_vars

-----------------------------------------------------------------------------
(* Properties *)

\* Types, and that a request has a policy exactly when it has picked one.
TypeOK ==
  /\ now \in 1..MaxTime /\ changed \in BOOLEAN /\ policies \in Lists /\ cached \in Lists \union {NoEntry}
  /\ pc \in [Proc -> {"idle", "pick", "repick", "run", "lease"}]
  /\ op \in [Proc -> {"check", "acquire"}] /\ req \in [Proc -> Request]
  /\ chosen \in [Proc -> Policy \union {NoPolicy}]
  /\ decision \in [Proc -> [made : BOOLEAN, by : Policy \union {NoPolicy}, allowed : BOOLEAN,
                            action : Action, failed : BOOLEAN, slot : BOOLEAN, release : BOOLEAN]]
  /\ \A p \in Proc : chosen[p] # NoPolicy <=> pc[p] \in {"repick", "run", "lease"}

\* "deterministic tie breaking" (matcher.go:18): which policy decides a request
\* does not depend on the order in which the store lists the policies.
OrderIrrelevant ==
  \A r \in Request, s \in Bijection(DOMAIN policies, Range(policies)) :
    Winner(s, r, now) = Winner(policies, r, now)

\* All requests that one policy decides are charged to one counter, whatever
\* else they differ in: the limit of a policy is a limit on their sum
\* (matcher.go:75-90, builder.go:32-64).
OneCounterPerPolicy ==
  \A r, s \in Request :
    LET w == Winner(policies, r, now)
    IN  w # NoPolicy /\ Winner(policies, s, now) = w => Build(w, r) = Build(w, s)

\* A concurrency slot taken for an acquire request comes with the function that
\* releases it, whatever entries expire between the two picks of the request, as
\* long as no policy changes or starts or ends (engine.go:65-117).
\* "StartConcurrencyLease is a helper path for acquire and release workflows."
\* (engine.go:64)
SlotHasRelease ==
  ~changed =>
    \A p \in Proc : op[p] = "acquire" /\ decision[p].slot => decision[p].release

\* The surfaces agree: what the engine lets through no surface refuses, and what
\* it does not let through all of them refuse, unless the policy's action says
\* what else to do with it (sample; allow).  A policy in shadow mode refuses only
\* if the store failed and the policy fails closed (engine.go:47-61, 172-178,
\* common.go:69-93, middleware.go:52-83, interceptor.go:22-33).
SurfacesAgree ==
  \A p \in Proc :
    LET d == decision[p]
        refused == {i \in DOMAIN Answers(d) : "refused" \in Answers(d)[i]}
    IN  /\ d.made /\ op[p] = "check" =>
             \/ refused = IF d.allowed THEN {} ELSE DOMAIN Answers(d)
             \/ ~d.allowed /\ d.action \in {"sample", "allow"}
        /\ d.by # NoPolicy /\ Shadow(d.by) /\ ~d.allowed =>
             d.failed /\ d.by.failure = "fail_closed"
===============================================================================
