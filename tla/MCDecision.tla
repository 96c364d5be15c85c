------------------------------ MODULE MCDecision ------------------------------
(* Decision with three fields, one of them a tag, and a few policies. *)
EXTENDS Decision, TLC

a == <<"a">>
b == <<"b">>

MCField == {"service", "user", "zone"}
MCTag == {"zone"}
MCRequest == [service : {a, b}, user : {a, Unset}, zone : {a, b}]

\* Half of the requests are in the first half of a rollout.
MCBucket == [x \in (1..4) \X MCRequest |-> IF x[2].zone = a THEN 20 ELSE 70]

ScopeOf(f, v) == [g \in MCField |-> IF g = f THEN v ELSE Unset]
PolicyOf(id, f, v) ==
  [id |-> id, enabled |-> TRUE, priority |-> 1, scope |-> ScopeOf(f, v), expr |-> {},
   from |-> 0, to |-> 0, rollout |-> 100, type |-> "fixed_window", mode |-> "enforce",
   failure |-> "fail_closed", action |-> "deny"]

Service == PolicyOf(1, "service", a)
Twin == [PolicyOf(2, "service", a) EXCEPT !.expr = {[field |-> "zone", op |-> "!=", value |-> b]}]
Zone == [PolicyOf(3, "zone", b) EXCEPT !.mode = "shadow", !.action = "drop"]
User == [PolicyOf(4, "user", a) EXCEPT !.action = "drop_low_priority"]
Slots == [Service EXCEPT !.type = "concurrency"]

\* Ties, tags, expressions, rollouts, validity and priorities.
MatchingLists == {
  <<Service, Twin, Zone>>,
  <<[Service EXCEPT !.priority = 2], PolicyOf(2, "service", a), User>>,
  <<[Service EXCEPT !.rollout = 50], [User EXCEPT !.from = 2], [Zone EXCEPT !.to = 2]>>,
  <<[Twin EXCEPT !.expr = {[field |-> "zone", op |-> "none", value |-> b]}],
    [User EXCEPT !.enabled = FALSE], [PolicyOf(3, "service", Unset) EXCEPT !.action = "sample"]>>}

\* Acquire requests under policies of both kinds.
LeaseLists == {<<[Slots EXCEPT !.mode = "shadow"]>>, <<Service>>,
               <<Slots, [User EXCEPT !.priority = 2, !.action = "delay"]>>,
               <<[Slots EXCEPT !.rollout = 50, !.failure = "fail_open"], Zone>>}

MCLists == MatchingLists \union LeaseLists
===============================================================================
