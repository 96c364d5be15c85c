----------------------------- MODULE PolicyCache -----------------------------
(***************************************************************************)
(* The policy cache (internal/store/cache/policy_cache.go) between its     *)
(* callers and the policy store.  A caller either runs the engine's        *)
(* pickPolicy, which calls Get, LoadPolicies and Set one after the other,  *)
(* or the cache's own GetOrLoad (singleflight), which lets one caller per  *)
(* namespace load while others wait for it.                                *)
(*                                                                         *)
(* What the store holds is a version number, raised by every policy        *)
(* change.  superseded[v] is a history variable: when v was replaced, or   *)
(* 0 if it was not.                                                        *)
(***************************************************************************)
EXTENDS Integers, FiniteSets, Functions

CONSTANTS Proc, NoProc, Namespace, NoName,
          Unnamed,            \* the namespace "" of requests without tenant and org
          MaxItems, TTL,
          Stall,              \* bound of a call's duration
          MaxTime, MaxVersion \* bounds of the clock and of policy changes

ASSUME CacheAssumption ==
  /\ NoProc \notin Proc /\ NoName \notin Namespace
  /\ MaxItems \in Nat \ {0} /\ TTL \in Nat \ {0}   \* the constructor's defaults
  /\ Stall \in Nat /\ MaxTime \in Nat /\ MaxVersion \in Nat

VARIABLES singleflight, now, version, items, sfCalls, pc, ns, since, val, leader, superseded

store == <<version, superseded>>
callers == <<pc, ns, since, val, leader>>
clock == <<now, singleflight>>
cacheVars == <<clock, store, items, sfCalls, callers>>

Version == 0..MaxVersion
NoValue == -1     \* nothing loaded yet, or the loader's error

Running == {"get", "join", "wait", "load", "set", "done", "cleanup"}
Ended == {"none", "returned"}

CacheInit ==
  /\ singleflight \in BOOLEAN
  /\ now = 1 /\ version = 0
  /\ items = << >>
  /\ sfCalls = [n \in Namespace |-> NoProc]
  /\ pc = [p \in Proc |-> "none"]
  /\ ns = [p \in Proc |-> NoName]
  /\ since = [p \in Proc |-> 0]
  /\ val = [p \in Proc |-> NoValue]
  /\ leader = [p \in Proc |-> NoProc]
  /\ superseded = [v \in Version |-> 0]

Tick ==
  /\ now < MaxTime
  /\ \A p \in Proc : pc[p] \in Running => now < since[p] + Stall
  /\ now' = now + 1
  /\ UNCHANGED <<singleflight, store, items, sfCalls, callers>>

\* A policy is created, changed or deleted.
Change ==
  /\ version < MaxVersion
  /\ version' = version + 1
  /\ superseded' = [superseded EXCEPT ![version] = now]
  /\ UNCHANGED <<clock, items, sfCalls, callers>>

-----------------------------------------------------------------------------
(* The cache's own operations *)

Fresh(n) == n \in DOMAIN items /\ now <= items[n].expiry

\* The map after one entry with the oldest lastUsed is gone; which one, if
\* there are several, depends on the order of the map.  The key "" is never
\* deleted (policy_cache.go:152).
Evicted(map) ==
  {IF n = Unnamed THEN map ELSE Restrict(map, DOMAIN map \ {n}) :
     n \in {o \in DOMAIN map : \A m \in DOMAIN map : map[o].lastUsed <= map[m].lastUsed}}

Stored(n, v) ==
  LET entry == [value |-> v, expiry |-> now + TTL, lastUsed |-> now]
      map   == [m \in DOMAIN items \union {n} |-> IF m = n THEN entry ELSE items[m]]
  IN  items' \in IF Cardinality(DOMAIN map) > MaxItems THEN Evicted(map) ELSE {map}

Invalidate(n) ==
  /\ n \in DOMAIN items
  /\ items' = Restrict(items, DOMAIN items \ {n})
  /\ UNCHANGED <<clock, store, sfCalls, callers>>

\* The sweep works with an instant it read before it got the lock.
sweep ==
  /\ \E t \in 1..now :
       items' = Restrict(items, {n \in DOMAIN items : t <= items[n].expiry})
  /\ items' # items
  /\ UNCHANGED <<clock, store, sfCalls, callers>>

-----------------------------------------------------------------------------
(* A call of pickPolicy or GetOrLoad *)

Start(p, n) ==
  /\ pc[p] \in Ended
  /\ pc' = [pc EXCEPT ![p] = "get"]
  /\ ns' = [ns EXCEPT ![p] = n]
  /\ since' = [since EXCEPT ![p] = now]
  /\ val' = [val EXCEPT ![p] = NoValue]
  /\ UNCHANGED <<clock, store, items, sfCalls, leader>>

\* The callers P return the value v.
Return(P, v) ==
  LET reset(f, x) == [p \in Proc |-> IF p \in P THEN x ELSE f[p]]
  IN  /\ pc' = reset(pc, "returned")
      /\ val' = reset(val, v)
      /\ ns' = reset(ns, NoName)
      /\ since' = reset(since, 0)
      /\ leader' = reset(leader, NoProc)

\* Variant: a hit renews the entry.
Get_renews(p) ==
  LET n == ns[p]
  IN  /\ pc[p] = "get"
      /\ IF Fresh(n)
         THEN /\ Return({p}, items[n].value)
              /\ items' = [items EXCEPT ![n].expiry = now + TTL]
         ELSE /\ pc' = [pc EXCEPT ![p] = IF singleflight THEN "join" ELSE "load"]
              /\ UNCHANGED <<items, ns, since, val, leader>>
      /\ UNCHANGED <<clock, store, sfCalls>>

Get(p) ==
  LET n == ns[p]
  IN  /\ pc[p] = "get"
      /\ IF Fresh(n)
         THEN Return({p}, items[n].value)
         ELSE /\ pc' = [pc EXCEPT ![p] = IF singleflight THEN "join" ELSE "load"]
              /\ UNCHANGED <<ns, since, val, leader>>
      /\ UNCHANGED <<clock, store, items, sfCalls>>

\* Variant: does not look for a call in progress.
Join_always_leads(p) ==
  /\ pc[p] = "join"
  /\ sfCalls' = [sfCalls EXCEPT ![ns[p]] = p]
  /\ pc' = [pc EXCEPT ![p] = "load"]
  /\ UNCHANGED <<clock, store, items, ns, since, val, leader>>

\* Under sfMu: wait for the call in progress, or become it.
Join(p) ==
  LET q == sfCalls[ns[p]]
  IN  /\ pc[p] = "join"
      /\ \/ /\ q # NoProc
            /\ leader' = [leader EXCEPT ![p] = q]
            /\ pc' = [pc EXCEPT ![p] = "wait"]
            /\ UNCHANGED sfCalls
         \/ /\ q = NoProc
            /\ sfCalls' = [sfCalls EXCEPT ![ns[p]] = p]
            /\ pc' = [pc EXCEPT ![p] = "load"]
            /\ UNCHANGED leader
      /\ UNCHANGED <<clock, store, items, ns, since, val>>

Load(p) ==
  /\ pc[p] = "load"
  /\ val' = [val EXCEPT ![p] = version]
  /\ pc' = [pc EXCEPT ![p] = "set"]
  /\ UNCHANGED <<clock, store, items, sfCalls, ns, since, leader>>

\* Variant: an early return, past wg.Done and the removal of the call.
LoadFails_skips_done(p) ==
  /\ pc[p] = "load"
  /\ Return({p}, NoValue)
  /\ UNCHANGED <<clock, store, items, sfCalls>>

\* The store fails: nothing is cached.
LoadFails(p) ==
  /\ pc[p] = "load"
  /\ IF singleflight
     THEN pc' = [pc EXCEPT ![p] = "done"] /\ UNCHANGED <<ns, since, val, leader>>
     ELSE Return({p}, NoValue)
  /\ UNCHANGED <<clock, store, items, sfCalls>>

Set(p) ==
  /\ pc[p] = "set"
  /\ Stored(ns[p], val[p])
  /\ IF singleflight
     THEN pc' = [pc EXCEPT ![p] = "done"] /\ UNCHANGED <<ns, since, val, leader>>
     ELSE Return({p}, val[p])
  /\ UNCHANGED <<clock, store, sfCalls>>

\* call.wg.Done: the waiters wake up, with the call's result.  A caller that
\* joins after this finds the call, and its result, until it is removed.
Done(p) ==
  /\ pc[p] = "done"
  /\ pc' = [pc EXCEPT ![p] = "cleanup"]
  /\ UNCHANGED <<clock, store, items, sfCalls, ns, since, val, leader>>

Wake(p) ==
  /\ pc[p] = "wait"
  /\ pc[leader[p]] = "cleanup"
  /\ Return({p}, val[leader[p]])
  /\ UNCHANGED <<clock, store, items, sfCalls>>

\* The leader removes its call and returns.  Waiters that have not run yet
\* hold the call and its result: they return with it in this step.
Cleanup(p) ==
  /\ pc[p] = "cleanup"
  /\ sfCalls' = [sfCalls EXCEPT ![ns[p]] = NoProc]
  /\ Return({q \in Proc : q = p \/ leader[q] = p}, val[p])
  /\ UNCHANGED <<clock, store, items>>

Step(p) ==
  Get(p) \/ Join(p) \/ Load(p) \/ LoadFails(p) \/ Set(p) \/ Done(p) \/ Wake(p) \/ Cleanup(p)

CacheNext ==
  \/ Tick \/ Change \/ sweep
  \/ \E n \in Namespace : Invalidate(n)
  \/ \E p \in Proc : Step(p) \/ \E n \in Namespace : Start(p, n)

CacheSpec == CacheInit /\ [][CacheNext]_cacheVars

\* Callers keep running, and the store's LoadPolicies returns.
FairCacheSpec == CacheSpec /\ \A p \in Proc : WF_cacheVars(Step(p))

-----------------------------------------------------------------------------
(* Properties *)

\* Types.
CacheTypeOK ==
  /\ singleflight \in BOOLEAN /\ now \in Nat /\ version \in Version
  /\ DOMAIN items \subseteq Namespace
  /\ \A n \in DOMAIN items : items[n] \in [value : Version, expiry : Nat, lastUsed : 1..now]
  /\ sfCalls \in [Namespace -> Proc \union {NoProc}]
  /\ pc \in [Proc -> Running \union Ended]
  /\ ns \in [Proc -> Namespace \union {NoName}] /\ since \in [Proc -> 0..now]
  /\ val \in [Proc -> Version \union {NoValue}]
  /\ leader \in [Proc -> Proc \union {NoProc}]

\* GetOrLoad's calls: one caller at a time loads a namespace, and whoever waits
\* does so for a call of its own namespace that is under way.
LoadsSerialised ==
  /\ singleflight => \A p, q \in Proc :
       {pc[p], pc[q]} \subseteq {"load", "set"} /\ ns[p] = ns[q] => p = q
  /\ \A p \in Proc : pc[p] = "wait" => /\ pc[leader[p]] \in {"load", "set", "done", "cleanup"}
                                       /\ ns[leader[p]] = ns[p]

\* At any time at most one caller of GetOrLoad loads a namespace, and nobody
\* waits for a call that is gone, however cache misses, failed loads and the
\* removal of the call interleave (policy_cache.go:166-187).  Through all of it
\* the "max-entries cap" (policy_cache.go:27) is kept.
OneLoadAtATime == LoadsSerialised /\ Cardinality(DOMAIN items) <= MaxItems

\* Policies in use may be out of date, but never by more than the cache's
\* ttl plus the duration of a call: a load that was overtaken by a change is
\* not kept alive by later hits, nor by loads of other callers, and an
\* invalidation is not needed for it (policy_cache.go:76-96, engine.go:129-137).
BoundedStaleness ==
  [][\A p \in Proc :
       pc[p] \in Running /\ pc'[p] = "returned" /\ val'[p] # NoValue /\ superseded[val'[p]] # 0
         => now - superseded[val'[p]] <= TTL + Stall]_cacheVars

\* Every caller returns: nobody waits for a call that is gone, also when the
\* load fails (policy_cache.go:167-187).
CallersReturn == \A p \in Proc : pc[p] \in Running ~> pc[p] \in Ended
=============================================================================
