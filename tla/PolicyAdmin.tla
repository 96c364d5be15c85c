----------------------------- MODULE PolicyAdmin -----------------------------
(***************************************************************************)
(* The policies handler of the control plane (internal/adapter/http/       *)
(* controlplane.go) on the file policy store (internal/store/policy/file). *)
(* A store call is one step: it holds the store's lock, and a write        *)
(* replaces the file by a rename, so a crash leaves the old or the new     *)
(* file.  The rollout and rollback requests make two store calls, and      *)
(* other requests run in between.  The announcement of a change, which     *)
(* follows it, is in PolicySync.                                           *)
(*                                                                         *)
(* A policy is its rollout percentage and the rest of it, body.  The file  *)
(* the server starts with may hold policies that have no history; it holds *)
(* no policy twice.                                                        *)
(***************************************************************************)
EXTENDS Integers, Sequences, FiniteSets

CONSTANTS AdminHandler, Id, Body, Rollout,
          Absent,       \* in place of a policy that does not exist
          MaxAudits     \* bound of the changes of one policy

ASSUME AdminAssumption == MaxAudits \in Nat

VARIABLES policies, versions, audits, stage, target, draft

\* The three parts of the file, and what a handler works on: the policy id
\* and the policy it is going to store.
file == <<policies, versions, audits>>
request == <<stage, target, draft>>
adminVars == <<file, request>>

Policy == [body : Body, rollout : Rollout]

AdminInit ==
  /\ policies \in [Id -> Policy \union {Absent}]
  /\ versions = [i \in Id |-> << >>]
  /\ audits = [i \in Id |-> << >>]
  /\ stage = [h \in AdminHandler |-> "idle"]
  /\ target = [h \in AdminHandler |-> Absent]
  /\ draft = [h \in AdminHandler |-> Absent]

-----------------------------------------------------------------------------
(* The store *)

\* Variant: the old value is a pointer into the list, overwritten by the new.
Audited_aliased(i, action, new) ==
  /\ Len(audits[i]) < MaxAudits
  /\ audits' = [audits EXCEPT ![i] =
                  Append(@, [action |-> action, new |-> new,
                             old |-> IF policies[i] = Absent THEN Absent ELSE new])]

\* The entry of the audit log that a store call adds.
Audited(i, action, new) ==
  /\ Len(audits[i]) < MaxAudits
  /\ audits' = [audits EXCEPT ![i] =
                  Append(@, [action |-> action, old |-> policies[i], new |-> new])]

UpsertPolicy(i, p) ==
  LET number == IF versions[i] = << >> THEN 1 ELSE versions[i][Len(versions[i])].version + 1
  IN  /\ policies' = [policies EXCEPT ![i] = p]
      /\ versions' = [versions EXCEPT ![i] = Append(@, [version |-> number, snapshot |-> p])]
      /\ Audited(i, "upsert", p)

\* Variant: the versions go with the policy.
DeletePolicy_drops_versions(i) ==
  /\ policies' = [policies EXCEPT ![i] = Absent]
  /\ versions' = [versions EXCEPT ![i] = << >>]
  /\ Audited(i, "delete", Absent)

\* The versions of a deleted policy stay.
DeletePolicy(i) ==
  /\ policies' = [policies EXCEPT ![i] = Absent]
  /\ Audited(i, "delete", Absent)
  /\ UNCHANGED versions

-----------------------------------------------------------------------------
(* The handlers *)

\* POST and PUT of a whole policy, and DELETE.
HandlePut(h, i, p) ==
  /\ stage[h] = "idle"
  /\ UpsertPolicy(i, p)
  /\ UNCHANGED request

HandleDelete(h, i) ==
  /\ stage[h] = "idle"
  /\ DeletePolicy(i)
  /\ UNCHANGED request

\* A request has read what it needs; to is where it goes on.
Prepared(h, to, i, p) ==
  /\ stage[h] = "idle"
  /\ stage' = [stage EXCEPT ![h] = to]
  /\ target' = [target EXCEPT ![h] = i]
  /\ draft' = [draft EXCEPT ![h] = p]
  /\ UNCHANGED file

\* POST .../rollout: GetPolicyByID, then UpsertPolicy of the changed copy.
RolloutGet(h, i, r) ==
  /\ policies[i] # Absent
  /\ Prepared(h, "rollout", i, [policies[i] EXCEPT !.rollout = r])

\* The version to go back to: the one with the number asked for, or, if that
\* is 0, the last but one.
selectVersionForRollback(i, number) ==
  IF number > 0 THEN {k \in DOMAIN versions[i] : versions[i][k].version = number}
                ELSE {Len(versions[i]) - 1} \ {-1, 0}

\* POST .../rollback: ListPolicyVersions, then UpsertPolicy of a snapshot.
RollbackList(h, i, number) ==
  \E k \in selectVersionForRollback(i, number) :
    Prepared(h, "rollback", i, versions[i][k].snapshot)

\* The second store call of either request, and its end.
Finish(h, from) ==
  /\ stage[h] = from
  /\ UpsertPolicy(target[h], draft[h])
  /\ stage' = [stage EXCEPT ![h] = "idle"]
  /\ target' = [target EXCEPT ![h] = Absent]
  /\ draft' = [draft EXCEPT ![h] = Absent]

\* A request that is refused, or whose store call fails and leaves the file
\* alone, or that ends with a crash of the server.
Fails(h) ==
  /\ stage' = [stage EXCEPT ![h] = "idle"]
  /\ target' = [target EXCEPT ![h] = Absent]
  /\ draft' = [draft EXCEPT ![h] = Absent]
  /\ UNCHANGED file

AdminNext ==
  \E h \in AdminHandler :
    \/ Finish(h, "rollout") \/ Finish(h, "rollback") \/ Fails(h)
    \/ \E i \in Id : \/ HandleDelete(h, i)
                     \/ \E p \in Policy : HandlePut(h, i, p)
                     \/ \E r \in Rollout : RolloutGet(h, i, r)
                     \/ \E number \in 0..MaxAudits : RollbackList(h, i, number)

AdminSpec == AdminInit /\ [][AdminNext]_adminVars

-----------------------------------------------------------------------------
(* Properties *)

\* Types: every version snapshots a policy and every pending request has a
\* policy to store.
AdminTypeOK ==
  /\ policies \in [Id -> Policy \union {Absent}]
  /\ versions \in [Id -> Seq([version : Nat, snapshot : Policy])]
  /\ audits \in [Id -> Seq([action : {"upsert", "delete"},
                           old : Policy \union {Absent}, new : Policy \union {Absent}])]
  /\ stage \in [AdminHandler -> {"idle", "rollout", "rollback"}]
  /\ target \in [AdminHandler -> Id \union {Absent}]
  /\ draft \in [AdminHandler -> Policy \union {Absent}]
  /\ \A h \in AdminHandler : stage[h] # "idle" => target[h] \in Id /\ draft[h] \in Policy

\* The audit trail of a policy has no gap: every entry starts from what the
\* one before left, and the last one left what is stored.  Concurrent
\* requests, failures and crashes do not break it (store.go:105-106, 129-130).
AuditTrail ==
  \A i \in Id :
    LET trail == audits[i]
    IN  /\ \A k \in 1 .. Len(trail) - 1 : trail[k + 1].old = trail[k].new
        /\ trail # << >> => trail[Len(trail)].new = policies[i]

\* The upserts among the first k audited changes of a policy.
Upserts(i, k) == {j \in 1..k : audits[i][j].action = "upsert"}

\* Versions and audits tell the same story: the versions are what the audited
\* upserts stored, in their order and numbered from 1, also across deletions
\* (store.go:97-105).
VersionsMatchAudits ==
  \A i \in Id :
    /\ Len(versions[i]) = Cardinality(Upserts(i, Len(audits[i])))
    /\ \A k \in Upserts(i, Len(audits[i])) :
         LET n == Cardinality(Upserts(i, k))
         IN  versions[i][n] = [version |-> n, snapshot |-> audits[i][k].new]

\* What a rollback is about to store is a version of the policy, whatever
\* other requests, deletions included, did since it was selected: no version
\* is changed or forgotten under it (controlplane.go:344-360).
RollbackRestores ==
  \A h \in AdminHandler :
    stage[h] = "rollback" =>
      \E k \in DOMAIN versions[target[h]] : versions[target[h]][k].snapshot = draft[h]
=============================================================================
