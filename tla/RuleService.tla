----------------------------- MODULE RuleService -----------------------------
(***************************************************************************)
(* RuleService (include/upf/application/rule_service.hpp,                  *)
(* src/application/rule_service.cpp): the ruleset the operator intends,    *)
(* the one in force, and the version the dataplane confirmed.  Its actions *)
(* are composed with the dataplane and the reconciliation in ControlPlane. *)
(***************************************************************************)
EXTENDS Runtime

CONSTANTS RuleSets,         \* the rulesets update may be called with
          UpdateIds,        \* the ids of updates and deletes, "" among them
          RemoveVersions    \* the versions remove may be called with

ASSUME RuleSetsAssumption == \A rs \in RuleSets : WellTypedRuleSet(rs)

VARIABLES intended,         \* intended_, Optional
          active,           \* active_, Optional
          appliedVersion,   \* appliedVersion_, 0 before any
          latestUpdateId,   \* latestUpdateId_
          runtime           \* runtime_

serviceVars == <<intended, active, appliedVersion, latestUpdateId, runtime>>

ServiceInit ==
  /\ intended = {} /\ active = {} /\ appliedVersion = 0
  /\ latestUpdateId = "" /\ runtime = NoRuntime

UpdateAllowed(updateId, candidate) ==
  /\ updateId # ""
  /\ \A rs \in active : candidate.version > rs.version
  /\ ValidateRuleSet(candidate)

\* update.  It leaves appliedVersion_ alone: the dataplane has yet to apply.
Update(updateId, candidate) ==
  /\ UpdateAllowed(updateId, candidate)
  /\ runtime' = Migrated(runtime, candidate)
  /\ intended' = {candidate} /\ active' = {candidate}
  /\ latestUpdateId' = updateId
  /\ UNCHANGED appliedVersion

RefuseUpdate(updateId, candidate) ==
  /\ ~ UpdateAllowed(updateId, candidate)
  /\ UNCHANGED serviceVars

RemoveAllowed(updateId, version) ==
  updateId # "" /\ \E rs \in active : version > rs.version

\* Mutant: the deleted ruleset stays in force.
RemoveIntended(updateId, version) ==
  /\ RemoveAllowed(updateId, version)
  /\ intended' = {}
  /\ latestUpdateId' = updateId
  /\ UNCHANGED <<active, appliedVersion, runtime>>

\* remove.  Neither appliedVersion_ nor the runtime state is cleared, and the
\* version of the delete is not kept.
Remove(updateId, version) ==
  /\ RemoveAllowed(updateId, version)
  /\ intended' = {} /\ active' = {}
  /\ latestUpdateId' = updateId
  /\ UNCHANGED <<appliedVersion, runtime>>

RefuseRemove(updateId, version) ==
  /\ ~ RemoveAllowed(updateId, version)
  /\ UNCHANGED serviceVars

\* Mutant: any applied version counts.
ConvergenceOfAny ==
  IF appliedVersion = 0 THEN (IF intended = {} THEN "EMPTY" ELSE "DIVERGENT")
  ELSE IF intended # {} THEN "CONVERGED" ELSE "DIVERGENT"

Convergence ==
  IF intended = {} /\ appliedVersion = 0 THEN "EMPTY"
  ELSE IF \E rs \in intended : rs.version = appliedVersion THEN "CONVERGED"
  ELSE "DIVERGENT"

\* markApplied: a late answer for another update is ignored.
MarkApplied(updateId, version) ==
  /\ appliedVersion' =
       IF updateId = latestUpdateId /\ \E rs \in intended : rs.version = version
       THEN version ELSE appliedVersion
  /\ UNCHANGED <<intended, active, latestUpdateId, runtime>>

OneMore(usage) == [usage EXCEPT !.packets = @ + 1, !.payloadBytes = @ + 1]

\* A holder of the reference runtime() counts a packet on a URR.
Account(id) ==
  /\ id \in DOMAIN runtime.urrs
  /\ runtime' = [runtime EXCEPT !.urrs[id] = OneMore(@)]
  /\ UNCHANGED <<intended, active, appliedVersion, latestUpdateId>>
=============================================================================
