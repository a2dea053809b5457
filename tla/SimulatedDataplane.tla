------------------------- MODULE SimulatedDataplane -------------------------
(***************************************************************************)
(* SimulatedDataplane (include/upf/ports/dataplane_adapter.hpp,            *)
(* src/adapters/simulated_dataplane.cpp): the adapter that answers apply   *)
(* from a script and remembers what it has applied or will apply later.    *)
(*                                                                         *)
(* The key updateId:version ends with digits and its last colon splits it, *)
(* so it is the pair.                                                      *)
(***************************************************************************)
EXTENDS Sequences

AdapterOutcome == {"SUCCESS", "DELAYED_SUCCESS", "TRANSIENT_FAILURE", "PERMANENT_FAILURE"}

CONSTANT Scripts   \* the sequences of outcomes an adapter may be built with

ASSUME ScriptsAssumption == Scripts \subseteq Seq(AdapterOutcome)

VARIABLES outcomes,   \* outcomes_ from next_ on
          applied,    \* applied_
          delayed     \* delayed_

adapterVars == <<outcomes, applied, delayed>>

AdapterInit == outcomes \in Scripts /\ applied = {} /\ delayed = {}

Key(updateId, version) == <<updateId, version>>

\* The script is consulted for an update that is not applied yet; after its
\* end everything succeeds.
Scripted(updateId, version) ==
  Key(updateId, version) \notin applied /\ outcomes # <<>>

Outcome(updateId, version) ==
  IF Scripted(updateId, version) THEN Head(outcomes) ELSE "SUCCESS"

\* Mutant: next_ is not advanced.
ApplyInPlace(updateId, version) ==
  /\ applied' = applied \cup
       IF Outcome(updateId, version) = "SUCCESS" THEN {Key(updateId, version)} ELSE {}
  /\ delayed' = delayed \cup
       IF Outcome(updateId, version) = "DELAYED_SUCCESS" THEN {Key(updateId, version)} ELSE {}
  /\ UNCHANGED outcomes

Apply(updateId, version) ==
  /\ outcomes' = IF Scripted(updateId, version) THEN Tail(outcomes) ELSE outcomes
  /\ applied' = applied \cup
       IF Outcome(updateId, version) = "SUCCESS" THEN {Key(updateId, version)} ELSE {}
  /\ delayed' = delayed \cup
       IF Outcome(updateId, version) = "DELAYED_SUCCESS" THEN {Key(updateId, version)} ELSE {}

\* Mutant: a delayed update is completed although others replaced it.
CompletesStale(updateId, version, latestId, latestVersion) ==
  Key(updateId, version) \in delayed \ applied

\* What completeDelayed does when it returns true for an update that was
\* delayed and is still the latest.
Completes(updateId, version, latestId, latestVersion) ==
  /\ Key(updateId, version) \notin applied
  /\ updateId = latestId /\ version = latestVersion
  /\ Key(updateId, version) \in delayed

\* The value completeDelayed returns.
Completed(updateId, version, latestId, latestVersion) ==
  \/ Key(updateId, version) \in applied
  \/ Completes(updateId, version, latestId, latestVersion)

CompleteDelayed(updateId, version, latestId, latestVersion) ==
  /\ IF Completes(updateId, version, latestId, latestVersion)
     THEN /\ applied' = applied \cup {Key(updateId, version)}
          /\ delayed' = delayed \ {Key(updateId, version)}
     ELSE UNCHANGED <<applied, delayed>>
  /\ UNCHANGED outcomes
=============================================================================
