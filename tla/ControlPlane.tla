---------------------------- MODULE ControlPlane ----------------------------
(***************************************************************************)
(* The control plane: RuleService and SimulatedDataplane driven by the     *)
(* operator and by ReconciliationController (include/upf/application/      *)
(* reconciliation.hpp, src/application/reconciliation.cpp).                *)
(*                                                                         *)
(* All of it runs on one thread.  The retry loop of reconcile is modelled  *)
(* attempt by attempt, and nothing else runs until it returns.             *)
(***************************************************************************)
EXTENDS RuleService, SimulatedDataplane

CONSTANTS MaximumAttempts,   \* maximumAttempts_
          UInt32Max,         \* the largest attempt number
          MaxUsage           \* bound: packets counted on a URR in the model

ASSUME AttemptsAssumption == UInt32Max \in Nat /\ MaximumAttempts \in 0 .. UInt32Max
ASSUME MaxUsageAssumption == MaxUsage \in 0 .. UInt64Max

VARIABLES
  loop,       \* reconcile: whether it runs, the snapshot it took, the attempt
  status,     \* ReconciliationStatus of the reconcile that runs or ran last
  answer,     \* history: the adapter's last answer to it, "NONE" after other calls
  accepted    \* history: the highest version update accepted, and whether
              \* each one was higher than all before

vars == <<serviceVars, adapterVars, loop, status, answer, accepted>>

Idle      == [running |-> FALSE, snapshot |-> {}, attempt |-> 0]
NewStatus == [converged |-> FALSE, attempts |-> 0, delayed |-> FALSE]

Init ==
  /\ ServiceInit /\ AdapterInit
  /\ loop = Idle /\ status = NewStatus /\ answer = "NONE"
  /\ accepted = [highest |-> 0, increasing |-> TRUE]

-----------------------------------------------------------------------------
(* The operator.                                                           *)

Operate == answer' = "NONE" /\ UNCHANGED <<loop, status>>

DoUpdate(updateId, candidate) ==
  /\ Operate /\ UNCHANGED adapterVars
  /\ Update(updateId, candidate)
  /\ accepted' = [highest    |-> IF candidate.version > accepted.highest
                                 THEN candidate.version ELSE accepted.highest,
                  increasing |-> accepted.increasing /\ candidate.version > accepted.highest]

DoRefuseUpdate(updateId, candidate) ==
  /\ Operate /\ UNCHANGED <<adapterVars, accepted>>
  /\ RefuseUpdate(updateId, candidate)

DoRemove(updateId, version) ==
  /\ Operate /\ UNCHANGED <<adapterVars, accepted>>
  /\ Remove(updateId, version) \/ RefuseRemove(updateId, version)

DoAccount(id) ==
  /\ Operate /\ UNCHANGED <<adapterVars, accepted>>
  /\ runtime.urrs[id].packets < MaxUsage
  /\ Account(id)

\* The due time of a delayed update has come.  No code of the repository
\* drives this: a caller asks the adapter with the service's latest update,
\* and reports a completion to the service.
LateCompletion(updateId, version) ==
  /\ Operate /\ UNCHANGED accepted
  /\ \E latest \in {rs.version : rs \in intended} \cup IF intended = {} THEN {0} ELSE {} :
       /\ CompleteDelayed(updateId, version, latestUpdateId, latest)
       /\ IF Completed(updateId, version, latestUpdateId, latest)
          THEN MarkApplied(updateId, version) ELSE UNCHANGED serviceVars

-----------------------------------------------------------------------------
(* reconcile                                                               *)

ReconcileNothing ==
  /\ ~ loop.running /\ (intended = {} \/ MaximumAttempts = 0)
  /\ status' = NewStatus /\ answer' = "NONE"
  /\ UNCHANGED <<serviceVars, adapterVars, loop, accepted>>

ReconcileStart ==
  /\ ~ loop.running /\ intended # {} /\ MaximumAttempts # 0
  /\ status' = NewStatus /\ answer' = "NONE"
  /\ loop' = [running |-> TRUE, snapshot |-> intended, attempt |-> 1]
  /\ UNCHANGED <<serviceVars, adapterVars, accepted>>

Version == Value(loop.snapshot).version

Attempt ==
  LET outcome == Outcome(latestUpdateId, Version)
  IN  /\ loop.running /\ loop.attempt <= MaximumAttempts
      /\ Apply(latestUpdateId, Version)
      /\ answer' = outcome
      /\ status' = [converged |-> outcome = "SUCCESS",
                    attempts  |-> (status.attempts + 1) % (UInt32Max + 1),
                    delayed   |-> outcome = "DELAYED_SUCCESS"]
      /\ IF outcome = "SUCCESS" THEN MarkApplied(latestUpdateId, Version)
                                ELSE UNCHANGED serviceVars
      /\ loop' = IF outcome = "TRANSIENT_FAILURE"
                 THEN [loop EXCEPT !.attempt = (@ + 1) % (UInt32Max + 1)] ELSE Idle
      /\ UNCHANGED accepted

\* Mutant: the last attempt is not made.
GiveUpEarly ==
  /\ loop.running /\ loop.attempt >= MaximumAttempts
  /\ loop' = Idle
  /\ UNCHANGED <<serviceVars, adapterVars, status, answer, accepted>>

GiveUp ==
  /\ loop.running /\ loop.attempt > MaximumAttempts
  /\ loop' = Idle
  /\ UNCHANGED <<serviceVars, adapterVars, status, answer, accepted>>

-----------------------------------------------------------------------------
Versions == {rs.version : rs \in RuleSets}

\* A call begins when no other runs.
Next ==
  \/ ~ loop.running /\ \E u \in UpdateIds, rs \in RuleSets :
       DoUpdate(u, rs) \/ DoRefuseUpdate(u, rs)
  \/ ~ loop.running /\ \E u \in UpdateIds, v \in RemoveVersions : DoRemove(u, v)
  \/ ~ loop.running /\ \E u \in UpdateIds, v \in Versions : LateCompletion(u, v)
  \/ ~ loop.running /\ \E id \in DOMAIN runtime.urrs : DoAccount(id)
  \/ ReconcileNothing \/ ReconcileStart \/ Attempt \/ GiveUp

\* reconcile is a loop on the caller's thread: once entered it goes on.
Spec == Init /\ [][Next]_vars /\ WF_vars(Attempt \/ GiveUp)

-----------------------------------------------------------------------------
(* Properties.                                                             *)

\* The shapes of the states, and the loop's snapshot exists while it runs.
TypeOK ==
  /\ intended \in Optional(RuleSets) /\ active = intended
  /\ appliedVersion \in {0} \cup Versions
  /\ latestUpdateId \in UpdateIds \cup {""}
  /\ \A id \in DOMAIN runtime.urrs : runtime.urrs[id] \in UsageCounterState
  /\ outcomes \in Seq(AdapterOutcome)
  /\ applied \subseteq UpdateIds \X Versions /\ delayed \subseteq UpdateIds \X Versions
  /\ loop.running => loop.snapshot = intended /\ loop.snapshot # {}
  /\ loop.attempt \in 0 .. UInt32Max
  /\ status.attempts \in 0 .. UInt32Max

Current == {Key(latestUpdateId, rs.version) : rs \in intended}

\* CONVERGED is never announced for rules the dataplane has not applied, as
\* long as the operator's versions only increase, deletes included: answers
\* that come late, twice or after another update do not count for the
\* intended ruleset.
ConvergedIsApplied ==
  accepted.increasing /\ Convergence = "CONVERGED" => Current \subseteq applied

\* "stale work cannot replace the latest intended version": whenever the
\* dataplane applies an update, it is the latest one of the service, also
\* when it was delayed before others replaced it, and only that version is
\* ever marked applied.
StaleNeverApplied ==
  [][/\ applied' \ applied \subseteq Current
     /\ appliedVersion' # appliedVersion =>
          \E k \in Current : k[2] = appliedVersion' /\ k \in applied']_vars

\* What reconcile returns is true of the service: SUCCESS has converged it;
\* a delayed or permanent failure has left it divergent (for increasing
\* versions); it gave up only after exactly the attempts it may make.
StatusIsTruthful ==
  ~ loop.running /\ answer # "NONE" =>
    /\ status.attempts \in 1 .. MaximumAttempts
    /\ status.converged <=> answer = "SUCCESS"
    /\ status.converged => Convergence = "CONVERGED" /\ Current \subseteq applied
    /\ ~ status.converged /\ accepted.increasing => Convergence = "DIVERGENT"
    /\ status.delayed => Current \subseteq delayed \ applied
    /\ answer = "TRANSIENT_FAILURE" => status.attempts = MaximumAttempts

\* The counters of a URR outlive every update and delete that keeps its
\* generation, and start from nothing in a new one.
CountersSurvive ==
  [][\A id \in DOMAIN runtime.urrs \cap DOMAIN runtime'.urrs :
       IF runtime'.urrGenerations[id] = runtime.urrGenerations[id]
       THEN runtime'.urrs[id].payloadBytes >= runtime.urrs[id].payloadBytes
       ELSE runtime'.urrs[id] = FreshUsage]_vars

\* When the operator rests and reconcile is called again and again, the
\* service converges, whatever failures the adapter had in store: each call
\* ends, and each uses up some of the failures or succeeds.
ReconciliationConverges ==
  (/\ []<><<ReconcileStart>>_vars
   /\ <>[][UNCHANGED <<intended, latestUpdateId>>]_vars)
     => <>[](intended = {} \/ Convergence = "CONVERGED")

-----------------------------------------------------------------------------
(* What the tests say and the code does not do.                            *)

\* tests/state/reconciliation_tests.cpp: "permanent failure remains divergent".
PermanentFailureRemainsDivergent ==
  ~ loop.running /\ answer = "PERMANENT_FAILURE" => Convergence = "DIVERGENT"
=============================================================================
