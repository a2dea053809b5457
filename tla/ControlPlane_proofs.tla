------------------------ MODULE ControlPlane_proofs ------------------------
(***************************************************************************)
(* Proofs about the rule service, the dataplane adapter and the            *)
(* reconciliation between them, for all rulesets, adapter scripts and      *)
(* numbers of attempts.                                                    *)
(***************************************************************************)
EXTENDS ControlPlane, Runtime_proofs, SequenceTheorems

\* The update the dataplane should apply has an id and a version that is not
\* zero, and the loop works on it.
IntentInv ==
  /\ intended \in Optional(RuleSets) /\ active = intended
  /\ \A rs \in intended : ValidateRuleSet(rs)
  /\ latestUpdateId \in UpdateIds \cup {""}
  /\ intended # {} => latestUpdateId \in UpdateIds
  /\ loop \in [running : BOOLEAN, snapshot : {loop.snapshot}, attempt : 0 .. UInt32Max]
  /\ loop.running => loop.snapshot = intended /\ loop.snapshot # {}
  /\ status \in [converged : BOOLEAN, attempts : 0 .. UInt32Max, delayed : BOOLEAN]

\* What the adapter has taken up were updates of a version that is not zero.
AdapterInv ==
  /\ outcomes \in Seq(AdapterOutcome)
  /\ applied \subseteq UpdateIds \X (Versions \ {0})
  /\ delayed \subseteq UpdateIds \X (Versions \ {0})

\* The runtime state is typed; in this model each packet is one byte.
CountersInv ==
  /\ WellTypedRuntime(runtime)
  /\ DOMAIN runtime.urrGenerations = DOMAIN runtime.urrs
  /\ \A id \in DOMAIN runtime.urrs : runtime.urrs[id].payloadBytes = runtime.urrs[id].packets

\* No version in use is higher than the highest accepted, and with increasing
\* versions a confirmed one was confirmed for the update it belongs to.
VersionsInv ==
  /\ accepted \in [highest : Nat, increasing : BOOLEAN]
  /\ appliedVersion \in {0} \cup Versions
  /\ appliedVersion <= accepted.highest
  /\ \A rs \in intended : rs.version <= accepted.highest
  /\ ConvergedIsApplied

\* What the loop knows of its attempts while it runs, and what is left of
\* them when it has returned.
AttemptsInv ==
  /\ loop.running =>
       /\ MaximumAttempts # 0
       /\ loop.attempt \in 1 .. MaximumAttempts + 1
       /\ status.attempts = loop.attempt - 1
       /\ ~ status.converged /\ ~ status.delayed
       /\ answer = IF loop.attempt = 1 THEN "NONE" ELSE "TRANSIENT_FAILURE"
  /\ ~ loop.running /\ answer # "NONE" =>
       /\ answer \in AdapterOutcome
       /\ status.attempts \in 1 .. MaximumAttempts
       /\ status.converged <=> answer = "SUCCESS"
       /\ status.delayed <=> answer = "DELAYED_SUCCESS"
       /\ answer = "TRANSIENT_FAILURE" => status.attempts = MaximumAttempts
       /\ answer = "SUCCESS" => Convergence = "CONVERGED" /\ Current \subseteq applied
       /\ answer = "DELAYED_SUCCESS" => Current \subseteq delayed
  /\ answer \notin {"NONE", "SUCCESS"} => intended # {} /\ Current \cap applied = {}

IInv == IntentInv /\ AdapterInv /\ CountersInv /\ VersionsInv

-----------------------------------------------------------------------------
(* The intended update.                                                    *)

\* The intended ruleset, and the key the dataplane should apply.
LEMMA IntendedFacts ==
  ASSUME IntentInv, NEW rs \in intended
  PROVE  /\ intended = {rs} /\ rs \in RuleSets
         /\ WellTypedRuleSet(rs) /\ ValidateRuleSet(rs)
         /\ rs.version \in Nat \ {0} /\ rs.version \in Versions \ {0}
         /\ latestUpdateId \in UpdateIds
         /\ Current = {<<latestUpdateId, rs.version>>}
         /\ loop.running => Version = rs.version
PROOF
  <1>1. intended = {rs} /\ rs \in RuleSets /\ ValidateRuleSet(rs)
    BY DEF IntentInv, Optional
  <1>2. WellTypedRuleSet(rs)
    BY <1>1, RuleSetsAssumption
  <1>3. rs.version \in Nat \ {0}
    <2>1. rs.version # 0
      BY <1>1 DEF ValidateRuleSet
    <2>2. rs.version \in UInt64
      BY <1>2 DEF WellTypedRuleSet
    <2> QED BY <2>1, <2>2, UInt64MaxAssumption DEF UInt64
  <1>4. Current = {<<latestUpdateId, rs.version>>}
    BY <1>1 DEF Current, Key
  <1>5. loop.running => Version = rs.version
    BY <1>1, ValueOfSingleton DEF IntentInv, Version
  <1> QED BY <1>1, <1>2, <1>3, <1>4, <1>5 DEF IntentInv, Versions

\* Remainders of a 32-bit attempt number.
LEMMA AttemptWraps ==
  ASSUME NEW n \in 0 .. UInt32Max
  PROVE  /\ (n + 1) % (UInt32Max + 1) \in 0 .. UInt32Max
         /\ n < UInt32Max => (n + 1) % (UInt32Max + 1) = n + 1
PROOF
  BY AttemptsAssumption

\* What an attempt does with the loop and the status.
LEMMA AttemptFields ==
  ASSUME IntentInv, Attempt
  PROVE  /\ loop' \in [running : BOOLEAN, snapshot : {loop'.snapshot}, attempt : 0 .. UInt32Max]
         /\ status' \in [converged : BOOLEAN, attempts : 0 .. UInt32Max, delayed : BOOLEAN]
         /\ status'.attempts = (status.attempts + 1) % (UInt32Max + 1)
         /\ status'.converged <=> answer' = "SUCCESS"
         /\ status'.delayed <=> answer' = "DELAYED_SUCCESS"
         /\ answer' = Outcome(latestUpdateId, Version)
         /\ IF answer' = "TRANSIENT_FAILURE"
            THEN /\ loop'.running /\ loop'.snapshot = loop.snapshot
                 /\ loop'.attempt = (loop.attempt + 1) % (UInt32Max + 1)
            ELSE ~ loop'.running
PROOF
  <1> DEFINE o == Outcome(latestUpdateId, Version)
             s == (status.attempts + 1) % (UInt32Max + 1)
             n == (loop.attempt + 1) % (UInt32Max + 1)
  <1>1. s \in 0 .. UInt32Max /\ n \in 0 .. UInt32Max
    BY AttemptWraps DEF IntentInv
  <1>2. /\ answer' = o
        /\ status' = [converged |-> o = "SUCCESS", attempts |-> s,
                      delayed |-> o = "DELAYED_SUCCESS"]
        /\ loop' = IF o = "TRANSIENT_FAILURE"
                   THEN [loop EXCEPT !.attempt = n] ELSE Idle
        /\ loop.running
    BY DEF Attempt
  <1> HIDE DEF o, s, n
  <1>3. /\ status' \in [converged : BOOLEAN, attempts : 0 .. UInt32Max, delayed : BOOLEAN]
        /\ status'.attempts = s
        /\ status'.converged <=> o = "SUCCESS"
        /\ status'.delayed <=> o = "DELAYED_SUCCESS"
    BY <1>1, <1>2
  <1>4. CASE o = "TRANSIENT_FAILURE"
    <2>1. loop' = [loop EXCEPT !.attempt = n]
      BY <1>2, <1>4
    <2>2. /\ loop' \in [running : BOOLEAN, snapshot : {loop'.snapshot}, attempt : 0 .. UInt32Max]
          /\ loop'.running /\ loop'.snapshot = loop.snapshot /\ loop'.attempt = n
      BY <1>1, <1>2, <2>1 DEF IntentInv
    <2> QED BY <1>2, <1>3, <1>4, <2>2 DEF s, n, o
  <1>5. CASE o # "TRANSIENT_FAILURE"
    <2>1. loop' = Idle
      BY <1>2, <1>5
    <2>2. /\ loop' \in [running : BOOLEAN, snapshot : {loop'.snapshot}, attempt : 0 .. UInt32Max]
          /\ ~ loop'.running
      BY <2>1, AttemptsAssumption DEF Idle
    <2> QED BY <1>2, <1>3, <1>5, <2>2 DEF s, o
  <1> QED BY <1>4, <1>5

\* The loop at rest and a new status.
LEMMA AtRest ==
  /\ 0 \in 0 .. UInt32Max
  /\ Idle.running = FALSE
  /\ Idle \in [running : BOOLEAN, snapshot : {Idle.snapshot}, attempt : 0 .. UInt32Max]
  /\ NewStatus \in [converged : BOOLEAN, attempts : 0 .. UInt32Max, delayed : BOOLEAN]
PROOF
  <1>1. 0 \in 0 .. UInt32Max
    BY AttemptsAssumption
  <1> QED BY <1>1 DEF Idle, NewStatus

\* Every step keeps the intent.
LEMMA StepKeepsIntent == IntentInv /\ [Next]_vars => IntentInv'
PROOF
  <1> SUFFICES ASSUME IntentInv, [Next]_vars PROVE IntentInv'
    OBVIOUS
  <1>1. CASE UNCHANGED <<intended, active, latestUpdateId, loop, status>>
    BY <1>1 DEF IntentInv
  <1>2. ASSUME NEW u \in UpdateIds, NEW rs \in RuleSets, ~ loop.running, DoUpdate(u, rs)
        PROVE  IntentInv'
    <2>1. /\ intended' = {rs} /\ active' = {rs} /\ latestUpdateId' = u /\ ValidateRuleSet(rs)
          /\ UNCHANGED <<loop, status>>
      BY <1>2 DEF DoUpdate, Operate, Update, UpdateAllowed
    <2> QED BY <1>2, <2>1 DEF IntentInv, Optional
  <1>3. ASSUME NEW u \in UpdateIds, NEW v \in RemoveVersions, ~ loop.running, Remove(u, v), Operate
        PROVE  IntentInv'
    <2>1. /\ intended' = {} /\ active' = {} /\ latestUpdateId' = u /\ UNCHANGED <<loop, status>>
      BY <1>3 DEF Remove, Operate
    <2> QED BY <1>3, <2>1 DEF IntentInv, Optional
  <1>4. CASE ReconcileNothing
    BY <1>4, AtRest DEF ReconcileNothing, IntentInv, serviceVars
  <1>5. CASE ReconcileStart
    <2>1. 1 \in 0 .. UInt32Max
      BY <1>5, AttemptsAssumption DEF ReconcileStart
    <2>2. /\ UNCHANGED <<intended, active, latestUpdateId>> /\ intended # {}
          /\ status' = NewStatus
          /\ loop' = [running |-> TRUE, snapshot |-> intended, attempt |-> 1]
      BY <1>5 DEF ReconcileStart, serviceVars
    <2>3. /\ loop' \in [running : BOOLEAN, snapshot : {loop'.snapshot}, attempt : 0 .. UInt32Max]
          /\ loop'.snapshot = intended
      BY <2>1, <2>2
    <2> QED BY <2>2, <2>3, AtRest DEF IntentInv
  <1>6. CASE Attempt
    <2>1. UNCHANGED <<intended, active, latestUpdateId>>
      BY <1>6 DEF Attempt, MarkApplied, serviceVars
    <2>2. loop'.running => loop'.snapshot = loop.snapshot /\ loop.running
      BY <1>6, AttemptFields DEF Attempt
    <2> QED BY <1>6, <2>1, <2>2, AttemptFields DEF IntentInv
  <1>7. CASE GiveUp
    <2>1. UNCHANGED <<intended, active, latestUpdateId, status>> /\ loop' = Idle
      BY <1>7 DEF GiveUp, serviceVars
    <2> QED BY <2>1, AtRest DEF IntentInv
  <1>8. ASSUME NEW u, NEW v, LateCompletion(u, v) PROVE IntentInv'
    BY <1>1, <1>8 DEF LateCompletion, Operate, MarkApplied, serviceVars
  <1> QED
    BY <1>1, <1>2, <1>3, <1>4, <1>5, <1>6, <1>7, <1>8
    DEF Next, vars, serviceVars, DoRefuseUpdate, RefuseUpdate, DoRemove, RefuseRemove,
        DoAccount, Account, Operate

-----------------------------------------------------------------------------
(* The adapter.                                                            *)

\* What an attempt does with the adapter and the service: it is always for
\* the intended update, and marks it applied exactly when it succeeds.
LEMMA AttemptFacts ==
  ASSUME IntentInv, AdapterInv, Attempt
  PROVE  /\ UNCHANGED <<intended, active, latestUpdateId, runtime, accepted>>
         /\ intended # {} /\ answer' \in AdapterOutcome
         /\ outcomes' \in Seq(AdapterOutcome)
         /\ applied' = applied \cup IF answer' = "SUCCESS" THEN Current ELSE {}
         /\ delayed' = delayed \cup IF answer' = "DELAYED_SUCCESS" THEN Current ELSE {}
         /\ answer' # "SUCCESS" => Current \cap applied = {} /\ UNCHANGED appliedVersion
         /\ answer' = "SUCCESS" => \E rs \in intended : appliedVersion' = rs.version
PROOF
  <1>1. loop.running /\ intended # {}
    BY DEF Attempt, IntentInv
  <1>2. PICK rs \in intended : TRUE
    BY <1>1
  <1>3. /\ intended = {rs} /\ Version = rs.version
        /\ Current = {<<latestUpdateId, rs.version>>}
        /\ Key(latestUpdateId, Version) = <<latestUpdateId, rs.version>>
    BY <1>1, IntendedFacts DEF Key
  <1>4. answer' = Outcome(latestUpdateId, Version) /\ Apply(latestUpdateId, Version)
    BY DEF Attempt
  <1>5. /\ applied' = applied \cup IF answer' = "SUCCESS" THEN Current ELSE {}
        /\ delayed' = delayed \cup IF answer' = "DELAYED_SUCCESS" THEN Current ELSE {}
    BY <1>3, <1>4 DEF Apply
  <1>6. /\ answer' \in AdapterOutcome /\ outcomes' \in Seq(AdapterOutcome)
        /\ answer' # "SUCCESS" => Current \cap applied = {}
    <2>1. CASE Scripted(latestUpdateId, Version)
      <3>1. outcomes # <<>> /\ outcomes \in Seq(AdapterOutcome) /\ Current \cap applied = {}
        BY <1>3, <2>1 DEF Scripted, AdapterInv
      <3>2. Head(outcomes) \in AdapterOutcome /\ Tail(outcomes) \in Seq(AdapterOutcome)
        BY <3>1, HeadTailProperties
      <3> QED BY <1>4, <2>1, <3>1, <3>2 DEF Outcome, Apply
    <2>2. CASE ~ Scripted(latestUpdateId, Version)
      BY <1>4, <2>2 DEF Outcome, Apply, AdapterOutcome, AdapterInv
    <2> QED BY <2>1, <2>2
  <1>7. /\ UNCHANGED <<intended, active, latestUpdateId, runtime, accepted>>
        /\ answer' # "SUCCESS" => UNCHANGED appliedVersion
        /\ answer' = "SUCCESS" => appliedVersion' = rs.version
    BY <1>3 DEF Attempt, MarkApplied, serviceVars
  <1> QED BY <1>1, <1>2, <1>5, <1>6, <1>7

\* What a late completion does: it takes up the intended update at most, and
\* marks it applied only when the adapter has it.
LEMMA LateFacts ==
  ASSUME IntentInv, AdapterInv, NEW u, NEW v, LateCompletion(u, v)
  PROVE  /\ UNCHANGED <<intended, active, latestUpdateId, runtime, accepted, loop, status, outcomes>>
         /\ answer' = "NONE"
         /\ applied \subseteq applied' /\ applied' \subseteq applied \cup delayed
         /\ applied' \ applied \subseteq Current
         /\ delayed' \subseteq delayed
         /\ appliedVersion' # appliedVersion =>
              \E rs \in intended : /\ appliedVersion' = rs.version
                                   /\ <<latestUpdateId, rs.version>> \in applied'
PROOF
  <1>1. PICK latest \in {rs.version : rs \in intended} \cup IF intended = {} THEN {0} ELSE {} :
          /\ CompleteDelayed(u, v, latestUpdateId, latest)
          /\ IF Completed(u, v, latestUpdateId, latest)
             THEN MarkApplied(u, v) ELSE UNCHANGED serviceVars
    BY DEF LateCompletion
  <1>2. UNCHANGED <<intended, active, latestUpdateId, runtime, accepted, loop, status, outcomes>>
        /\ answer' = "NONE"
    BY <1>1 DEF LateCompletion, Operate, CompleteDelayed, MarkApplied, serviceVars
  <1>3. /\ applied \subseteq applied' /\ applied' \subseteq applied \cup delayed
        /\ delayed' \subseteq delayed
    BY <1>1 DEF CompleteDelayed, Completes
  <1>4. applied' \ applied \subseteq Current
    <2>1. CASE Completes(u, v, latestUpdateId, latest)
      <3>1. applied' = applied \cup {<<u, v>>} /\ u = latestUpdateId /\ v = latest
        BY <1>1, <2>1 DEF CompleteDelayed, Completes, Key
      <3>2. v # 0
        BY <2>1 DEF Completes, Key, AdapterInv
      <3>3. PICK rs \in intended : v = rs.version
        BY <1>1, <3>1, <3>2
      <3> QED BY <3>1, <3>3, IntendedFacts
    <2>2. CASE ~ Completes(u, v, latestUpdateId, latest)
      BY <1>1, <2>2 DEF CompleteDelayed
    <2> QED BY <2>1, <2>2
  <1>5. ASSUME appliedVersion' # appliedVersion
        PROVE  \E rs \in intended : /\ appliedVersion' = rs.version
                                    /\ <<latestUpdateId, rs.version>> \in applied'
    <2>1. Completed(u, v, latestUpdateId, latest) /\ MarkApplied(u, v)
      BY <1>1, <1>5 DEF serviceVars
    <2>2. PICK rs \in intended : u = latestUpdateId /\ rs.version = v /\ appliedVersion' = v
      BY <1>5, <2>1 DEF MarkApplied
    <2>3. <<u, v>> \in applied'
      BY <1>1, <2>1 DEF Completed, CompleteDelayed, Key
    <2> QED BY <2>2, <2>3
  <1> QED BY <1>2, <1>3, <1>4, <1>5

\* Every step keeps the adapter's keys.
LEMMA StepKeepsAdapter == IntentInv /\ AdapterInv /\ [Next]_vars => AdapterInv'
PROOF
  <1> SUFFICES ASSUME IntentInv, AdapterInv, [Next]_vars PROVE AdapterInv'
    OBVIOUS
  <1>1. CASE UNCHANGED adapterVars
    BY <1>1 DEF adapterVars, AdapterInv
  <1>2. CASE Attempt
    <2>1. PICK rs \in intended : TRUE
      BY <1>2, AttemptFacts
    <2>2. Current \subseteq UpdateIds \X (Versions \ {0})
      BY <2>1, IntendedFacts
    <2> QED BY <1>2, <2>2, AttemptFacts DEF AdapterInv
  <1>3. ASSUME NEW u, NEW v, LateCompletion(u, v) PROVE AdapterInv'
    BY <1>3, LateFacts DEF AdapterInv
  <1> QED
    BY <1>1, <1>2, <1>3
    DEF Next, vars, DoUpdate, DoRefuseUpdate, DoRemove, DoAccount, ReconcileNothing,
        ReconcileStart, GiveUp

-----------------------------------------------------------------------------
(* The counters.                                                           *)

\* What migration makes of the counters: one whose generation stays is kept,
\* every other one is fresh.
LEMMA MigratedCounters ==
  ASSUME CountersInv, NEW rs \in RuleSets, ValidateRuleSet(rs), NEW m, m = Migrated(runtime, rs)
  PROVE  /\ WellTypedRuntime(m) /\ DOMAIN m.urrGenerations = DOMAIN m.urrs
         /\ \A id \in DOMAIN m.urrs :
              \/ /\ id \in DOMAIN runtime.urrs
                 /\ m.urrGenerations[id] = runtime.urrGenerations[id]
                 /\ m.urrs[id] = runtime.urrs[id]
              \/ /\ id \in DOMAIN runtime.urrs =>
                      m.urrGenerations[id] # runtime.urrGenerations[id]
                 /\ m.urrs[id] = FreshUsage
PROOF
  <1>1. WellTypedRuleSet(rs) /\ IsVector(rs.urrs) /\ UniqueIds(rs.urrs)
    BY RuleSetsAssumption, ValidListsAreUnique DEF WellTypedRuleSet
  <1>2. WellTypedRuntime(m) /\ RuntimeOf(m, rs)
    BY <1>1, MigratedFits DEF CountersInv
  <1>3. /\ DOMAIN m.urrs = Ids(rs.urrs) /\ DOMAIN m.urrGenerations = Ids(rs.urrs)
        /\ \A id \in Ids(rs.urrs) : m.urrGenerations[id] = RuleOf(rs.urrs, id).generation
    BY <1>2 DEF RuntimeOf, Generations
  <1>4. ASSUME NEW id \in Ids(rs.urrs)
        PROVE  \/ /\ id \in DOMAIN runtime.urrs
                  /\ m.urrGenerations[id] = runtime.urrGenerations[id]
                  /\ m.urrs[id] = runtime.urrs[id]
               \/ /\ id \in DOMAIN runtime.urrs =>
                       m.urrGenerations[id] # runtime.urrGenerations[id]
                  /\ m.urrs[id] = FreshUsage
    <2> DEFINE rule == RuleOf(rs.urrs, id)
    <2>1. rule.id = id
      BY <1>1, RuleOfId
    <2>2. m.urrs[id] = IF Survives(runtime.urrs, runtime.urrGenerations, rule)
                       THEN runtime.urrs[id] ELSE FreshUsage
      BY DEF Migrated
    <2>3. Survives(runtime.urrs, runtime.urrGenerations, rule) <=>
            /\ id \in DOMAIN runtime.urrs
            /\ m.urrGenerations[id] = runtime.urrGenerations[id]
      BY <1>3, <2>1 DEF Survives, CountersInv
    <2> QED BY <2>2, <2>3
  <1> QED BY <1>2, <1>3, <1>4

\* What counting a packet does.
LEMMA AccountCounts ==
  ASSUME CountersInv, NEW id \in DOMAIN runtime.urrs, runtime.urrs[id].packets < MaxUsage,
         Account(id)
  PROVE  /\ CountersInv' /\ DOMAIN runtime'.urrs = DOMAIN runtime.urrs
         /\ runtime'.urrGenerations = runtime.urrGenerations
         /\ \A k \in DOMAIN runtime.urrs :
              runtime'.urrs[k].payloadBytes =
                runtime.urrs[k].payloadBytes + IF k = id THEN 1 ELSE 0
PROOF
  <1> DEFINE old == runtime.urrs[id]
             new == OneMore(old)
             urrs == [runtime.urrs EXCEPT ![id] = new]
  <1>1. /\ old \in UsageCounterState /\ old.payloadBytes = old.packets /\ old.packets < MaxUsage
        /\ runtime.urrs \in [DOMAIN runtime.urrs -> UsageCounterState]
    BY DEF CountersInv, WellTypedRuntime
  <1>2. old.packets + 1 \in UInt64 /\ old.payloadBytes + 1 \in UInt64
    BY <1>1, UInt64MaxAssumption, MaxUsageAssumption DEF UsageCounterState, UInt64
  <1>3. /\ new \in UsageCounterState
        /\ new.packets = old.packets + 1 /\ new.payloadBytes = old.payloadBytes + 1
    BY <1>1, <1>2 DEF UsageCounterState, OneMore
  <1>4. runtime' = [runtime EXCEPT !.urrs = urrs]
    BY Zenon DEF Account
  <1> HIDE DEF new
  <1>5. /\ urrs \in [DOMAIN runtime.urrs -> UsageCounterState]
        /\ urrs[id] = new /\ \A k \in DOMAIN runtime.urrs : k # id => urrs[k] = runtime.urrs[k]
    BY <1>1, <1>3
  <1> HIDE DEF urrs
  <1>6. /\ WellTypedRuntime(runtime') /\ runtime'.urrs = urrs
        /\ runtime'.urrGenerations = runtime.urrGenerations
    BY <1>4, <1>5 DEF CountersInv, WellTypedRuntime
  <1>7. \A k \in DOMAIN runtime.urrs : urrs[k].payloadBytes = urrs[k].packets
    BY <1>1, <1>3, <1>5 DEF CountersInv
  <1>8. \A k \in DOMAIN runtime.urrs :
          urrs[k].payloadBytes = runtime.urrs[k].payloadBytes + IF k = id THEN 1 ELSE 0
    <2>1. \A k \in DOMAIN runtime.urrs : runtime.urrs[k].payloadBytes \in Int
      BY <1>1, UInt64MaxAssumption DEF UsageCounterState, UInt64
    <2> QED BY <1>3, <1>5, <2>1
  <1>9. DOMAIN urrs = DOMAIN runtime.urrs
    BY <1>5
  <1> QED BY <1>6, <1>7, <1>8, <1>9 DEF CountersInv

\* Every step keeps the counters typed, and does to each what it may.
LEMMA StepKeepsCounters ==
  CountersInv /\ [Next]_vars =>
    /\ CountersInv'
    /\ \A id \in DOMAIN runtime.urrs \cap DOMAIN runtime'.urrs :
         IF runtime'.urrGenerations[id] = runtime.urrGenerations[id]
         THEN runtime'.urrs[id].payloadBytes >= runtime.urrs[id].payloadBytes
         ELSE runtime'.urrs[id] = FreshUsage
PROOF
  <1> DEFINE Survive ==
        \A id \in DOMAIN runtime.urrs \cap DOMAIN runtime'.urrs :
          IF runtime'.urrGenerations[id] = runtime.urrGenerations[id]
          THEN runtime'.urrs[id].payloadBytes >= runtime.urrs[id].payloadBytes
          ELSE runtime'.urrs[id] = FreshUsage
  <1> SUFFICES ASSUME CountersInv, [Next]_vars PROVE CountersInv' /\ Survive
    OBVIOUS
  <1>1. \A id \in DOMAIN runtime.urrs : runtime.urrs[id].payloadBytes \in Int
    BY UInt64MaxAssumption DEF CountersInv, WellTypedRuntime, UsageCounterState, UInt64
  <1>2. CASE UNCHANGED runtime
    BY <1>1, <1>2 DEF CountersInv
  <1>3. ASSUME NEW u, NEW rs \in RuleSets, DoUpdate(u, rs) PROVE CountersInv' /\ Survive
    <2>1. ValidateRuleSet(rs) /\ runtime' = Migrated(runtime, rs)
      BY <1>3 DEF DoUpdate, Update, UpdateAllowed
    <2>2. FreshUsage.payloadBytes = FreshUsage.packets
      BY DEF FreshUsage
    <2>3. CountersInv'
      BY <2>1, <2>2, MigratedCounters DEF CountersInv
    <2>4. Survive
      BY <1>1, <2>1, MigratedCounters
    <2> QED BY <2>3, <2>4
  <1>4. ASSUME NEW id \in DOMAIN runtime.urrs, DoAccount(id) PROVE CountersInv' /\ Survive
    <2>1. runtime.urrs[id].packets < MaxUsage /\ Account(id)
      BY <1>4 DEF DoAccount
    <2>2. Survive
      BY <1>1, <2>1, AccountCounts
    <2> QED BY <2>1, <2>2, AccountCounts
  <1> QED
    BY <1>2, <1>3, <1>4
    DEF Next, vars, serviceVars, DoRefuseUpdate, RefuseUpdate, DoRemove, Remove, RefuseRemove,
        LateCompletion, MarkApplied, ReconcileNothing, ReconcileStart, Attempt, GiveUp

-----------------------------------------------------------------------------
(* The versions.                                                           *)

\* What convergence() says.
LEMMA ConvergenceMeans ==
  /\ Convergence = "CONVERGED" <=> \E rs \in intended : rs.version = appliedVersion
  /\ intended # {} /\ Convergence # "CONVERGED" => Convergence = "DIVERGENT"
PROOF
  BY DEF Convergence

\* Every step keeps the order of the versions, and a converged service its
\* update applied.
LEMMA StepKeepsVersions == IntentInv /\ AdapterInv /\ VersionsInv /\ [Next]_vars => VersionsInv'
PROOF
  <1> SUFFICES ASSUME IntentInv, AdapterInv, VersionsInv, [Next]_vars PROVE VersionsInv'
    OBVIOUS
  <1>1. /\ accepted \in [highest : Nat, increasing : BOOLEAN] /\ accepted.highest \in Nat
        /\ accepted.increasing \in BOOLEAN
        /\ appliedVersion \in {0} \cup Versions /\ appliedVersion <= accepted.highest
        /\ \A rs \in intended : rs.version <= accepted.highest
        /\ accepted.increasing /\ Convergence = "CONVERGED" => Current \subseteq applied
    BY DEF VersionsInv, ConvergedIsApplied
  <1>2. \A rs \in RuleSets : rs.version \in Nat
    BY RuleSetsAssumption, UInt64MaxAssumption DEF WellTypedRuleSet, UInt64
  <1>3. appliedVersion \in Nat
    BY <1>1, <1>2 DEF Versions
  <1>4. CASE UNCHANGED <<intended, appliedVersion, accepted, latestUpdateId, applied>>
    BY <1>4 DEF VersionsInv, ConvergedIsApplied, Convergence, Current
  <1>5. ASSUME NEW u, NEW rs \in RuleSets, DoUpdate(u, rs) PROVE VersionsInv'
    <2> DEFINE h == IF rs.version > accepted.highest THEN rs.version ELSE accepted.highest
    <2>1. /\ intended' = {rs} /\ appliedVersion' = appliedVersion
          /\ accepted' = [highest |-> h,
                          increasing |-> accepted.increasing /\ rs.version > accepted.highest]
      BY <1>5 DEF DoUpdate, Update
    <2>2. h \in Nat /\ rs.version <= h /\ accepted.highest <= h
      BY <1>1, <1>2
    <2> HIDE DEF h
    <2>3. /\ accepted' \in [highest : Nat, increasing : BOOLEAN] /\ accepted'.highest = h
          /\ accepted'.increasing => rs.version > accepted.highest
      BY <2>1, <2>2
    <2>4. ConvergedIsApplied'
      <3> SUFFICES ASSUME accepted'.increasing, Convergence' = "CONVERGED" PROVE FALSE
        BY DEF ConvergedIsApplied
      <3>1. rs.version = appliedVersion
        BY <2>1 DEF Convergence
      <3> QED BY <1>1, <1>2, <1>3, <2>3, <3>1
    <2>5. appliedVersion' <= h
      BY <1>1, <1>3, <2>1, <2>2
    <2> QED BY <1>1, <2>1, <2>2, <2>3, <2>4, <2>5 DEF VersionsInv
  <1>6. ASSUME intended' = {}, UNCHANGED <<appliedVersion, accepted>> PROVE VersionsInv'
    BY <1>1, <1>6 DEF VersionsInv, ConvergedIsApplied, Current
  <1>7. ASSUME UNCHANGED <<intended, latestUpdateId, accepted>>, applied \subseteq applied',
               appliedVersion' # appliedVersion =>
                 \E rs \in intended : /\ appliedVersion' = rs.version
                                      /\ <<latestUpdateId, rs.version>> \in applied'
        PROVE  VersionsInv'
    <2>1. CASE appliedVersion' = appliedVersion
      BY <1>1, <1>7, <2>1 DEF VersionsInv, ConvergedIsApplied, Convergence, Current
    <2>2. CASE appliedVersion' # appliedVersion
      <3>1. PICK rs \in intended : /\ appliedVersion' = rs.version
                                   /\ <<latestUpdateId, rs.version>> \in applied'
        BY <1>7, <2>2
      <3>2. Current' = Current /\ Current = {<<latestUpdateId, rs.version>>} /\ rs \in RuleSets
        BY <1>7, IntendedFacts DEF Current
      <3> QED BY <1>1, <1>7, <3>1, <3>2 DEF VersionsInv, ConvergedIsApplied, Versions
    <2> QED BY <2>1, <2>2
  <1>8. CASE Attempt
    <2>1. UNCHANGED <<intended, latestUpdateId, accepted>> /\ applied \subseteq applied'
      BY <1>8, AttemptFacts
    <2>2. ASSUME appliedVersion' # appliedVersion
          PROVE  \E rs \in intended : /\ appliedVersion' = rs.version
                                      /\ <<latestUpdateId, rs.version>> \in applied'
      <3>1. answer' = "SUCCESS"
        BY <1>8, <2>2, AttemptFacts
      <3>2. PICK rs \in intended : appliedVersion' = rs.version
        BY <1>8, <3>1, AttemptFacts
      <3>3. Current \subseteq applied'
        BY <1>8, <3>1, AttemptFacts
      <3> QED BY <3>2, <3>3, IntendedFacts
    <2> QED BY <1>7, <2>1, <2>2
  <1>9. ASSUME NEW u, NEW v, LateCompletion(u, v) PROVE VersionsInv'
    BY <1>7, <1>9, LateFacts
  <1> QED
    BY <1>4, <1>5, <1>6, <1>8, <1>9
    DEF Next, vars, serviceVars, adapterVars, DoRefuseUpdate, RefuseUpdate, DoRemove, Remove,
        RefuseRemove, DoAccount, Account, ReconcileNothing, ReconcileStart, GiveUp

-----------------------------------------------------------------------------
(* The attempts.                                                           *)

\* A call other than reconcile's, or one that begins with nothing to do,
\* leaves no answer behind.
LEMMA NoAnswer ==
  ASSUME ~ loop'.running, answer' = "NONE"
  PROVE  AttemptsInv'
PROOF
  BY DEF AttemptsInv

\* An attempt counts itself, and ends the loop unless it failed for the moment.
LEMMA AttemptKeepsAttempts ==
  ASSUME MaximumAttempts < UInt32Max, IntentInv, AdapterInv, AttemptsInv, Attempt
  PROVE  AttemptsInv'
PROOF
  <1> DEFINE n == loop.attempt
  <1>1. /\ loop.running /\ n \in 1 .. MaximumAttempts /\ MaximumAttempts \in Nat
        /\ UInt32Max \in Nat /\ status.attempts = n - 1 /\ MaximumAttempts # 0
    BY AttemptsAssumption DEF Attempt, AttemptsInv
  <1>2. n \in 0 .. UInt32Max /\ n < UInt32Max /\ status.attempts \in 0 .. UInt32Max
        /\ status.attempts < UInt32Max
    BY <1>1
  <1>3. status'.attempts = n
    <2>1. status'.attempts = status.attempts + 1
      BY <1>2, AttemptFields, AttemptWraps
    <2> QED BY <1>1, <2>1
  <1>4. /\ status'.converged <=> answer' = "SUCCESS"
        /\ status'.delayed <=> answer' = "DELAYED_SUCCESS"
        /\ answer' \in AdapterOutcome
    BY AttemptFields, AttemptFacts
  <1>5. /\ intended' = intended /\ intended # {} /\ Current' = Current
        /\ answer' # "SUCCESS" => Current \cap applied' = {}
    BY AttemptFacts DEF Current
  <1>6. answer' = "SUCCESS" => Convergence' = "CONVERGED" /\ Current \subseteq applied'
    BY <1>5, AttemptFacts DEF Convergence
  <1>7. answer' = "DELAYED_SUCCESS" => Current \subseteq delayed'
    BY AttemptFacts
  <1>8. CASE answer' = "TRANSIENT_FAILURE"
    <2>1. loop'.running /\ loop'.attempt = n + 1
      BY <1>2, <1>8, AttemptFields, AttemptWraps
    <2>2. loop'.attempt \in 1 .. MaximumAttempts + 1 /\ loop'.attempt # 1
          /\ status'.attempts = loop'.attempt - 1
      BY <1>1, <1>3, <2>1
    <2> QED BY <1>1, <1>4, <1>5, <1>8, <2>1, <2>2 DEF AttemptsInv
  <1>9. CASE answer' # "TRANSIENT_FAILURE"
    <2>1. ~ loop'.running
      BY <1>9, AttemptFields
    <2>2. status'.attempts \in 1 .. MaximumAttempts
      BY <1>1, <1>3
    <2> QED BY <1>4, <1>5, <1>6, <1>7, <1>9, <2>1, <2>2 DEF AttemptsInv
  <1> QED BY <1>8, <1>9

\* Every step keeps what the loop knows, as long as the attempt number does
\* not wrap before the last attempt.
LEMMA StepKeepsAttempts ==
  ASSUME MaximumAttempts < UInt32Max
  PROVE  IntentInv /\ AdapterInv /\ AttemptsInv /\ [Next]_vars => AttemptsInv'
PROOF
  <1> SUFFICES ASSUME IntentInv, AdapterInv, AttemptsInv, [Next]_vars PROVE AttemptsInv'
    OBVIOUS
  <1>1. CASE ReconcileStart
    <2>1. /\ loop'.running /\ loop'.attempt = 1 /\ status' = NewStatus /\ answer' = "NONE"
          /\ MaximumAttempts # 0
      BY <1>1 DEF ReconcileStart
    <2>2. 1 \in 1 .. MaximumAttempts + 1 /\ 0 = 1 - 1
      BY AttemptsAssumption
    <2> QED BY <2>1, <2>2 DEF AttemptsInv, NewStatus
  <1>2. CASE GiveUp
    <2>1. /\ loop.running /\ loop.attempt > MaximumAttempts /\ loop' = Idle
          /\ UNCHANGED <<status, answer, intended, latestUpdateId, appliedVersion, applied, delayed>>
      BY <1>2 DEF GiveUp, serviceVars, adapterVars
    <2>2. /\ MaximumAttempts \in Nat \ {0} /\ loop.attempt \in 1 .. MaximumAttempts + 1
          /\ status.attempts = loop.attempt - 1 /\ ~ status.converged /\ ~ status.delayed
      BY <2>1, AttemptsAssumption DEF AttemptsInv
    <2>3. loop.attempt # 1 /\ status.attempts = MaximumAttempts
          /\ status.attempts \in 1 .. MaximumAttempts
      BY <2>1, <2>2
    <2>4. answer = "TRANSIENT_FAILURE" /\ intended # {} /\ Current \cap applied = {}
      BY <2>1, <2>3 DEF AttemptsInv
    <2>5. ~ loop'.running /\ Current' = Current
      BY <2>1 DEF Idle, Current
    <2> QED BY <2>1, <2>2, <2>3, <2>4, <2>5 DEF AttemptsInv, AdapterOutcome
  <1>3. CASE UNCHANGED vars
    BY <1>3 DEF vars, serviceVars, adapterVars, AttemptsInv, Convergence, Current
  <1>4. ASSUME ~ loop.running, loop' = loop, answer' = "NONE" PROVE AttemptsInv'
    BY <1>4, NoAnswer
  <1>5. CASE Attempt
    BY <1>5, AttemptKeepsAttempts
  <1> QED
    BY <1>1, <1>2, <1>3, <1>4, <1>5
    DEF Next, DoUpdate, DoRefuseUpdate, DoRemove, DoAccount, LateCompletion, Operate,
        ReconcileNothing

-----------------------------------------------------------------------------
(* The theorems.                                                           *)

\* A new service and a new adapter satisfy all of it.
LEMMA InitInv == Init => IInv /\ AttemptsInv
PROOF
  <1> SUFFICES ASSUME Init PROVE IInv /\ AttemptsInv
    OBVIOUS
  <1>1. IntentInv
    BY AtRest DEF Init, ServiceInit, IntentInv, Optional
  <1>2. AdapterInv
    BY ScriptsAssumption DEF Init, AdapterInit, AdapterInv
  <1>3. CountersInv
    <2>1. runtime = NoRuntime
      BY DEF Init, ServiceInit
    <2>2. NoRuntime.urrs = <<>> /\ NoRuntime.urrGenerations = <<>>
      BY DEF NoRuntime
    <2> QED BY <2>1, <2>2, NoRuntimeTyped DEF CountersInv
  <1>4. VersionsInv
    <2>1. intended = {} /\ appliedVersion = 0 /\ accepted = [highest |-> 0, increasing |-> TRUE]
      BY DEF Init, ServiceInit
    <2> QED BY <2>1 DEF VersionsInv, ConvergedIsApplied, Current
  <1>5. AttemptsInv
    BY AtRest DEF Init, AttemptsInv
  <1> QED BY <1>1, <1>2, <1>3, <1>4, <1>5 DEF IInv

\* The inductive invariant of the control plane.
THEOREM ControlPlaneInvariant == Spec => []IInv
PROOF
  <1>1. IInv /\ [Next]_vars => IInv'
    BY StepKeepsIntent, StepKeepsAdapter, StepKeepsCounters, StepKeepsVersions DEF IInv
  <1> QED BY <1>1, InitInv, PTL DEF Spec

\* Every state is well typed, and a running reconcile works on the intended
\* ruleset.
THEOREM ControlPlaneIsTyped == Spec => []TypeOK
PROOF
  <1>1. IInv => TypeOK
    BY DEF IInv, IntentInv, AdapterInv, CountersInv, VersionsInv, WellTypedRuntime, TypeOK
  <1> QED BY <1>1, ControlPlaneInvariant, PTL

\* With increasing versions the service says CONVERGED of applied rules only.
THEOREM ConvergenceIsReal == Spec => []ConvergedIsApplied
PROOF
  <1>1. IInv => ConvergedIsApplied
    BY DEF IInv, VersionsInv
  <1> QED BY <1>1, ControlPlaneInvariant, PTL

\* The dataplane takes up the latest intended update or nothing.
THEOREM StaleIsNeverApplied == Spec => StaleNeverApplied
PROOF
  <1> DEFINE Step == /\ applied' \ applied \subseteq Current
                     /\ appliedVersion' # appliedVersion =>
                          \E k \in Current : k[2] = appliedVersion' /\ k \in applied'
  <1>1. IntentInv /\ AdapterInv /\ [Next]_vars => Step
    <2> SUFFICES ASSUME IntentInv, AdapterInv, [Next]_vars PROVE Step
      OBVIOUS
    <2>1. CASE UNCHANGED <<applied, appliedVersion>>
      BY <2>1
    <2>2. CASE Attempt
      <3>1. applied' \ applied \subseteq Current
        BY <2>2, AttemptFacts
      <3>2. ASSUME appliedVersion' # appliedVersion
            PROVE  \E k \in Current : k[2] = appliedVersion' /\ k \in applied'
        <4>1. answer' = "SUCCESS"
          BY <2>2, <3>2, AttemptFacts
        <4>2. PICK rs \in intended : appliedVersion' = rs.version
          BY <2>2, <4>1, AttemptFacts
        <4>3. Current = {<<latestUpdateId, rs.version>>} /\ Current \subseteq applied'
          BY <2>2, <4>1, AttemptFacts, IntendedFacts
        <4> QED BY <4>2, <4>3
      <3> QED BY <3>1, <3>2
    <2>3. ASSUME NEW u, NEW v, LateCompletion(u, v) PROVE Step
      <3>1. applied' \ applied \subseteq Current
        BY <2>3, LateFacts
      <3>2. ASSUME appliedVersion' # appliedVersion
            PROVE  \E k \in Current : k[2] = appliedVersion' /\ k \in applied'
        <4>1. PICK rs \in intended : /\ appliedVersion' = rs.version
                                     /\ <<latestUpdateId, rs.version>> \in applied'
          BY <2>3, <3>2, LateFacts
        <4>2. Current = {<<latestUpdateId, rs.version>>}
          BY IntendedFacts
        <4> QED BY <4>1, <4>2
      <3> QED BY <3>1, <3>2
    <2> QED
      BY <2>1, <2>2, <2>3
      DEF Next, vars, serviceVars, adapterVars, DoUpdate, Update, DoRefuseUpdate, RefuseUpdate,
          DoRemove, Remove, RefuseRemove, DoAccount, Account, ReconcileNothing, ReconcileStart,
          GiveUp
  <1>2. IInv /\ [Next]_vars => Step
    BY <1>1 DEF IInv
  <1> QED BY <1>2, ControlPlaneInvariant, PTL DEF Spec, StaleNeverApplied

\* The counter of a URR survives what keeps its generation, and only that.
THEOREM CountersAreKept == Spec => CountersSurvive
PROOF
  <1>1. IInv /\ [Next]_vars =>
          \A id \in DOMAIN runtime.urrs \cap DOMAIN runtime'.urrs :
            IF runtime'.urrGenerations[id] = runtime.urrGenerations[id]
            THEN runtime'.urrs[id].payloadBytes >= runtime.urrs[id].payloadBytes
            ELSE runtime'.urrs[id] = FreshUsage
    BY StepKeepsCounters DEF IInv
  <1> QED BY <1>1, ControlPlaneInvariant, PTL DEF Spec, CountersSurvive

\* What reconcile returns is true of the service, for every limit of attempts
\* below the largest attempt number; at that number the loop variable of
\* reconcile wraps and attempts may run past 2^32.
THEOREM StatusTellsTheTruth ==
  ASSUME MaximumAttempts < UInt32Max
  PROVE  Spec => []StatusIsTruthful
PROOF
  <1>1. IInv /\ AttemptsInv /\ [Next]_vars => AttemptsInv'
    BY StepKeepsAttempts DEF IInv
  <1>2. IInv /\ AttemptsInv => StatusIsTruthful
    <2> SUFFICES ASSUME IInv, AttemptsInv, ~ loop.running, answer # "NONE"
                 PROVE  /\ status.attempts \in 1 .. MaximumAttempts
                        /\ status.converged <=> answer = "SUCCESS"
                        /\ status.converged => Convergence = "CONVERGED" /\ Current \subseteq applied
                        /\ (~ status.converged /\ accepted.increasing) => Convergence = "DIVERGENT"
                        /\ status.delayed => Current \subseteq delayed \ applied
                        /\ answer = "TRANSIENT_FAILURE" => status.attempts = MaximumAttempts
      BY DEF StatusIsTruthful
    <2>1. /\ status.attempts \in 1 .. MaximumAttempts
          /\ status.converged <=> answer = "SUCCESS"
          /\ status.delayed <=> answer = "DELAYED_SUCCESS"
          /\ answer = "TRANSIENT_FAILURE" => status.attempts = MaximumAttempts
          /\ answer = "SUCCESS" => Convergence = "CONVERGED" /\ Current \subseteq applied
          /\ answer = "DELAYED_SUCCESS" => Current \subseteq delayed
          /\ answer # "SUCCESS" => intended # {} /\ Current \cap applied = {}
      BY DEF AttemptsInv
    <2>2. ASSUME answer # "SUCCESS", accepted.increasing PROVE Convergence = "DIVERGENT"
      <3>1. PICK rs \in intended : TRUE
        BY <2>1, <2>2
      <3>2. Current = {<<latestUpdateId, rs.version>>}
        BY IntendedFacts DEF IInv
      <3>3. Convergence # "CONVERGED"
        BY <2>1, <2>2, <3>2 DEF IInv, VersionsInv, ConvergedIsApplied
      <3> QED BY <3>1, <3>3, ConvergenceMeans
    <2> QED BY <2>1, <2>2
  <1> QED BY <1>1, <1>2, InitInv, ControlPlaneInvariant, PTL DEF Spec

\* An update that the adapter has just failed for good is still intended and
\* not applied.
FailureInv ==
  answer = "PERMANENT_FAILURE" => intended # {} /\ Current \cap applied = {}

\* tests/state/reconciliation_tests.cpp's "permanent failure remains
\* divergent" holds of reconcile as long as versions only increase, for every
\* number of attempts.
THEOREM PermanentFailureDiverges ==
  Spec => [](accepted.increasing => PermanentFailureRemainsDivergent)
PROOF
  <1>1. ASSUME IInv, FailureInv, [Next]_vars
        PROVE  FailureInv'
    <2>1. CASE Attempt
      <3>1. /\ intended' = intended /\ intended # {} /\ Current' = Current
            /\ answer' # "SUCCESS" => Current \cap applied' = {}
        BY <1>1, <2>1, AttemptFacts DEF IInv, Current
      <3> QED BY <3>1 DEF FailureInv
    <2>2. CASE GiveUp
      BY <1>1, <2>2 DEF GiveUp, serviceVars, adapterVars, FailureInv, Current
    <2>3. CASE UNCHANGED vars
      BY <1>1, <2>3 DEF vars, serviceVars, adapterVars, FailureInv, Current
    <2>4. ASSUME answer' = "NONE" PROVE FailureInv'
      BY <2>4 DEF FailureInv
    <2> QED
      BY <1>1, <2>1, <2>2, <2>3, <2>4
      DEF Next, DoUpdate, DoRefuseUpdate, DoRemove, DoAccount, LateCompletion, Operate,
          ReconcileNothing, ReconcileStart
  <1>2. ASSUME IInv, FailureInv, accepted.increasing
        PROVE  PermanentFailureRemainsDivergent
    <2> SUFFICES ASSUME answer = "PERMANENT_FAILURE" PROVE Convergence = "DIVERGENT"
      BY DEF PermanentFailureRemainsDivergent
    <2>1. PICK rs \in intended : TRUE
      BY <1>2 DEF FailureInv
    <2>2. Current = {<<latestUpdateId, rs.version>>} /\ Current \cap applied = {}
      BY <1>2, IntendedFacts DEF IInv, FailureInv
    <2>3. Convergence # "CONVERGED"
      BY <1>2, <2>2 DEF IInv, VersionsInv, ConvergedIsApplied
    <2> QED BY <2>1, <2>3, ConvergenceMeans
  <1>3. Init => FailureInv
    BY DEF Init, FailureInv
  <1> QED BY <1>1, <1>2, <1>3, ControlPlaneInvariant, PTL DEF Spec
=============================================================================
