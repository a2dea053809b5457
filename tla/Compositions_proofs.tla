------------------------- MODULE Compositions_proofs -------------------------
(***************************************************************************)
(* Proofs about the two modules that put the pipeline together with        *)
(* another part: the entry of one QER goes through the life of a           *)
(* TokenBucket, and so keeps its contract, whatever the other rules, the   *)
(* packets and the installs are (PipelineBuckets); and the scenarios of    *)
(* the runner show what they are named for and print the same each time,   *)
(* in every sequence of runs (ScenarioRunner).                             *)
(***************************************************************************)
EXTENDS PipelineBuckets, ScenarioRunner, PacketPipeline_proofs

-----------------------------------------------------------------------------
(* PipelineBuckets.                                                        *)

\* The entry of QerId, as the refinement reads it.
Entry == IF QerId \in DOMAIN runtime.qers THEN runtime.qers[QerId] ELSE FreshBucket(Absent)

\* Before the first install the stand-in is in place.
LEMMA NoRulesNoQer == QerIn({}) = Absent
PROOF
  BY DEF QerIn, HasValue

\* A valid ruleset has one QER of the id or none; one it has differs in its
\* generation from the stand-in.
LEMMA QerOfRuleSet ==
  ASSUME NEW rs \in RuleSets, ValidateRuleSet(rs)
  PROVE  /\ QerIn({rs}) \in Configured
         /\ QerId \in Ids(rs.qers) =>
              /\ QerIn({rs}) = RuleOf(rs.qers, QerId) /\ QerIn({rs}).id = QerId
              /\ QerIn({rs}).generation # Absent.generation
         /\ QerId \notin Ids(rs.qers) => QerIn({rs}) = Absent
PROOF
  <1> DEFINE found == FindRule(rs.qers, QerId)
  <1>1. WellTypedRuleSet(rs) /\ IsVector(rs.qers) /\ UniqueIds(rs.qers)
    BY RuleSetsAssumption, ValidListsAreUnique DEF WellTypedRuleSet
  <1>2. UNION {FindRule(x.qers, QerId) : x \in {rs}} = found
    OBVIOUS
  <1>3. QerIn({rs}) = IF HasValue(found) THEN Value(found) ELSE Absent
    BY <1>2 DEF QerIn
  <1>4. CASE QerId \in Ids(rs.qers)
    <2> DEFINE q == RuleOf(rs.qers, QerId)
    <2>1. /\ found = {q} /\ q.id = QerId
          /\ \E i \in DOMAIN rs.qers : q = rs.qers[i]
      BY <1>1, <1>4, RuleOfId
    <2>2. QerIn({rs}) = q
      BY <1>3, <2>1, ValueOfSingleton DEF HasValue
    <2>3. q.generation \in UInt64
      BY <1>1, <2>1 DEF WellTypedRuleSet, WellTypedQer
    <2>4. q.generation # Absent.generation
      BY <2>3, UInt64MaxAssumption DEF UInt64, Absent
    <2>5. q \in Configured
      BY <2>1 DEF Configured
    <2> QED BY <1>4, <2>1, <2>2, <2>4, <2>5
  <1>5. CASE QerId \notin Ids(rs.qers)
    <2>1. found = {}
      BY <1>5, FoundIsListed
    <2>2. QerIn({rs}) = Absent
      BY <1>3, <2>1 DEF HasValue
    <2>3. Absent \in Configured
      BY DEF Configured
    <2> QED BY <1>5, <2>2, <2>3
  <1> QED BY <1>4, <1>5

\* The entry belongs to the QER of the active ruleset.
LEMMA EntryFollows ==
  ASSUME CoreInv
  PROVE  /\ QerId \in DOMAIN runtime.qers =>
              \E rs \in rules : /\ QerId \in Ids(rs.qers) /\ RuntimeOf(runtime, rs)
                                /\ QerIn(rules) = RuleOf(rs.qers, QerId)
                                /\ QerIn(rules).generation # Absent.generation
         /\ QerId \notin DOMAIN runtime.qers => QerIn(rules) = Absent
PROOF
  <1>1. CASE rules = {}
    <2>1. DOMAIN runtime.qers = {}
      BY <1>1 DEF CoreInv, NoRuntime
    <2> QED BY <1>1, <2>1, NoRulesNoQer
  <1>2. ASSUME NEW rs \in rules
        PROVE  /\ QerId \in DOMAIN runtime.qers =>
                    /\ QerId \in Ids(rs.qers) /\ RuntimeOf(runtime, rs)
                    /\ QerIn(rules) = RuleOf(rs.qers, QerId)
                    /\ QerIn(rules).generation # Absent.generation
               /\ QerId \notin DOMAIN runtime.qers => QerIn(rules) = Absent
    <2>1. rules = {rs} /\ rs \in RuleSets /\ ValidateRuleSet(rs) /\ RuntimeOf(runtime, rs)
      BY CoreFacts
    <2>2. DOMAIN runtime.qers = Ids(rs.qers)
      BY <2>1 DEF RuntimeOf
    <2> QED BY <2>1, <2>2, QerOfRuleSet
  <1> QED BY <1>1, <1>2

\* install brings, keeps, renews or removes the entry as one bucket would be.
LEMMA InstallIsBuckets ==
  ASSUME CoreInv, NEW rs \in RuleSets, Install(rs), NoteInstall
  PROVE  Bucket!Next
PROOF
  <1> DEFINE old == QerIn(rules)
             q == QerIn({rs})
  <1>1. /\ rules' = {rs} /\ runtime' = Migrated(runtime, rs) /\ ValidateRuleSet(rs)
        /\ last' = Bucket!NoPacket
        /\ spent' = IF q.generation = old.generation THEN spent ELSE 0
    BY DEF Install, NoteInstall
  <1>2. q \in Configured /\ QerIn(rules)' = q
    BY <1>1, QerOfRuleSet
  <1>3. Entry' = IF q.generation = old.generation THEN Entry ELSE FreshBucket(q)
    <2>1. DOMAIN runtime'.qers = Ids(rs.qers)
      BY <1>1 DEF Migrated
    <2>2. CASE QerId \in Ids(rs.qers)
      <3>1. q = RuleOf(rs.qers, QerId) /\ q.id = QerId /\ q.generation # Absent.generation
        BY <1>1, <2>2, QerOfRuleSet
      <3>2. Entry' = IF Survives(runtime.qers, runtime.qerGenerations, q)
                     THEN runtime.qers[QerId] ELSE FreshBucket(q)
        BY <1>1, <2>1, <2>2, <3>1 DEF Entry, Migrated
      <3>3. CASE QerId \in DOMAIN runtime.qers
        <4>1. PICK current \in rules :
                /\ QerId \in Ids(current.qers) /\ RuntimeOf(runtime, current)
                /\ old = RuleOf(current.qers, QerId)
          BY <3>3, EntryFollows
        <4>2. Survives(runtime.qers, runtime.qerGenerations, q) <=> q.generation = old.generation
          BY <3>1, <4>1, SurvivesInRuntime
        <4>3. Entry = runtime.qers[QerId]
          BY <3>3 DEF Entry
        <4> QED BY <3>2, <4>2, <4>3
      <3>4. CASE QerId \notin DOMAIN runtime.qers
        <4>1. old = Absent
          BY <3>4, EntryFollows
        <4>2. ~ Survives(runtime.qers, runtime.qerGenerations, q)
          BY <3>1, <3>4 DEF Survives
        <4> QED BY <3>1, <3>2, <4>1, <4>2
      <3> QED BY <3>3, <3>4
    <2>3. CASE QerId \notin Ids(rs.qers)
      <3>1. q = Absent
        BY <1>1, <2>3, QerOfRuleSet
      <3>2. Entry' = FreshBucket(Absent)
        BY <2>1, <2>3 DEF Entry, Absent, FreshBucket
      <3>3. CASE QerId \in DOMAIN runtime.qers
        <4>1. q.generation # old.generation
          BY <3>1, <3>3, EntryFollows
        <4> QED BY <3>1, <3>2, <4>1
      <3>4. CASE QerId \notin DOMAIN runtime.qers
        <4>1. Entry = FreshBucket(Absent)
          BY <3>4 DEF Entry
        <4> QED BY <3>1, <3>2, <4>1
      <3> QED BY <3>3, <3>4
    <2> QED BY <2>2, <2>3
  <1> HIDE DEF q, old
  <1>4. Bucket!Install(q)
    <2>1. CASE q.generation = old.generation
      <3>1. Entry' = Entry /\ spent' = spent
        BY <1>1, <1>3, <2>1
      <3> QED BY <1>2, <2>1, <3>1 DEF Bucket!Install, Entry, old
    <2>2. CASE q.generation # old.generation
      <3>1. Entry' = FreshBucket(q) /\ spent' = 0
        BY <1>1, <1>3, <2>2
      <3>2. Bucket!FreshBucket(q) = FreshBucket(q)
        BY DEF Bucket!FreshBucket, FreshBucket
      <3> QED BY <1>2, <2>2, <3>1, <3>2 DEF Bucket!Install, Entry, old
    <2> QED BY <2>1, <2>2
  <1> QED BY <1>1, <1>2, <1>4 DEF Bucket!Next

-----------------------------------------------------------------------------
(* Packets.                                                                *)

\* The decision of a packet whose result is given is returned.
LEMMA ResultReturned ==
  ASSUME NEW d, IsDecision(d), Retain(d)
  PROVE  returned' = {d.result}
PROOF
  <1> DEFINE final == [d EXCEPT !.degraded = ~ (Len(events) < limits.events)]
  <1>1. final.result = d.result
    BY DegradedSet
  <1>2. returned' = {final.result}
    BY DEF Retain
  <1> HIDE DEF final
  <1> QED BY <1>1, <1>2

\* At most one PDR wins.
LEMMA OneWinner ==
  ASSUME CoreInv, NEW p \in Packets, Acceptable(p),
         NEW a \in Winner(Active, p), NEW b \in Winner(Active, p)
  PROVE  a = b
PROOF
  <1>1. PICK rs \in rules : TRUE
    BY DEF Acceptable, HasValue
  <1>2. Active = rs /\ WellTypedRuleSet(rs)
    BY CoreFacts
  <1>3. PICK i \in DOMAIN rs.pdrs :
          /\ a = rs.pdrs[i] /\ Matches(rs.pdrs[i], p)
          /\ \A j \in DOMAIN rs.pdrs :
               Matches(rs.pdrs[j], p) =>
                 \/ rs.pdrs[i].precedence < rs.pdrs[j].precedence
                 \/ rs.pdrs[i].precedence = rs.pdrs[j].precedence /\ i <= j
    BY <1>2 DEF Winner
  <1>4. PICK k \in DOMAIN rs.pdrs :
          /\ b = rs.pdrs[k] /\ Matches(rs.pdrs[k], p)
          /\ \A j \in DOMAIN rs.pdrs :
               Matches(rs.pdrs[j], p) =>
                 \/ rs.pdrs[k].precedence < rs.pdrs[j].precedence
                 \/ rs.pdrs[k].precedence = rs.pdrs[j].precedence /\ k <= j
    BY <1>2 DEF Winner
  <1>5. /\ i \in Nat /\ k \in Nat
        /\ rs.pdrs[i].precedence \in Nat /\ rs.pdrs[k].precedence \in Nat
    BY <1>2 DEF WellTypedRuleSet, WellTypedPdr, IsVector
  <1>6. \/ rs.pdrs[i].precedence < rs.pdrs[k].precedence
        \/ rs.pdrs[i].precedence = rs.pdrs[k].precedence /\ i <= k
    BY <1>3, <1>4
  <1>7. \/ rs.pdrs[k].precedence < rs.pdrs[i].precedence
        \/ rs.pdrs[k].precedence = rs.pdrs[i].precedence /\ k <= i
    BY <1>3, <1>4
  <1>8. i = k
    BY <1>5, <1>6, <1>7
  <1> QED BY <1>3, <1>4, <1>8

\* The packet meets the QER followed, through the PDR that wins.
Meets(pdr, p) == \E q \in QersOf(pdr) : q.id = QerId

\* What a packet that meets the QER is decided, and what it would leave of
\* its entry; one that does not meet it leaves the entry alone.
LEMMA Meeting ==
  ASSUME CoreInv, NEW p \in Packets, HasResultSpace, Acceptable(p),
         NEW pdr \in Winner(Active, p)
  PROVE  LET o == QerOutcome(QerIn(rules), Entry, p.payloadBytes, p.arrivalTimeMicros) IN
         /\ Meets(pdr, p) =>
              /\ QerId \in DOMAIN runtime.qers
              /\ Evaluated(p) # {} /\ Value(Evaluated(p)).outcome = o
              /\ QerFailures(pdr, p) = {o} \ {"ALLOW"}
              /\ ChargedQers(pdr, p)[QerId] =
                   QerNext(QerIn(rules), Entry, p.payloadBytes, p.arrivalTimeMicros)
         /\ ~ Meets(pdr, p) =>
              /\ Evaluated(p) = {}
              /\ QerId \in DOMAIN runtime.qers =>
                   ChargedQers(pdr, p)[QerId] = runtime.qers[QerId]
PROOF
  <1> DEFINE bytes == p.payloadBytes
             now == p.arrivalTimeMicros
             D == QerDecisions(pdr, p)
  <1>1. Winner(Active, p) = {pdr}
    BY OneWinner
  <1>2. UNION {QerDecisions(x, p) : x \in Winner(Active, p)} = D
    BY <1>1
  <1>3. Evaluated(p) = {d \in D : d.qerId = QerId}
    BY <1>2 DEF Evaluated
  <1>4. PICK rs \in rules :
           \/ QersOf(pdr) = {}
           \/ \E q : /\ QersOf(pdr) = {q} /\ q = RuleOf(rs.qers, q.id)
                     /\ q.id \in DOMAIN runtime.qers /\ WellTypedQer(q)
    BY SelectedRules
  <1>5. rules = {rs} /\ Active = rs
    BY CoreFacts
  <1>6. CASE Meets(pdr, p)
    <2>1. PICK q : /\ QersOf(pdr) = {q} /\ q = RuleOf(rs.qers, q.id) /\ q.id = QerId
                   /\ QerId \in DOMAIN runtime.qers
      BY <1>4, <1>6 DEF Meets
    <2> DEFINE d == QerDecision(q, runtime.qers[q.id], bytes, now)
    <2>2. q = QerIn(rules) /\ runtime.qers[q.id] = Entry
      BY <1>5, <2>1, EntryFollows DEF Entry
    <2>3. D = {d}
      BY <2>1 DEF QerDecisions
    <2>4. d.qerId = QerId /\ d.outcome = QerOutcome(QerIn(rules), Entry, bytes, now)
      BY <2>1, <2>2 DEF QerDecision
    <2>5. ChargedQers(pdr, p)[QerId] = QerNext(QerIn(rules), Entry, bytes, now)
      <3>1. ChargedQers(pdr, p)[QerId] =
              QerNext(RuleOf(rs.qers, QerId), runtime.qers[QerId], bytes, now)
        BY <1>5, <2>1 DEF ChargedQers
      <3> QED BY <2>1, <2>2, <3>1
    <2> HIDE DEF d, D
    <2>6. Evaluated(p) = {d}
      BY <1>3, <2>3, <2>4
    <2>7. QerFailures(pdr, p) = {d.outcome} \ {"ALLOW"}
      BY <2>3 DEF QerFailures, D
    <2> QED BY <1>6, <2>1, <2>4, <2>5, <2>6, <2>7, ValueOfSingleton
  <1>7. CASE ~ Meets(pdr, p)
    <2>1. \A d \in D : d.qerId # QerId
      BY <1>7 DEF Meets, QerDecisions, QerDecision
    <2>2. QerId \in DOMAIN runtime.qers => ChargedQers(pdr, p)[QerId] = runtime.qers[QerId]
      BY <1>7 DEF ChargedQers, Meets
    <2> HIDE DEF D
    <2>3. Evaluated(p) = {}
      BY <1>3, <2>1
    <2> QED BY <1>7, <2>2, <2>3
  <1> QED BY <1>6, <1>7

\* The names the refinement gives to a packet's outcome and its charge are
\* those of the pipeline.
LEMMA BucketOperators ==
  ASSUME NEW q, NEW b, NEW bytes, NEW now
  PROVE  /\ Bucket!QerOutcome(q, b, bytes, now) = QerOutcome(q, b, bytes, now)
         /\ Bucket!QerNext(q, b, bytes, now) = QerNext(q, b, bytes, now)
PROOF
  BY DEF Bucket!QerOutcome, QerOutcome, Bucket!QerNext, QerNext,
         Bucket!RefillFails, RefillFails, Bucket!Refilled, Refilled,
         Bucket!MultiplyOverflows, MultiplyOverflows, Bucket!AddOverflows, AddOverflows,
         Bucket!Elapsed, Elapsed, Bucket!Numerator, Numerator, Bucket!AddedTokens, AddedTokens,
         Bucket!Room, Room, Bucket!RefillBytes, RefillBytes, Bucket!UInt64, UInt64

\* A packet that does not meet the QER leaves its entry alone.
LEMMA UnmetKeepsEntry ==
  ASSUME CoreInv, NEW p \in Packets, Process(p), Evaluated(p) = {}
  PROVE  Entry' = Entry
PROOF
  <1>1. CASE UNCHANGED runtime
    BY <1>1 DEF Entry
  <1>2. ASSUME NEW pdr \in Winner(Active, p), HasResultSpace, Acceptable(p),
               runtime'.qers = ChargedQers(pdr, p)
        PROVE  Entry' = Entry
    <2>1. DOMAIN runtime'.qers = DOMAIN runtime.qers
      BY <1>2 DEF ChargedQers
    <2>2. ~ Meets(pdr, p)
      BY <1>2, Meeting
    <2>3. QerId \in DOMAIN runtime.qers => runtime'.qers[QerId] = runtime.qers[QerId]
      BY <1>2, <2>2, Meeting
    <2> QED BY <2>1, <2>3 DEF Entry
  <1>3. ASSUME NEW qers, NEW urrs,
               \/ runtime' = [runtime EXCEPT !.qers = qers]
               \/ runtime' = [runtime EXCEPT !.qers = qers, !.urrs = urrs]
        PROVE  runtime'.qers = qers
    BY <1>3 DEF CoreInv, WellTypedRuntime
  <1>4. CASE RejectByQer(p)
    <2>1. PICK pdr \in Winner(Active, p) :
            \/ UNCHANGED runtime
            \/ runtime' = [runtime EXCEPT !.qers = ChargedQers(pdr, p)]
      BY <1>4 DEF RejectByQer
    <2>2. CASE runtime' = [runtime EXCEPT !.qers = ChargedQers(pdr, p)]
      BY <1>2, <1>3, <1>4, <2>2 DEF RejectByQer
    <2> QED BY <1>1, <2>1, <2>2
  <1>5. CASE Accept(p)
    <2>1. PICK pdr \in Winner(Active, p) : Commit(pdr, p)
      BY <1>5 DEF Accept
    <2>2. runtime' = [runtime EXCEPT !.qers = ChargedQers(pdr, p), !.urrs = CountedUrrs(pdr, p)]
      BY <2>1 DEF Commit
    <2> QED BY <1>2, <1>3, <1>5, <2>2 DEF Accept
  <1> QED
    BY <1>1, <1>4, <1>5
    DEF Process, RejectFull, RejectUnacceptable, RejectUnmatched, RejectByPlan

\* A packet that meets the QER is one of the four of TokenBucket: admitted
\* when it is committed, abandoned when its plan is refused, limited or
\* refused when the QER says so.
LEMMA MetIsBuckets ==
  ASSUME CoreInv, NEW p \in Packets, Process(p), NoteProcess(p), UNCHANGED rules,
         Evaluated(p) # {}
  PROVE  Bucket!Next
PROOF
  <1> DEFINE q == QerIn(rules)
             bytes == p.payloadBytes
             now == p.arrivalTimeMicros
             o == QerOutcome(q, Entry, bytes, now)
  <1>1. HasResultSpace /\ Acceptable(p)
    BY DEF Evaluated
  <1>2. PICK pdr \in Winner(Active, p) : TRUE
    BY DEF Evaluated
  <1>3. Winner(Active, p) = {pdr}
    BY <1>1, <1>2, OneWinner
  <1>4. /\ QerId \in DOMAIN runtime.qers
        /\ Value(Evaluated(p)).outcome = o
        /\ QerFailures(pdr, p) = {o} \ {"ALLOW"}
        /\ ChargedQers(pdr, p)[QerId] = QerNext(q, Entry, bytes, now)
    BY <1>1, Meeting
  <1>5. /\ last' = [time |-> now, outcome |-> o]
        /\ spent' = IF returned' \subseteq CommittedResults THEN spent + bytes ELSE spent
        /\ QerIn(rules)' = q
    BY <1>4 DEF NoteProcess
  <1>6. /\ bytes \in {x.payloadBytes : x \in Packets}
        /\ now \in {x.arrivalTimeMicros : x \in Packets}
    OBVIOUS
  <1>7. o \in {"GATE_CLOSED", "ARITHMETIC_ERROR", "RATE_LIMITED", "ALLOW"}
    BY QerOutcomes
  <1>8. ASSUME runtime'.qers = ChargedQers(pdr, p)
        PROVE  Entry' = QerNext(q, Entry, bytes, now)
    <2>1. DOMAIN runtime'.qers = DOMAIN runtime.qers
      BY <1>8 DEF ChargedQers
    <2> QED BY <1>4, <1>8, <2>1 DEF Entry
  <1>9. UNCHANGED runtime => Entry' = Entry
    BY DEF Entry
  <1>10. /\ \A r : \E d : IsDecision(d) /\ d = With(Selected(pdr, p), r) /\ d.result = r
         /\ \A r : \E d : IsDecision(d) /\ d = With(Planned(pdr, p), r) /\ d.result = r
    <2>1. ASSUME NEW r
          PROVE  /\ IsDecision(With(Selected(pdr, p), r)) /\ With(Selected(pdr, p), r).result = r
                 /\ IsDecision(With(Planned(pdr, p), r)) /\ With(Planned(pdr, p), r).result = r
      BY LateResults
    <2> QED BY <2>1
  <1>11. CASE RejectByQer(p)
    <2>1. PICK failure \in QerFailures(pdr, p) :
            /\ Retain(With(Selected(pdr, p), failure))
            /\ runtime' = IF failure = "RATE_LIMITED"
                          THEN [runtime EXCEPT !.qers = ChargedQers(pdr, p)] ELSE runtime
      BY <1>3, <1>11 DEF RejectByQer
    <2>2. failure = o /\ o # "ALLOW"
      BY <1>4
    <2>3. returned' = {o}
      BY <1>10, <2>1, <2>2, ResultReturned
    <2>4. spent' = spent
      BY <1>5, <1>7, <2>3 DEF CommittedResults
    <2>5. CASE o = "RATE_LIMITED"
      <3>1. runtime'.qers = ChargedQers(pdr, p)
        BY <2>1, <2>2, <2>5 DEF CoreInv, WellTypedRuntime
      <3>2. Entry' = QerNext(q, Entry, bytes, now)
        BY <1>8, <3>1
      <3> HIDE DEF q, o, bytes, now
      <3>3. Bucket!Limit(bytes, now)
        BY <1>5, <2>4, <2>5, <3>2, BucketOperators DEF Bucket!Limit, Bucket!Arrive, Entry, q, o
      <3> QED BY <1>6, <3>3 DEF Bucket!Next, bytes, now
    <2>6. CASE o # "RATE_LIMITED"
      <3>1. Entry' = Entry
        BY <1>9, <2>1, <2>2, <2>6
      <3>2. o \in {"GATE_CLOSED", "ARITHMETIC_ERROR"}
        BY <1>7, <2>2, <2>6
      <3> HIDE DEF q, o, bytes, now
      <3>3. Bucket!Refuse(bytes, now)
        BY <1>5, <2>4, <3>1, <3>2, BucketOperators DEF Bucket!Refuse, Bucket!Arrive, Entry, q, o
      <3> QED BY <1>6, <3>3 DEF Bucket!Next, bytes, now
    <2> QED BY <2>5, <2>6
  <1>12. CASE RejectByPlan(p)
    <2>1. PICK failure \in PlanFailures(pdr, p) :
            /\ QerFailures(pdr, p) = {}
            /\ Retain(With(Planned(pdr, p), failure)) /\ UNCHANGED runtime
      BY <1>3, <1>12 DEF RejectByPlan
    <2>2. o = "ALLOW"
      BY <1>4, <2>1
    <2>3. returned' = {failure}
      BY <1>10, <2>1, ResultReturned
    <2>4. failure \notin CommittedResults
      BY DEF PlanFailures, CommittedResults
    <2>5. spent' = spent
      BY <1>5, <2>3, <2>4
    <2>6. Entry' = Entry
      BY <1>9, <2>1
    <2> HIDE DEF q, o, bytes, now
    <2>7. Bucket!Abandon(bytes, now)
      BY <1>5, <2>2, <2>5, <2>6, BucketOperators DEF Bucket!Abandon, Bucket!Arrive, Entry, q, o
    <2> QED BY <1>6, <2>7 DEF Bucket!Next, bytes, now
  <1>13. CASE Accept(p)
    <2>1. QerFailures(pdr, p) = {} /\ Commit(pdr, p)
      BY <1>3, <1>13 DEF Accept
    <2>2. o = "ALLOW"
      BY <1>4, <2>1
    <2>3. runtime'.qers = ChargedQers(pdr, p)
      BY <2>1 DEF Commit, CoreInv, WellTypedRuntime
    <2>4. Entry' = QerNext(q, Entry, bytes, now)
      BY <1>8, <2>3
    <2>5. returned' \subseteq CommittedResults
      <3>1. CASE FarOf(pdr).action = "DROP"
        <4>1. Retain(With(Planned(pdr, p), "FAR_DROPPED"))
          BY <2>1, <3>1 DEF Commit
        <4> QED BY <1>10, <4>1, ResultReturned DEF CommittedResults
      <3>2. CASE FarOf(pdr).action # "DROP"
        <4>1. Retain(Forwarded(pdr, p))
          BY <2>1, <3>2 DEF Commit
        <4>2. /\ IsDecision(Forwarded(pdr, p))
              /\ Forwarded(pdr, p).result \in {"FORWARDED_TO_N3", "FORWARDED_TO_N6"}
          BY DecisionStages
        <4> QED BY <4>1, <4>2, ResultReturned DEF CommittedResults
      <3> QED BY <3>1, <3>2
    <2>6. spent' = spent + bytes
      BY <1>5, <2>5
    <2> HIDE DEF q, o, bytes, now
    <2>7. Bucket!Admit(bytes, now)
      BY <1>5, <2>2, <2>4, <2>6, BucketOperators DEF Bucket!Admit, Bucket!Arrive, Entry, q, o
    <2> QED BY <1>6, <2>7 DEF Bucket!Next, bytes, now
  <1>14. ~ (RejectFull(p) \/ RejectUnacceptable(p) \/ RejectUnmatched(p))
    BY <1>1, <1>3 DEF RejectFull, RejectUnacceptable, RejectUnmatched
  <1> QED BY <1>11, <1>12, <1>13, <1>14 DEF Process

-----------------------------------------------------------------------------
(* The theorems.                                                           *)

\* A step of the noted pipeline is one of the pipeline.
LEMMA NotedStep == [BucketsNext]_bucketVars => [Next]_vars
PROOF
  BY DEF BucketsNext, bucketVars, Next

\* The composed pipeline keeps the invariant of the pipeline.
THEOREM BucketsInvariant == BucketsSpec => []IInv
PROOF
  <1>1. BucketsInit => Init
    BY DEF BucketsInit
  <1>2. BucketsSpec => Spec
    BY <1>1, NotedStep, PTL DEF BucketsSpec, Spec
  <1> QED BY <1>2, PipelineInvariant, PTL

\* Before the first install the entry is the stand-in's.
LEMMA InitBucket == BucketsInit => Bucket!Init
PROOF
  <1> SUFFICES ASSUME BucketsInit PROVE Bucket!Init
    OBVIOUS
  <1>1. rules = {} /\ DOMAIN runtime.qers = {} /\ spent = 0 /\ last = Bucket!NoPacket
    BY DEF BucketsInit, Init, Constructed, NoRuntime
  <1>2. QerIn(rules) = Absent /\ Absent \in Configured
    BY <1>1, NoRulesNoQer DEF Configured
  <1>3. Bucket!FreshBucket(Absent) = FreshBucket(Absent)
    BY DEF Bucket!FreshBucket, FreshBucket
  <1> QED BY <1>1, <1>2, <1>3 DEF Bucket!Init

\* Every step of the pipeline is one of the bucket or leaves it alone.
LEMMA StepBucket == CoreInv /\ [BucketsNext]_bucketVars => [Bucket!Next]_(Bucket!vars)
PROOF
  <1> SUFFICES ASSUME CoreInv, [BucketsNext]_bucketVars PROVE [Bucket!Next]_(Bucket!vars)
    OBVIOUS
  <1>1. CASE Entry' = Entry /\ UNCHANGED <<rules, spent, last>>
    <2>1. QerIn(rules)' = QerIn(rules)
      BY <1>1
    <2> QED BY <1>1, <2>1 DEF Bucket!vars, Entry
  <1>2. ASSUME NEW rs \in RuleSets, RefuseInstall(rs), UNCHANGED <<spent, last>>
        PROVE  Entry' = Entry /\ UNCHANGED <<rules, spent, last>>
    BY <1>2 DEF RefuseInstall, Entry
  <1>3. ASSUME NEW p \in Packets, Process(p), NoteProcess(p), UNCHANGED rules
        PROVE  [Bucket!Next]_(Bucket!vars)
    <2>1. CASE Evaluated(p) = {}
      <3>1. Entry' = Entry
        BY <1>3, <2>1, UnmetKeepsEntry
      <3> QED BY <1>1, <1>3, <2>1, <3>1 DEF NoteProcess
    <2> QED BY <1>3, <2>1, MetIsBuckets
  <1>4. CASE UNCHANGED bucketVars
    <2>1. Entry' = Entry /\ UNCHANGED <<rules, spent, last>>
      BY <1>4 DEF bucketVars, vars, Entry
    <2> QED BY <1>1, <2>1
  <1> QED BY <1>1, <1>2, <1>3, <1>4, InstallIsBuckets DEF BucketsNext

\* The entry of a QER in the pipeline goes through the life of a TokenBucket.
THEOREM PipelineImplementsBucket == BucketsSpec => ImplementsTokenBucket
PROOF
  <1>1. IInv /\ [BucketsNext]_bucketVars => [Bucket!Next]_(Bucket!vars)
    BY StepBucket DEF IInv
  <1> QED
    BY <1>1, InitBucket, BucketsInvariant, PTL
    DEF BucketsSpec, ImplementsTokenBucket, Bucket!Spec

Proved == INSTANCE TokenBucket_proofs
            WITH Qers     <- Configured,
                 Sizes    <- {p.payloadBytes : p \in Packets},
                 Times    <- {p.arrivalTimeMicros : p \in Packets},
                 qer      <- QerIn(rules),
                 bucket   <- Entry

\* The contract of the QER, of the packets the pipeline commits under it: the
\* bytes passed and the tokens left stay within the largest burst and what
\* the largest rate earns until the last refill.
QerContract ==
  BitMicrosPerByte * (spent + Entry.tokensBytes) + Entry.remainderBitMicros
    <= BitMicrosPerByte * MaxBurst + MaxRate * Entry.lastRefillMicros

\* The QERs and packets of the pipeline are such as TokenBucket assumes.
LEMMA BucketAssumptions ==
  /\ \A q \in Configured : /\ q.burstBytes \in Proved!UInt64 /\ q.burstBytes <= MaxBurst
                           /\ q.rateBitsPerSecond \in Proved!UInt64
                           /\ q.rateBitsPerSecond <= MaxRate
  /\ MaxBurst \in Proved!UInt64 /\ MaxRate \in Proved!UInt64
  /\ {p.payloadBytes : p \in Packets} \subseteq Proved!UInt64
  /\ {p.arrivalTimeMicros : p \in Packets} \subseteq Proved!UInt64
PROOF
  <1>1. Proved!UInt64 = UInt64
    BY DEF Proved!UInt64, UInt64
  <1>2. ASSUME NEW q \in Configured
        PROVE  q.burstBytes \in UInt64 /\ q.rateBitsPerSecond \in UInt64
    <2>1. CASE q = Absent
      BY <2>1, UInt64MaxAssumption DEF Absent, UInt64
    <2>2. CASE q # Absent
      <3>1. PICK rs \in RuleSets : q \in FindRule(rs.qers, QerId)
        BY <1>2, <2>2 DEF Configured
      <3> QED BY <3>1, RuleSetsAssumption, FoundIsListed DEF WellTypedRuleSet, WellTypedQer
    <2> QED BY <2>1, <2>2
  <1>3. \A p \in Packets : p.payloadBytes \in UInt64 /\ p.arrivalTimeMicros \in UInt64
    BY PacketsAssumption DEF WellTypedPacket
  <1> QED BY <1>1, <1>2, <1>3, ConfiguredAssumption

\* Both instances of TokenBucket evaluate a QER alike.
LEMMA ProvedOperators ==
  ASSUME NEW q, NEW b, NEW bytes, NEW now
  PROVE  /\ Proved!QerOutcome(q, b, bytes, now) = Bucket!QerOutcome(q, b, bytes, now)
         /\ Proved!QerNext(q, b, bytes, now) = Bucket!QerNext(q, b, bytes, now)
         /\ Proved!FreshBucket(q) = Bucket!FreshBucket(q)
PROOF
  BY DEF Proved!QerOutcome, Bucket!QerOutcome, Proved!QerNext, Bucket!QerNext,
         Proved!FreshBucket, Bucket!FreshBucket, Proved!RefillFails, Bucket!RefillFails,
         Proved!Refilled, Bucket!Refilled, Proved!MultiplyOverflows, Bucket!MultiplyOverflows,
         Proved!AddOverflows, Bucket!AddOverflows, Proved!Elapsed, Bucket!Elapsed,
         Proved!Numerator, Bucket!Numerator, Proved!AddedTokens, Bucket!AddedTokens,
         Proved!Room, Bucket!Room, Proved!RefillBytes, Bucket!RefillBytes,
         Proved!UInt64, Bucket!UInt64

\* So they have the same behaviours.
LEMMA SameBucket ==
  /\ Bucket!Init => Proved!Init
  /\ [Bucket!Next]_(Bucket!vars) => [Proved!Next]_(Proved!vars)
PROOF
  <1>1. Bucket!Init => Proved!Init
    BY ProvedOperators DEF Bucket!Init, Proved!Init, Bucket!NoPacket, Proved!NoPacket, Entry
  <1>2. ASSUME NEW q, Bucket!Install(q) PROVE Proved!Install(q)
    BY <1>2, ProvedOperators DEF Bucket!Install, Proved!Install, Entry
  <1>3. ASSUME NEW bytes, NEW now
        PROVE  /\ Bucket!Admit(bytes, now) => Proved!Admit(bytes, now)
               /\ Bucket!Abandon(bytes, now) => Proved!Abandon(bytes, now)
               /\ Bucket!Limit(bytes, now) => Proved!Limit(bytes, now)
               /\ Bucket!Refuse(bytes, now) => Proved!Refuse(bytes, now)
    BY ProvedOperators
    DEF Bucket!Admit, Proved!Admit, Bucket!Abandon, Proved!Abandon, Bucket!Limit, Proved!Limit,
        Bucket!Refuse, Proved!Refuse, Bucket!Arrive, Proved!Arrive, Entry
  <1>4. Bucket!Next => Proved!Next
    BY <1>2, <1>3 DEF Bucket!Next, Proved!Next, Bucket!NoPacket, Proved!NoPacket
  <1> QED BY <1>1, <1>4 DEF Bucket!vars, Proved!vars, Entry

\* Whatever the pipeline's other rules, its refusals and its installs are, no
\* traffic obtains more under a QER than evaluateQer's contract allows.
THEOREM PipelineKeepsContract == BucketsSpec => []QerContract
PROOF
  <1>1. Proved!Spec => []Proved!TypeOK /\ []Proved!WithinBurst /\ []Proved!Conformance
    BY UInt64MaxAssumption, BitMicrosPerByteAssumption, BucketAssumptions, Proved!BucketConforms
  <1>2. Bucket!Spec => Proved!Spec
    BY SameBucket, PTL DEF Bucket!Spec, Proved!Spec
  <1>3. Proved!Conformance => QerContract
    BY DEF Proved!Conformance, QerContract
  <1> QED
    BY <1>1, <1>2, <1>3, PipelineImplementsBucket, PTL DEF ImplementsTokenBucket

-----------------------------------------------------------------------------
(* What the first packet of a scenario meets.                              *)

Decided == BuiltInScenarios \ ClassifiedScenarios

\* The ruleset a scenario installs.
RulesOf(name) ==
  CASE name = "downlink-forward" -> DownlinkRules
    [] name = "pdr-precedence"   -> PrecedenceRules
    [] OTHER                     -> UplinkRules

\* Its first packet, and the second that one of them has.
FirstPacket(name) ==
  CASE name = "downlink-forward" -> DownlinkPacket
    [] name = "qer-rate-limit"   -> Sized("pkt-rate-001", 19000)
    [] name = "urr-threshold"    -> Sized("pkt-urr-001", 10000)
    [] OTHER                     -> UplinkPacket

SecondPacket == Sized("pkt-rate-002", 2000)

\* The rules a packet of rs meets: the first of each list.
Pdr1(rs) == rs.pdrs[1]
Far1(rs) == rs.fars[1]
Qer1(rs) == rs.qers[1]
Urr1(rs) == rs.urrs[1]

Metered(q)     == q.gate = "OPEN" /\ q.rateBitsPerSecond = 10000000 /\ q.burstBytes = 20000
Thresholded(u) == u.volumeThresholdBytes = 10000

\* rs has one FAR, QER and URR, and its first PDR leads to them.
Simple(rs) ==
  /\ rs.sessionId = "session-1" /\ rs.version = 3
  /\ rs.fars = <<Far1(rs)>> /\ rs.qers = <<Qer1(rs)>> /\ rs.urrs = <<Urr1(rs)>>
  /\ Pdr1(rs).farId = Far1(rs).id /\ Pdr1(rs).qerId = {Qer1(rs).id} /\ Pdr1(rs).urrId = {Urr1(rs).id}
  /\ Far1(rs).action = "FORWARD"
  /\ Metered(Qer1(rs)) /\ Thresholded(Urr1(rs))

\* The one rule of a list is found by its id.
LEMMA OneRule ==
  ASSUME NEW r
  PROVE  /\ FindRule(<<r>>, r.id) = {r} /\ RuleOf(<<r>>, r.id) = r /\ Ids(<<r>>) = {r.id}
         /\ IsVector(<<r>>) /\ (r.id # 0 => UniqueIds(<<r>>))
PROOF
  <1>1. DOMAIN <<r>> = {1} /\ <<r>>[1] = r /\ Len(<<r>>) = 1
    OBVIOUS
  <1>2. FindRule(<<r>>, r.id) = {r}
    BY <1>1 DEF FindRule
  <1>3. Ids(<<r>>) = {r.id}
    BY <1>1 DEF Ids
  <1>4. IsVector(<<r>>)
    BY <1>1 DEF IsVector
  <1>5. r.id # 0 => UniqueIds(<<r>>)
    BY <1>1 DEF UniqueIds
  <1> QED BY <1>2, <1>3, <1>4, <1>5, ValueOfSingleton DEF RuleOf

\* What the rulesets are made of.
LEMMA RulesMade ==
  ASSUME NEW pdrs, NEW far, NEW q, NEW u, NEW rs, rs = RulesWith(pdrs, far, q, u)
  PROVE  /\ rs.sessionId = "session-1" /\ rs.version = 3 /\ rs.pdrs = pdrs
         /\ rs.fars = <<far>> /\ Far1(rs) = far
         /\ rs.qers = <<Qer1(rs)>> /\ Qer1(rs).id = q /\ Metered(Qer1(rs))
         /\ rs.urrs = <<Urr1(rs)>> /\ Urr1(rs).id = u /\ Thresholded(Urr1(rs))
PROOF
  BY DEF RulesWith, Far1, Qer1, Urr1, Metered, Thresholded

\* What the PDRs say.
LEMMA PdrsMade ==
  /\ UplinkPdr.id = 10 /\ UplinkPdr.precedence = 100 /\ UplinkPdr.sourceInterface = "N3"
  /\ UplinkPdr.teid = {1001} /\ UplinkPdr.qfi = {9}
  /\ UplinkPdr.farId = 20 /\ UplinkPdr.qerId = {30} /\ UplinkPdr.urrId = {40}
  /\ LowerPriority.id = 11 /\ LowerPriority.precedence = 200
  /\ LowerPriority.sourceInterface = "N3" /\ LowerPriority.teid = {1001} /\ LowerPriority.qfi = {9}
  /\ LowerPriority.farId = 20 /\ LowerPriority.qerId = {30} /\ LowerPriority.urrId = {40}
  /\ DownlinkPdr.id = 11 /\ DownlinkPdr.precedence = 100 /\ DownlinkPdr.sourceInterface = "N6"
  /\ DownlinkPdr.teid = {} /\ DownlinkPdr.qfi = {}
  /\ DownlinkPdr.farId = 21 /\ DownlinkPdr.qerId = {31} /\ DownlinkPdr.urrId = {41}
  /\ \A pdr \in {UplinkPdr, LowerPriority, DownlinkPdr} :
       /\ pdr.uePrefix = UePrefix /\ pdr.protocol = {"UDP"}
       /\ pdr.localPorts = {[first |-> 41000, last |-> 41000]}
       /\ pdr.remotePorts = {[first |-> 443, last |-> 443]}
PROOF
  BY DEF UplinkPdr, LowerPriority, DownlinkPdr, Port

\* The three rulesets are simple.
LEMMA RulesAreSimple ==
  ASSUME NEW rs \in {UplinkRules, DownlinkRules, PrecedenceRules}
  PROVE  Simple(rs)
PROOF
  <1>1. ToN6.id = 20 /\ ToN6.action = "FORWARD" /\ ToN3.id = 21 /\ ToN3.action = "FORWARD"
    BY DEF ToN6, ToN3
  <1>2. CASE rs = UplinkRules
    <2>1. Pdr1(rs) = UplinkPdr
      BY <1>2, RulesMade DEF UplinkRules, Pdr1
    <2> QED BY <1>1, <1>2, <2>1, RulesMade, PdrsMade DEF UplinkRules, Simple
  <1>3. CASE rs = DownlinkRules
    <2>1. Pdr1(rs) = DownlinkPdr
      BY <1>3, RulesMade DEF DownlinkRules, Pdr1
    <2> QED BY <1>1, <1>3, <2>1, RulesMade, PdrsMade DEF DownlinkRules, Simple
  <1>4. CASE rs = PrecedenceRules
    <2>1. Pdr1(rs) = UplinkPdr
      BY <1>4, RulesMade DEF PrecedenceRules, Pdr1
    <2> QED BY <1>1, <1>4, <2>1, RulesMade, PdrsMade DEF PrecedenceRules, Simple
  <1> QED BY <1>2, <1>3, <1>4

\* The bits of an address up to a position are those of its numbers.
LEMMA SamePrefix ==
  ASSUME NEW a, NEW b, a[1] = b[1], a[2] = b[2], a[3] = b[3]
  PROVE  \A k \in 1 .. 24 : Ipv4(a).bits[k] = Ipv4(b).bits[k]
PROOF
  <1> TAKE k \in 1 .. 24
  <1>1. (k + 7) \div 8 \in {1, 2, 3} /\ k \in 1 .. 32
    OBVIOUS
  <1>2. a[(k + 7) \div 8] = b[(k + 7) \div 8]
    BY <1>1
  <1> QED BY <1>1, <1>2 DEF Ipv4

\* The UE address of the packets is in the prefix of the PDRs.
LEMMA UeInPrefix == PrefixContains(UePrefix, UeIp)
PROOF
  <1> DEFINE a == <<10, 10, 0, 0>>
             b == <<10, 10, 0, 7>>
  <1>1. a[1] = b[1] /\ a[2] = b[2] /\ a[3] = b[3]
    OBVIOUS
  <1> HIDE DEF a, b
  <1>2. \A k \in 1 .. 24 : Ipv4(a).bits[k] = Ipv4(b).bits[k]
    BY <1>1, SamePrefix
  <1>3. Ipv4(a).family = Ipv4(b).family
    BY DEF Ipv4
  <1>4. UePrefix.network = Ipv4(a) /\ UePrefix.length = 24
    BY DEF UePrefix, a
  <1>5. PrefixContains(UePrefix, Ipv4(b))
    BY <1>2, <1>3, <1>4 DEF PrefixContains
  <1> QED BY <1>5 DEF b, UeIp

-----------------------------------------------------------------------------
(* The packets of the scenarios, by direction and size.                    *)

\* The criteria a PDR compares, and the size the policies count.
Travels(p, ingress, tunnel, bytes) ==
  /\ p.sessionId = "session-1" /\ ValidPacket(p)
  /\ p.arrivalTimeMicros = 0 /\ p.payloadBytes = bytes
  /\ UeAddress(p) = UeIp /\ p.protocol = "UDP" /\ LocalPort(p) = 41000 /\ RemotePort(p) = 443
  /\ p.ingress = ingress /\ p.tunnel = tunnel

\* The names validPacket asks for.
Named(p) == p.packetId # "" /\ p.sessionId # ""

\* The side of the UE, and what is left of ValidPacket, on each interface.
LEMMA Sides ==
  ASSUME NEW p, p.sourceIp.family = p.destinationIp.family, Named(p)
  PROVE  /\ p.ingress = "N6" =>
              /\ UeAddress(p) = p.destinationIp
              /\ LocalPort(p) = p.destinationPort /\ RemotePort(p) = p.sourcePort
              /\ p.tunnel = {} => ValidPacket(p)
         /\ p.ingress = "N3" =>
              /\ UeAddress(p) = p.sourceIp
              /\ LocalPort(p) = p.sourcePort /\ RemotePort(p) = p.destinationPort
              /\ p.tunnel = {UeTunnel} => ValidPacket(p)
PROOF
  <1>1. TunnelValid(UeTunnel)
    BY DEF UeTunnel, TunnelValid, MaxQfi
  <1> QED BY <1>1 DEF UeAddress, LocalPort, RemotePort, ValidPacket, Named

\* Addresses of four numbers are of one family.
LEMMA OneFamily == UeIp.family = RemoteIp.family
PROOF
  BY DEF UeIp, RemoteIp, Ipv4

\* The packets of the uplink differ in their id and size only.
LEMMA SizedNames ==
  ASSUME NEW id, NEW bytes
  PROVE  Sized(id, bytes).packetId = id /\ Sized(id, bytes).sessionId = "session-1"
PROOF
  BY DEF Sized

\* The names of the downlink packet.
LEMMA DownlinkNames ==
  DownlinkPacket.packetId = "pkt-dl-001" /\ DownlinkPacket.sessionId = "session-1"
PROOF
  BY DEF DownlinkPacket, UplinkPacket, Sized

\* The fields of an uplink packet.
LEMMA UplinkFields ==
  ASSUME NEW id, NEW bytes, NEW q, q = Sized(id, bytes)
  PROVE  /\ q.packetId = id /\ q.sessionId = "session-1" /\ q.ingress = "N3"
         /\ q.tunnel = {UeTunnel} /\ q.sourceIp = UeIp /\ q.destinationIp = RemoteIp
         /\ q.protocol = "UDP" /\ q.sourcePort = 41000 /\ q.destinationPort = 443
         /\ q.payloadBytes = bytes /\ q.arrivalTimeMicros = 0
PROOF
  BY DEF Sized

\* The fields of the downlink packet.
LEMMA DownlinkFields ==
  ASSUME NEW q, q = DownlinkPacket
  PROVE  /\ q.packetId = "pkt-dl-001" /\ q.sessionId = "session-1" /\ q.ingress = "N6"
         /\ q.tunnel = {} /\ q.sourceIp = RemoteIp /\ q.destinationIp = UeIp
         /\ q.protocol = "UDP" /\ q.sourcePort = 443 /\ q.destinationPort = 41000
         /\ q.payloadBytes = 900 /\ q.arrivalTimeMicros = 0
PROOF
  BY DEF DownlinkPacket, UplinkPacket, Sized

\* No packet of a scenario lacks a name.
LEMMA AllNamed ==
  /\ Named(DownlinkPacket) /\ Named(UplinkPacket)
  /\ Named(Sized("pkt-rate-001", 19000)) /\ Named(Sized("pkt-rate-002", 2000))
  /\ Named(Sized("pkt-urr-001", 10000))
PROOF
  <1>1. /\ "pkt-dl-001" # "" /\ "pkt-ul-001" # "" /\ "pkt-rate-001" # "" /\ "pkt-rate-002" # ""
        /\ "pkt-urr-001" # "" /\ "session-1" # ""
    BY Zenon
  <1>2. ASSUME NEW id, NEW bytes, id # ""
        PROVE  Named(Sized(id, bytes))
    <2>1. Sized(id, bytes).packetId = id /\ Sized(id, bytes).sessionId = "session-1"
      BY SizedNames, Zenon
    <2> QED BY <1>1, <1>2, <2>1, Zenon DEF Named
  <1>3. Named(DownlinkPacket)
    BY <1>1, DownlinkNames, Zenon DEF Named
  <1>4. ASSUME NEW bytes
        PROVE  /\ Named(Sized("pkt-ul-001", bytes)) /\ Named(Sized("pkt-rate-001", bytes))
               /\ Named(Sized("pkt-rate-002", bytes)) /\ Named(Sized("pkt-urr-001", bytes))
    BY <1>1, <1>2, Zenon
  <1> QED BY <1>3, <1>4 DEF UplinkPacket

\* An uplink packet enters on N3, through the tunnel of its UE.
LEMMA UplinkTravels ==
  ASSUME NEW id, NEW bytes, Named(Sized(id, bytes))
  PROVE  Travels(Sized(id, bytes), "N3", {UeTunnel}, bytes)
PROOF
  <1>1. PICK p : p = Sized(id, bytes)
    OBVIOUS
  <1>2. /\ p.ingress = "N3" /\ p.tunnel = {UeTunnel} /\ p.sourceIp = UeIp /\ p.destinationIp = RemoteIp
        /\ p.sourcePort = 41000 /\ p.destinationPort = 443
    BY <1>1, UplinkFields
  <1>3. /\ p.sessionId = "session-1" /\ p.protocol = "UDP" /\ p.arrivalTimeMicros = 0
        /\ p.payloadBytes = bytes
    BY <1>1, UplinkFields
  <1>4. UeAddress(p) = UeIp /\ LocalPort(p) = 41000 /\ RemotePort(p) = 443 /\ ValidPacket(p)
    BY <1>1, <1>2, OneFamily, Sides
  <1> QED BY <1>1, <1>2, <1>3, <1>4 DEF Travels

\* The downlink packet enters on N6, through no tunnel.
LEMMA DownlinkTravels == Travels(DownlinkPacket, "N6", {}, 900)
PROOF
  <1>1. PICK p : p = DownlinkPacket
    OBVIOUS
  <1>2. /\ p.ingress = "N6" /\ p.tunnel = {} /\ p.sourceIp = RemoteIp /\ p.destinationIp = UeIp
        /\ p.sourcePort = 443 /\ p.destinationPort = 41000
    BY <1>1, DownlinkFields
  <1>3. /\ p.sessionId = "session-1" /\ p.protocol = "UDP" /\ p.arrivalTimeMicros = 0
        /\ p.payloadBytes = 900
    BY <1>1, DownlinkFields
  <1>4. UeAddress(p) = UeIp /\ LocalPort(p) = 41000 /\ RemotePort(p) = 443 /\ ValidPacket(p)
    BY <1>1, <1>2, OneFamily, Sides, AllNamed
  <1> QED BY <1>1, <1>2, <1>3, <1>4 DEF Travels

\* The size of the first packet.
BytesOf(name) ==
  CASE name = "downlink-forward" -> 900
    [] name = "qer-rate-limit"   -> 19000
    [] name = "urr-threshold"    -> 10000
    [] OTHER                     -> 1200

\* The first packets travel in the direction of their rules.
LEMMA FirstTravels ==
  ASSUME NEW name
  PROVE  /\ name = "downlink-forward" => Travels(FirstPacket(name), "N6", {}, BytesOf(name))
         /\ name # "downlink-forward" => Travels(FirstPacket(name), "N3", {UeTunnel}, BytesOf(name))
PROOF
  <1>1. CASE name = "downlink-forward"
    <2>1. FirstPacket(name) = DownlinkPacket /\ BytesOf(name) = 900
      BY <1>1 DEF FirstPacket, BytesOf
    <2> QED BY <1>1, <2>1, DownlinkTravels
  <1>2. CASE name = "qer-rate-limit"
    <2>1. FirstPacket(name) = Sized("pkt-rate-001", 19000) /\ BytesOf(name) = 19000
      BY <1>2 DEF FirstPacket, BytesOf
    <2>2. Travels(Sized("pkt-rate-001", 19000), "N3", {UeTunnel}, 19000)
      BY UplinkTravels, AllNamed
    <2> QED BY <1>2, <2>1, <2>2
  <1>3. CASE name = "urr-threshold"
    <2>1. FirstPacket(name) = Sized("pkt-urr-001", 10000) /\ BytesOf(name) = 10000
      BY <1>3 DEF FirstPacket, BytesOf
    <2>2. Travels(Sized("pkt-urr-001", 10000), "N3", {UeTunnel}, 10000)
      BY UplinkTravels, AllNamed
    <2> QED BY <1>3, <2>1, <2>2
  <1>4. CASE name \notin {"downlink-forward", "qer-rate-limit", "urr-threshold"}
    <2>1. FirstPacket(name) = UplinkPacket /\ BytesOf(name) = 1200
      BY <1>4 DEF FirstPacket, BytesOf
    <2>2. Travels(UplinkPacket, "N3", {UeTunnel}, 1200)
      BY UplinkTravels, AllNamed DEF UplinkPacket
    <2> QED BY <1>4, <2>1, <2>2
  <1> QED BY <1>1, <1>2, <1>3, <1>4

-----------------------------------------------------------------------------
(* The rules and the packets of a scenario meet.                           *)

\* A PDR of the scenarios is for the traffic of an interface and a tunnel.
Selects(pdr, ingress, tunnel) ==
  /\ pdr.uePrefix = UePrefix /\ pdr.protocol = {"UDP"}
  /\ pdr.localPorts = {[first |-> 41000, last |-> 41000]}
  /\ pdr.remotePorts = {[first |-> 443, last |-> 443]}
  /\ pdr.sourceInterface = ingress
  /\ pdr.teid = {t.teid : t \in tunnel} /\ pdr.qfi = {t.qfi : t \in tunnel}

\* The PDRs select the traffic of their direction.
LEMMA ScenarioPdrs ==
  /\ Selects(UplinkPdr, "N3", {UeTunnel}) /\ Selects(LowerPriority, "N3", {UeTunnel})
  /\ Selects(DownlinkPdr, "N6", {})
PROOF
  <1>1. {t.teid : t \in {UeTunnel}} = {1001} /\ {t.qfi : t \in {UeTunnel}} = {9}
    BY DEF UeTunnel
  <1> QED BY <1>1, PdrsMade DEF Selects

\* A packet matches every PDR for its traffic.
LEMMA TrafficMatches ==
  ASSUME NEW pdr, NEW p, NEW ingress, NEW tunnel, NEW bytes,
         Selects(pdr, ingress, tunnel), Travels(p, ingress, tunnel, bytes)
  PROVE  Matches(pdr, p)
PROOF
  <1>1. pdr.sourceInterface = p.ingress
    BY DEF Selects, Travels
  <1>2. \A t \in pdr.teid : \E u \in p.tunnel : u.teid = t
    BY DEF Selects, Travels
  <1>3. PrefixContains(pdr.uePrefix, UeAddress(p))
    BY UeInPrefix DEF Selects, Travels
  <1>4. \A q \in pdr.protocol : q = p.protocol
    BY DEF Selects, Travels
  <1>5. \A r \in pdr.localPorts : PortRangeContains(r, LocalPort(p))
    <2>1. pdr.localPorts = {[first |-> 41000, last |-> 41000]} /\ LocalPort(p) = 41000
      BY DEF Selects, Travels
    <2> QED BY <2>1 DEF PortRangeContains, PortRangeValid
  <1>6. \A r \in pdr.remotePorts : PortRangeContains(r, RemotePort(p))
    <2>1. pdr.remotePorts = {[first |-> 443, last |-> 443]} /\ RemotePort(p) = 443
      BY DEF Selects, Travels
    <2> QED BY <2>1 DEF PortRangeContains, PortRangeValid
  <1>7. \A q \in pdr.qfi : \E u \in p.tunnel : u.qfi = q
    BY DEF Selects, Travels
  <1> QED BY <1>1, <1>2, <1>3, <1>4, <1>5, <1>6, <1>7 DEF Matches, Criteria

\* Of one PDR, or two, that match, the first wins when the second has the
\* higher precedence number.
LEMMA OnlyOneWins ==
  ASSUME NEW rs, NEW a, NEW p, rs.pdrs = <<a>>, Matches(a, p)
  PROVE  Winner(rs, p) = {a}
PROOF
  BY DEF Winner

\* ... and the one of lower precedence number of two.
LEMMA FirstOfTwoWins ==
  ASSUME NEW rs, NEW a, NEW b, NEW p, rs.pdrs = <<a, b>>, Matches(a, p),
         a.precedence \in Nat, b.precedence \in Nat, a.precedence < b.precedence
  PROVE  Winner(rs, p) = {a}
PROOF
  <1>1. DOMAIN rs.pdrs = {1, 2} /\ rs.pdrs[1] = a /\ rs.pdrs[2] = b
    OBVIOUS
  <1>2. ASSUME NEW k \in DOMAIN rs.pdrs
        PROVE  (/\ Matches(rs.pdrs[k], p)
                /\ \A j \in DOMAIN rs.pdrs :
                     Matches(rs.pdrs[j], p) =>
                       \/ rs.pdrs[k].precedence < rs.pdrs[j].precedence
                       \/ rs.pdrs[k].precedence = rs.pdrs[j].precedence /\ k <= j) <=> k = 1
    BY <1>1
  <1> QED BY <1>1, <1>2 DEF Winner

\* The PDR list of each ruleset.
LEMMA PdrLists ==
  /\ UplinkRules.pdrs = <<UplinkPdr>> /\ DownlinkRules.pdrs = <<DownlinkPdr>>
  /\ PrecedenceRules.pdrs = <<UplinkPdr, LowerPriority>>
  /\ Far1(UplinkRules) = ToN6 /\ Far1(PrecedenceRules) = ToN6 /\ Far1(DownlinkRules) = ToN3
PROOF
  BY RulesMade DEF UplinkRules, DownlinkRules, PrecedenceRules

\* In every ruleset the first PDR wins the packets of its direction.
LEMMA FirstWins ==
  ASSUME NEW p, NEW bytes
  PROVE  /\ Travels(p, "N3", {UeTunnel}, bytes) =>
              Winner(UplinkRules, p) = {UplinkPdr} /\ Winner(PrecedenceRules, p) = {UplinkPdr}
         /\ Travels(p, "N6", {}, bytes) => Winner(DownlinkRules, p) = {DownlinkPdr}
PROOF
  <1>1. ASSUME Travels(p, "N3", {UeTunnel}, bytes)
        PROVE  Winner(UplinkRules, p) = {UplinkPdr}
    <2>1. Matches(UplinkPdr, p)
      BY <1>1, ScenarioPdrs, TrafficMatches
    <2> QED BY <2>1, PdrLists, OnlyOneWins
  <1>2. ASSUME Travels(p, "N3", {UeTunnel}, bytes)
        PROVE  Winner(PrecedenceRules, p) = {UplinkPdr}
    <2>1. Matches(UplinkPdr, p)
      BY <1>2, ScenarioPdrs, TrafficMatches
    <2> QED BY <2>1, PdrLists, PdrsMade, FirstOfTwoWins
  <1>3. ASSUME Travels(p, "N6", {}, bytes)
        PROVE  Winner(DownlinkRules, p) = {DownlinkPdr}
    <2>1. Matches(DownlinkPdr, p)
      BY <1>3, ScenarioPdrs, TrafficMatches
    <2> QED BY <2>1, PdrLists, OnlyOneWins
  <1> QED BY <1>1, <1>2, <1>3

\* The FAR of the direction forwards the packet.
LEMMA FarsForward ==
  ASSUME NEW p, NEW bytes
  PROVE  /\ Travels(p, "N3", {UeTunnel}, bytes) =>
              FarForwards(ToN6, p) /\ RemovesTunnel(ToN6, p) /\ FarDestination(ToN6) = "N6"
         /\ Travels(p, "N6", {}, bytes) =>
              FarForwards(ToN3, p) /\ ~ RemovesTunnel(ToN3, p) /\ FarDestination(ToN3) = "N3"
PROOF
  <1>1. Value({"N6"}) = "N6" /\ Value({"N3"}) = "N3"
    BY ValueOfSingleton
  <1>2. /\ ToN6.action = "FORWARD" /\ ToN6.destination = {"N6"} /\ ToN6.operation = "REMOVE"
        /\ ToN3.action = "FORWARD" /\ ToN3.destination = {"N3"} /\ ToN3.operation = "ADD"
        /\ ToN3.tunnel = {[teid |-> 2001, qfi |-> 9]}
    BY DEF ToN6, ToN3
  <1>3. FarDestination(ToN6) = "N6" /\ FarDestination(ToN3) = "N3"
    BY <1>1, <1>2 DEF FarDestination, HasValue
  <1>4. ASSUME Travels(p, "N3", {UeTunnel}, bytes)
        PROVE  FarForwards(ToN6, p) /\ RemovesTunnel(ToN6, p)
    <2>1. p.ingress = "N3"
      BY <1>4 DEF Travels
    <2> QED BY <1>2, <2>1 DEF FarForwards, RemovesTunnel
  <1>5. ASSUME Travels(p, "N6", {}, bytes)
        PROVE  FarForwards(ToN3, p) /\ ~ RemovesTunnel(ToN3, p)
    <2>1. p.ingress = "N6"
      BY <1>5 DEF Travels
    <2> QED BY <1>2, <2>1 DEF FarForwards, RemovesTunnel, AddsTunnel, HasValue
  <1> QED BY <1>3, <1>4, <1>5

-----------------------------------------------------------------------------
(* The rulesets of the scenarios are valid.                                *)

\* A ruleset with one FAR, QER and URR that its PDRs lead to.
LEMMA LeadsThrough ==
  ASSUME NEW rs, Simple(rs), NEW pdr, pdr.farId = Far1(rs).id,
         pdr.qerId = {Qer1(rs).id}, pdr.urrId = {Urr1(rs).id},
         FarFits(pdr, Far1(rs)), HasValue(pdr.teid) <=> pdr.sourceInterface = "N3",
         \A r \in pdr.localPorts \cup pdr.remotePorts : PortRangeValid(r)
  PROVE  PdrValid(rs, pdr)
PROOF
  <1>1. rs.fars = <<Far1(rs)>> /\ rs.qers = <<Qer1(rs)>> /\ rs.urrs = <<Urr1(rs)>>
    BY DEF Simple
  <1>2. FindRule(rs.fars, pdr.farId) = {Far1(rs)}
    BY <1>1, OneRule
  <1>3. FindRule(rs.qers, Qer1(rs).id) = {Qer1(rs)} /\ FindRule(rs.urrs, Urr1(rs).id) = {Urr1(rs)}
    BY <1>1, OneRule
  <1> QED BY <1>2, <1>3 DEF PdrValid

\* The PDRs of the scenarios lead to their rules as validation asks.
LEMMA PdrsFit ==
  /\ FarFits(UplinkPdr, ToN6) /\ FarFits(LowerPriority, ToN6) /\ FarFits(DownlinkPdr, ToN3)
  /\ \A pdr \in {UplinkPdr, LowerPriority, DownlinkPdr} :
       /\ HasValue(pdr.teid) <=> pdr.sourceInterface = "N3"
       /\ \A r \in pdr.localPorts \cup pdr.remotePorts : PortRangeValid(r)
PROOF
  <1>1. /\ ToN6.action = "FORWARD" /\ ToN6.destination = {"N6"} /\ ToN6.operation = "REMOVE"
        /\ ToN3.action = "FORWARD" /\ ToN3.destination = {"N3"} /\ ToN3.operation = "ADD"
        /\ ToN3.tunnel = {[teid |-> 2001, qfi |-> 9]}
    BY DEF ToN6, ToN3
  <1>2. TunnelValid([teid |-> 2001, qfi |-> 9])
    BY DEF TunnelValid, MaxQfi
  <1>3. /\ UplinkPdr.sourceInterface = "N3" /\ LowerPriority.sourceInterface = "N3"
        /\ DownlinkPdr.sourceInterface = "N6"
    BY PdrsMade
  <1>4. /\ UplinkPdr.teid = {1001} /\ LowerPriority.teid = {1001} /\ DownlinkPdr.teid = {}
    BY PdrsMade
  <1>5. FarFits(UplinkPdr, ToN6) /\ FarFits(LowerPriority, ToN6)
    BY <1>1, <1>3 DEF FarFits
  <1>6. FarFits(DownlinkPdr, ToN3)
    BY <1>1, <1>2, <1>3 DEF FarFits
  <1>7. ASSUME NEW pdr \in {UplinkPdr, LowerPriority, DownlinkPdr}
        PROVE  /\ HasValue(pdr.teid) <=> pdr.sourceInterface = "N3"
               /\ \A r \in pdr.localPorts \cup pdr.remotePorts : PortRangeValid(r)
    <2>1. HasValue(pdr.teid) <=> pdr.sourceInterface = "N3"
      BY <1>3, <1>4 DEF HasValue
    <2>2. /\ pdr.localPorts = {[first |-> 41000, last |-> 41000]}
          /\ pdr.remotePorts = {[first |-> 443, last |-> 443]}
      BY PdrsMade
    <2> QED BY <2>1, <2>2 DEF PortRangeValid
  <1> QED BY <1>5, <1>6, <1>7

\* What is left of the validation, for a list of one or two PDRs.
LEMMA SimpleIsValid ==
  ASSUME NEW rs, Simple(rs), Len(rs.pdrs) \in {1, 2}, UniqueIds(rs.pdrs),
         Far1(rs).id # 0, Qer1(rs).id # 0, Urr1(rs).id # 0,
         \A i \in DOMAIN rs.pdrs : PdrValid(rs, rs.pdrs[i]),
         \A i, j \in DOMAIN rs.pdrs : i < j => rs.pdrs[i].precedence # rs.pdrs[j].precedence
  PROVE  ValidateRuleSet(rs)
PROOF
  <1>1. rs.fars = <<Far1(rs)>> /\ rs.qers = <<Qer1(rs)>> /\ rs.urrs = <<Urr1(rs)>>
    BY DEF Simple
  <1>2. rs.sessionId # ""
    <2>1. rs.sessionId = "session-1"
      BY DEF Simple
    <2> QED BY <2>1, Zenon
  <1>3. rs.version # 0
    BY DEF Simple
  <1>4. UniqueIds(rs.fars) /\ UniqueIds(rs.qers) /\ UniqueIds(rs.urrs)
    BY <1>1, OneRule
  <1>5. Len(rs.fars) = 1 /\ Len(rs.qers) = 1 /\ Len(rs.urrs) = 1
    BY <1>1
  <1>6. \A k \in 1 .. 4 : Len(RuleLists(rs)[k]) <= RulesPerType
    <2>1. 1 <= RulesPerType /\ 2 <= RulesPerType
      BY ScenarioSizesAssumption, RulesPerTypeAssumption
    <2>2. \A k \in 1 .. 4 : Len(RuleLists(rs)[k]) \in {1, 2}
      BY <1>5 DEF RuleLists
    <2> QED BY <2>1, <2>2
  <1>7. \A k \in 1 .. 4 : UniqueIds(RuleLists(rs)[k])
    BY <1>4 DEF RuleLists
  <1>8. \A i, j \in DOMAIN rs.pdrs :
          i < j => ~ /\ rs.pdrs[i].precedence = rs.pdrs[j].precedence
                     /\ MatchSpacesOverlap(rs.pdrs[i], rs.pdrs[j])
    OBVIOUS
  <1> QED BY <1>2, <1>3, <1>6, <1>7, <1>8, Zenon DEF ValidateRuleSet

\* The rulesets of the scenarios pass validation.
LEMMA RulesAreValid ==
  ValidateRuleSet(UplinkRules) /\ ValidateRuleSet(DownlinkRules) /\ ValidateRuleSet(PrecedenceRules)
PROOF
  <1>1. /\ UplinkPdr.farId = ToN6.id /\ LowerPriority.farId = ToN6.id /\ DownlinkPdr.farId = ToN3.id
        /\ ToN6.id # 0 /\ ToN3.id # 0
    BY PdrsMade DEF ToN6, ToN3
  <1>2. /\ Qer1(UplinkRules).id = 30 /\ Urr1(UplinkRules).id = 40
        /\ Qer1(PrecedenceRules).id = 30 /\ Urr1(PrecedenceRules).id = 40
        /\ Qer1(DownlinkRules).id = 31 /\ Urr1(DownlinkRules).id = 41
    BY RulesMade DEF UplinkRules, DownlinkRules, PrecedenceRules
  <1>3. /\ UplinkPdr.qerId = {30} /\ UplinkPdr.urrId = {40}
        /\ LowerPriority.qerId = {30} /\ LowerPriority.urrId = {40}
        /\ DownlinkPdr.qerId = {31} /\ DownlinkPdr.urrId = {41}
    BY PdrsMade
  <1>4. UplinkPdr.id = 10 /\ LowerPriority.id = 11 /\ DownlinkPdr.id = 11
    BY PdrsMade
  <1>5. UplinkPdr.precedence # LowerPriority.precedence
    BY PdrsMade
  <1>6. Simple(UplinkRules) /\ Simple(DownlinkRules) /\ Simple(PrecedenceRules)
    BY RulesAreSimple
  <1>7. ValidateRuleSet(UplinkRules)
    <2>1. PdrValid(UplinkRules, UplinkPdr)
      BY <1>1, <1>2, <1>3, <1>6, PdrLists, PdrsFit, LeadsThrough
    <2>2. UniqueIds(UplinkRules.pdrs)
      BY <1>4, PdrLists, OneRule
    <2> QED BY <1>1, <1>2, <1>6, <2>1, <2>2, PdrLists, SimpleIsValid
  <1>8. ValidateRuleSet(DownlinkRules)
    <2>1. PdrValid(DownlinkRules, DownlinkPdr)
      BY <1>1, <1>2, <1>3, <1>6, PdrLists, PdrsFit, LeadsThrough
    <2>2. UniqueIds(DownlinkRules.pdrs)
      BY <1>4, PdrLists, OneRule
    <2> QED BY <1>1, <1>2, <1>6, <2>1, <2>2, PdrLists, SimpleIsValid
  <1>9. ValidateRuleSet(PrecedenceRules)
    <2>1. PdrValid(PrecedenceRules, UplinkPdr)
      BY <1>1, <1>2, <1>3, <1>6, PdrLists, PdrsFit, LeadsThrough
    <2>2. PdrValid(PrecedenceRules, LowerPriority)
      BY <1>1, <1>2, <1>3, <1>6, PdrLists, PdrsFit, LeadsThrough
    <2>3. UniqueIds(PrecedenceRules.pdrs)
      BY <1>4, PdrLists DEF UniqueIds
    <2>4. /\ Len(PrecedenceRules.pdrs) = 2 /\ DOMAIN PrecedenceRules.pdrs = {1, 2}
          /\ PrecedenceRules.pdrs[1] = UplinkPdr /\ PrecedenceRules.pdrs[2] = LowerPriority
      BY PdrLists
    <2>5. /\ \A i \in DOMAIN PrecedenceRules.pdrs : PdrValid(PrecedenceRules, PrecedenceRules.pdrs[i])
          /\ \A i, j \in DOMAIN PrecedenceRules.pdrs :
               i < j => PrecedenceRules.pdrs[i].precedence # PrecedenceRules.pdrs[j].precedence
      BY <1>5, <2>1, <2>2, <2>4
    <2> QED BY <1>1, <1>2, <1>6, <2>3, <2>4, <2>5, PdrLists, SimpleIsValid
  <1> QED BY <1>7, <1>8, <1>9

-----------------------------------------------------------------------------
(* The policies at time zero.                                              *)

\* The bytes a bucket may hold, and the sizes of the packets.
Tokens == 0 .. 20000

\* The bucket of a scenario's QER that holds t bytes.
Holding(t) == [tokensBytes |-> t, lastRefillMicros |-> 0, remainderBitMicros |-> 0]

\* At time zero nothing is refilled: a packet passes when the bucket holds
\* its size, and is charged.
LEMMA ChargedAtZero ==
  ASSUME NEW q, Metered(q),
         NEW t \in Tokens, NEW bytes \in Tokens
  PROVE  /\ QerOutcome(q, Holding(t), bytes, 0) = IF bytes > t THEN "RATE_LIMITED" ELSE "ALLOW"
         /\ bytes <= t => QerNext(q, Holding(t), bytes, 0) = Holding(t - bytes)
PROOF
  <1> DEFINE b == Holding(t)
  <1>11. t \in 0 .. 20000 /\ bytes \in 0 .. 20000
    BY DEF Tokens
  <1>10. q.gate = "OPEN" /\ q.rateBitsPerSecond = 10000000 /\ q.burstBytes = 20000
    BY DEF Metered
  <1>1. b.tokensBytes = t /\ b.lastRefillMicros = 0 /\ b.remainderBitMicros = 0
    BY DEF Holding
  <1> HIDE DEF b
  <1>2. Elapsed(b, 0) = 0 /\ Numerator(q, b, 0) = 0
    BY <1>1, <1>10 DEF Elapsed, Numerator
  <1>3. ~ RefillFails(q, b, 0)
    BY <1>11, <1>1, <1>2, <1>10, UInt64MaxAssumption DEF RefillFails, MultiplyOverflows, AddOverflows
  <1>4. RefillBytes(q, b, 0) = 0 /\ 0 % BitMicrosPerByte = 0
    BY <1>2, <1>10, BitMicrosPerByteAssumption DEF RefillBytes
  <1>5. Room(q, b) \in Nat
    BY <1>11, <1>1, <1>10 DEF Room
  <1>6. AddedTokens(q, b, 0) = 0
    BY <1>11, <1>4, <1>5 DEF AddedTokens
  <1>7. Refilled(q, b, 0) = Holding(t)
    BY <1>11, <1>1, <1>2, <1>4, <1>6 DEF Refilled, Holding
  <1>8. QerOutcome(q, b, bytes, 0) = IF bytes > t THEN "RATE_LIMITED" ELSE "ALLOW"
    <2>1. Holding(t).tokensBytes = t
      BY DEF Holding
    <2> QED BY <1>11, <1>3, <1>7, <1>10, <2>1 DEF QerOutcome
  <1>9. ASSUME bytes <= t
        PROVE  QerNext(q, b, bytes, 0) = Holding(t - bytes)
    <2>1. QerOutcome(q, b, bytes, 0) = "ALLOW"
      BY <1>11, <1>8, <1>9
    <2>2. [Holding(t) EXCEPT !.tokensBytes = @ - bytes] = Holding(t - bytes)
      BY DEF Holding
    <2> QED BY <1>11, <1>7, <2>1, <2>2 DEF QerNext
  <1> QED BY <1>8, <1>9 DEF b

\* A new bucket is full.
LEMMA BurstIsHeld ==
  ASSUME NEW q, Metered(q)
  PROVE  FreshBucket(q) = Holding(20000)
PROOF
  BY DEF FreshBucket, Holding, Metered

\* The first packet of a counter is counted, and reported from the threshold.
CountedOnce(bytes) == [packets |-> 1, payloadBytes |-> bytes, reportEmitted |-> bytes >= 10000]

\* A counter at zero counts the packet and reports it from the threshold on.
LEMMA CountedFirst ==
  ASSUME NEW u, Thresholded(u), NEW bytes \in Tokens
  PROVE  /\ ~ UrrOverflows(FreshUsage, bytes)
         /\ UrrReports(u, FreshUsage, bytes) <=> bytes >= 10000
         /\ UrrNext(u, FreshUsage, bytes) = CountedOnce(bytes)
PROOF
  <1>6. bytes \in 0 .. 20000
    BY DEF Tokens
  <1>1. FreshUsage.packets = 0 /\ FreshUsage.payloadBytes = 0 /\ FreshUsage.reportEmitted = FALSE
    BY DEF FreshUsage
  <1>2. ~ UrrOverflows(FreshUsage, bytes)
    BY <1>1, <1>6, ScenarioSizesAssumption, UInt64MaxAssumption DEF UrrOverflows, AddOverflows
  <1>3. UrrReports(u, FreshUsage, bytes) <=> bytes >= 10000
    BY <1>1, <1>2, <1>6 DEF UrrReports, Thresholded
  <1>4. UrrNext(u, FreshUsage, bytes) =
          [packets |-> 0 + 1, payloadBytes |-> 0 + bytes,
           reportEmitted |-> FALSE \/ UrrReports(u, FreshUsage, bytes)]
    BY <1>1, <1>2, <1>6 DEF UrrNext
  <1>5. (FALSE \/ UrrReports(u, FreshUsage, bytes)) = (bytes >= 10000)
    BY <1>3
  <1> QED BY <1>2, <1>3, <1>4, <1>5, <1>6 DEF CountedOnce

-----------------------------------------------------------------------------
(* The runtime state of a simple ruleset.                                  *)

\* r has one bucket and one counter.
Runs(r, qid, bucket, uid, usage) ==
  /\ r \in [qers : {r.qers}, urrs : {r.urrs}, qerGenerations : {r.qerGenerations},
            urrGenerations : {r.urrGenerations}]
  /\ DOMAIN r.qers = {qid} /\ r.qers[qid] = bucket
  /\ DOMAIN r.urrs = {uid} /\ r.urrs[uid] = usage

\* A simple ruleset starts with a full bucket and an empty counter.
LEMMA StartsFresh ==
  ASSUME NEW rs, Simple(rs)
  PROVE  Runs(Migrated(NoRuntime, rs), Qer1(rs).id, Holding(20000), Urr1(rs).id, FreshUsage)
PROOF
  <1> DEFINE m == Migrated(NoRuntime, rs)
             q == Qer1(rs)
             u == Urr1(rs)
  <1>1. rs.qers = <<q>> /\ rs.urrs = <<u>> /\ Metered(q)
    BY DEF Simple
  <1>2. /\ Ids(rs.qers) = {q.id} /\ RuleOf(rs.qers, q.id) = q
        /\ Ids(rs.urrs) = {u.id} /\ RuleOf(rs.urrs, u.id) = u
    BY <1>1, OneRule
  <1>3. \A states, rule : ~ Survives(states, <<>>, rule)
    BY DEF Survives
  <1>4. /\ NoRuntime.qerGenerations = <<>> /\ NoRuntime.urrGenerations = <<>>
    BY DEF NoRuntime
  <1>5. m \in [qers : {m.qers}, urrs : {m.urrs}, qerGenerations : {m.qerGenerations},
               urrGenerations : {m.urrGenerations}]
    BY DEF Migrated
  <1>6. m.qers = [id \in {q.id} |-> FreshBucket(RuleOf(rs.qers, id))]
    BY <1>2, <1>3, <1>4 DEF Migrated
  <1>7. m.urrs = [id \in {u.id} |-> FreshUsage]
    BY <1>2, <1>3, <1>4 DEF Migrated
  <1>8. FreshBucket(q) = Holding(20000)
    BY <1>1, BurstIsHeld
  <1> HIDE DEF m, q, u
  <1>9. Runs(m, q.id, Holding(20000), u.id, FreshUsage)
    BY <1>2, <1>5, <1>6, <1>7, <1>8 DEF Runs
  <1> QED BY <1>9 DEF m, q, u

-----------------------------------------------------------------------------
(* What process does with the packets of a scenario.                       *)

\* The stages of a decision, by what is written into it.
AsReceived(p, version) ==
  [packet |-> p, version |-> version, candidates |-> <<>>, selected |-> {}, qer |-> {},
   far |-> {}, urr |-> {}, transformed |-> {}, result |-> "NO_MATCH", degraded |-> FALSE]
AsSelected(p, version, candidates, pdr, qer) ==
  [[AsReceived(p, version) EXCEPT !.candidates = candidates] EXCEPT !.selected = pdr, !.qer = qer]
AsPlanned(d, far, urr) == [d EXCEPT !.far = far, !.urr = urr]
AsForwarded(d, packet, res) == [d EXCEPT !.transformed = {packet}, !.result = res]
AsRetained(d, degraded) == [d EXCEPT !.degraded = degraded]

\* A decision up to its QER.
LEMMA SelectedAs ==
  ASSUME NEW p, NEW pdr, HasValue(rules)
  PROVE  Selected(pdr, p) =
           AsSelected(p, Active.version, Candidates(Active, p), {pdr.id}, QerDecisions(pdr, p))
PROOF
  <1>1. Received(p) = AsReceived(p, Active.version)
    BY DEF Received, AsReceived
  <1> QED BY <1>1 DEF Selected, Matched, AsSelected

\* A decision up to its transformed packet.
LEMMA ForwardedAs ==
  ASSUME NEW p, NEW pdr, FarValid(FarOf(pdr), p)
  PROVE  Forwarded(pdr, p) =
           AsForwarded(AsPlanned(Selected(pdr, p), FarDecisions(pdr, p), UrrDecisions(pdr, p)),
                       FarPacket(FarOf(pdr), p),
                       IF FarDestination(FarOf(pdr)) = "N3" THEN "FORWARDED_TO_N3"
                                                            ELSE "FORWARDED_TO_N6")
PROOF
  BY DEF Forwarded, Planned, AsForwarded, AsPlanned

\* The packet p, of that size, is for the PDR, the QER, the URR and the FAR
\* of rs.
Fits(rs, p, bytes) ==
  /\ Simple(rs) /\ Winner(rs, p) = {Pdr1(rs)}
  /\ FarForwards(Far1(rs), p) /\ FarDestination(Far1(rs)) \in Interface
  /\ p.sessionId = "session-1" /\ ValidPacket(p) /\ p.arrivalTimeMicros = 0
  /\ p.payloadBytes = bytes /\ bytes \in Tokens

\* A packet that fits the active rules meets one rule of each kind.
LEMMA MeetsRules ==
  ASSUME NEW rs, rules = {rs}, NEW p, NEW bytes, Fits(rs, p, bytes)
  PROVE  /\ Active = rs /\ HasValue(rules) /\ Acceptable(p)
         /\ QersOf(Pdr1(rs)) = {Qer1(rs)} /\ UrrsOf(Pdr1(rs)) = {Urr1(rs)}
         /\ FarOf(Pdr1(rs)) = Far1(rs) /\ FarValid(Far1(rs), p)
PROOF
  <1>1. Active = rs /\ HasValue(rules)
    BY ValueOfSingleton DEF Active, HasValue
  <1>2. Simple(rs)
    BY DEF Fits
  <1>3. /\ rs.fars = <<Far1(rs)>> /\ rs.qers = <<Qer1(rs)>> /\ rs.urrs = <<Urr1(rs)>>
        /\ Pdr1(rs).farId = Far1(rs).id /\ Pdr1(rs).qerId = {Qer1(rs).id}
        /\ Pdr1(rs).urrId = {Urr1(rs).id}
    BY <1>2 DEF Simple
  <1>4. /\ RuleOf(rs.fars, Far1(rs).id) = Far1(rs)
        /\ FindRule(rs.qers, Qer1(rs).id) = {Qer1(rs)}
        /\ FindRule(rs.urrs, Urr1(rs).id) = {Urr1(rs)}
    BY <1>3, OneRule
  <1>5. QersOf(Pdr1(rs)) = {Qer1(rs)}
    BY <1>1, <1>3, <1>4 DEF QersOf
  <1>6. UrrsOf(Pdr1(rs)) = {Urr1(rs)}
    BY <1>1, <1>3, <1>4 DEF UrrsOf
  <1>7. FarOf(Pdr1(rs)) = Far1(rs)
    BY <1>1, <1>3, <1>4 DEF FarOf
  <1>8. FarValid(Far1(rs), p)
    BY DEF Fits, FarValid
  <1>9. Acceptable(p)
    <2>1. p.sessionId = "session-1" /\ ValidPacket(p)
      BY DEF Fits
    <2>2. rs.sessionId = "session-1"
      BY <1>2 DEF Simple
    <2> QED BY <1>1, <2>1, <2>2 DEF Acceptable
  <1> QED BY <1>1, <1>5, <1>6, <1>7, <1>8, <1>9

\* The pipeline has the rules rs, its bucket holds t.
Serving(rs, t, usage) ==
  rules = {rs} /\ Runs(runtime, Qer1(rs).id, Holding(t), Urr1(rs).id, usage)

\* What the QER decides of it, when its bucket holds t.
QerMet(rs, p, bytes, t) ==
  /\ QerDecisions(Pdr1(rs), p) = {QerDecision(Qer1(rs), Holding(t), bytes, 0)}
  /\ QerFailures(Pdr1(rs), p) = IF bytes > t THEN {"RATE_LIMITED"} ELSE {}

\* The QER lets the packet through while the bucket holds its size.
LEMMA MeetsQer ==
  ASSUME NEW rs, NEW p, NEW bytes, Fits(rs, p, bytes), NEW t \in Tokens, NEW usage,
         Serving(rs, t, usage)
  PROVE  QerMet(rs, p, bytes, t)
PROOF
  <1> DEFINE q == Qer1(rs)
             d == QerDecision(q, Holding(t), bytes, 0)
  <1>1. p.payloadBytes = bytes /\ p.arrivalTimeMicros = 0 /\ bytes \in Tokens
    BY DEF Fits
  <1>2. runtime.qers[q.id] = Holding(t)
    BY DEF Serving, Runs
  <1>3. QersOf(Pdr1(rs)) = {q}
    BY MeetsRules DEF Serving
  <1>4. Metered(q)
    BY DEF Fits, Simple
  <1> HIDE DEF q
  <1>5. QerDecisions(Pdr1(rs), p) = {d}
    BY <1>1, <1>2, <1>3 DEF QerDecisions
  <1>6. d.outcome = QerOutcome(q, Holding(t), bytes, 0)
    BY DEF QerDecision
  <1> HIDE DEF d
  <1>7. {e.outcome : e \in {d}} = {d.outcome}
    OBVIOUS
  <1>8. QerOutcome(q, Holding(t), bytes, 0) = IF bytes > t THEN "RATE_LIMITED" ELSE "ALLOW"
    BY <1>1, <1>4, ChargedAtZero
  <1>9. QerFailures(Pdr1(rs), p) = {d.outcome} \ {"ALLOW"}
    BY <1>5, <1>7 DEF QerFailures
  <1>10. QerFailures(Pdr1(rs), p) = IF bytes > t THEN {"RATE_LIMITED"} ELSE {}
    BY <1>6, <1>8, <1>9
  <1> QED BY <1>5, <1>10 DEF d, q, QerMet

\* What the URR decides of it, when it is the first.
ReportOf(rs, bytes) ==
  IF bytes >= 10000 THEN {ReportId(Urr1(rs), "session-1", 3)} ELSE {}

\* What the URR decides of the first packet.
UrrMet(rs, p, bytes) ==
  /\ UrrDecisions(Pdr1(rs), p) = {UrrDecision(Urr1(rs), FreshUsage, bytes, "session-1", 3)}
  /\ NewReports(Pdr1(rs), p) = ReportOf(rs, bytes)
  /\ ~ \E u \in UrrsOf(Pdr1(rs)) : UrrOverflows(runtime.urrs[u.id], p.payloadBytes)

\* The URR counts the first packet and reports it from the threshold on.
LEMMA MeetsUrr ==
  ASSUME NEW rs, NEW p, NEW bytes, Fits(rs, p, bytes), NEW t, Serving(rs, t, FreshUsage)
  PROVE  UrrMet(rs, p, bytes)
PROOF
  <1> DEFINE u == Urr1(rs)
             d == UrrDecision(u, FreshUsage, bytes, "session-1", 3)
  <1>1. p.payloadBytes = bytes /\ bytes \in Tokens
    BY DEF Fits
  <1>2. runtime.urrs[u.id] = FreshUsage
    BY DEF Serving, Runs
  <1>3. UrrsOf(Pdr1(rs)) = {u} /\ Active = rs
    BY MeetsRules DEF Serving
  <1>4. Thresholded(u) /\ rs.sessionId = "session-1" /\ rs.version = 3
    BY DEF Fits, Simple
  <1> HIDE DEF u
  <1>5. UrrDecisions(Pdr1(rs), p) = {d}
    BY <1>1, <1>2, <1>3, <1>4 DEF UrrDecisions
  <1>6. d.reportId = IF UrrReports(u, FreshUsage, bytes) THEN {ReportId(u, "session-1", 3)} ELSE {}
    BY DEF UrrDecision
  <1> HIDE DEF d
  <1>7. d.reportId = IF bytes >= 10000 THEN {ReportId(u, "session-1", 3)} ELSE {}
    BY <1>1, <1>4, <1>6, CountedFirst
  <1>8. NewReports(Pdr1(rs), p) = d.reportId
    BY <1>5 DEF NewReports
  <1>9. ~ \E v \in UrrsOf(Pdr1(rs)) : UrrOverflows(runtime.urrs[v.id], p.payloadBytes)
    BY <1>1, <1>2, <1>3, <1>4, CountedFirst
  <1>10. NewReports(Pdr1(rs), p) = ReportOf(rs, bytes)
    BY <1>7, <1>8 DEF ReportOf, u
  <1> QED BY <1>5, <1>9, <1>10 DEF d, u, UrrMet

\* The limits of a scenario's pipeline: only the events may have no space.
Roomy(l) ==
  l.results = 2048 /\ l.reports = 1024 /\ l.sinkPackets = 2048 /\ l.events \in {0, 8192}

\* The sinks of a new pipeline.
NothingSent == [i \in Interface |-> <<>>]

\* Nothing was processed yet by a pipeline with the rules rs.
LoadedWith(rs) ==
  /\ Serving(rs, 20000, FreshUsage) /\ Roomy(limits)
  /\ decisions = <<>> /\ reports = <<>> /\ events = <<>> /\ droppedEvents = 0
  /\ sinks = NothingSent

\* The result of a forwarding.
ResultOf(rs) == IF FarDestination(Far1(rs)) = "N3" THEN "FORWARDED_TO_N3" ELSE "FORWARDED_TO_N6"

\* The decision of packet p when the bucket holds t, up to its QER.
PolicedAs(rs, p, bytes, t) ==
  AsSelected(p, 3, Candidates(rs, p), {Pdr1(rs).id}, {QerDecision(Qer1(rs), Holding(t), bytes, 0)})

\* Its FAR decision.
FarDone(rs, p) ==
  {[farId |-> f.id, action |-> f.action, before |-> p.tunnel,
    after |-> FarPacket(f, p).tunnel, destination |-> FarDestination(f)] : f \in {Far1(rs)}}

\* The decision of the first packet.
FirstDecision(rs, p, bytes, degraded) ==
  AsRetained(
    AsForwarded(
      AsPlanned(PolicedAs(rs, p, bytes, 20000), FarDone(rs, p),
                {UrrDecision(Urr1(rs), FreshUsage, bytes, "session-1", 3)}),
      FarPacket(Far1(rs), p), ResultOf(rs)),
    degraded)

\* It passes the QER, and there is space for whatever it needs.
LEMMA FirstPlanned ==
  ASSUME NEW rs, LoadedWith(rs), NEW p, NEW bytes, Fits(rs, p, bytes)
  PROVE  /\ HasResultSpace /\ Active = rs /\ FarOf(Pdr1(rs)) = Far1(rs)
         /\ Winner(Active, p) = {Pdr1(rs)}
         /\ QerFailures(Pdr1(rs), p) = {} /\ PlanFailures(Pdr1(rs), p) = {}
PROOF
  <1> DEFINE pdr == Pdr1(rs)
  <1>1. /\ decisions = <<>> /\ reports = <<>> /\ sinks = NothingSent
    BY DEF LoadedWith
  <1>0. Serving(rs, 20000, FreshUsage) /\ rules = {rs}
    BY DEF LoadedWith, Serving
  <1>2. limits.results = 2048 /\ limits.reports = 1024 /\ limits.sinkPackets = 2048
    BY DEF LoadedWith, Roomy
  <1>3. HasResultSpace
    BY <1>1, <1>2 DEF HasResultSpace
  <1>4. Active = rs /\ FarOf(pdr) = Far1(rs) /\ FarValid(Far1(rs), p)
    BY <1>0, MeetsRules
  <1>5. Winner(Active, p) = {pdr} /\ FarDestination(Far1(rs)) \in Interface /\ bytes \in Tokens
    BY <1>4 DEF Fits
  <1>6. QerFailures(pdr, p) = {}
    <2>1. 20000 \in Tokens /\ ~ bytes > 20000
      BY <1>5 DEF Tokens
    <2>2. QerMet(rs, p, bytes, 20000)
      BY <1>0, <2>1, MeetsQer
    <2> QED BY <2>1, <2>2 DEF QerMet
  <1>7. ~ \E u \in UrrsOf(pdr) : UrrOverflows(runtime.urrs[u.id], p.payloadBytes)
    <2>1. UrrMet(rs, p, bytes)
      BY <1>0, MeetsUrr
    <2> QED BY <2>1 DEF UrrMet
  <1>8. ~ Len(reports) >= limits.reports
    BY <1>1, <1>2
  <1>9. ~ Len(sinks[FarDestination(FarOf(pdr))]) >= limits.sinkPackets
    <2>1. sinks[FarDestination(FarOf(pdr))] = <<>>
      BY <1>1, <1>4, <1>5 DEF NothingSent
    <2> QED BY <1>2, <2>1
  <1>10. PlanFailures(pdr, p) = {}
    BY <1>4, <1>7, <1>8, <1>9 DEF PlanFailures
  <1> QED BY <1>3, <1>4, <1>5, <1>6, <1>10

\* So it is committed.
LEMMA FirstCommits ==
  ASSUME NEW rs, LoadedWith(rs), NEW p, NEW bytes, Fits(rs, p, bytes), Process(p)
  PROVE  Commit(Pdr1(rs), p)
PROOF
  <1>1. /\ HasResultSpace /\ Active = rs /\ Winner(Active, p) = {Pdr1(rs)}
        /\ QerFailures(Pdr1(rs), p) = {} /\ PlanFailures(Pdr1(rs), p) = {}
    BY FirstPlanned
  <1>2. Acceptable(p)
    BY MeetsRules DEF LoadedWith, Serving
  <1>3. ~ RejectFull(p)
    BY <1>1 DEF RejectFull
  <1>4. ~ RejectUnacceptable(p)
    BY <1>2 DEF RejectUnacceptable
  <1>5. ~ RejectUnmatched(p)
    BY <1>1 DEF RejectUnmatched
  <1>6. ~ RejectByQer(p)
    BY <1>1 DEF RejectByQer
  <1>7. ~ RejectByPlan(p)
    BY <1>1 DEF RejectByPlan
  <1>8. Accept(p)
    BY <1>3, <1>4, <1>5, <1>6, <1>7 DEF Process
  <1> QED BY <1>1, <1>8 DEF Accept

\* What is retained of it.
LEMMA FirstRetained ==
  ASSUME NEW rs, LoadedWith(rs), NEW p, NEW bytes, Fits(rs, p, bytes), Retain(Forwarded(Pdr1(rs), p))
  PROVE  /\ decisions' = <<FirstDecision(rs, p, bytes, limits.events = 0)>>
         /\ Len(events') < 8192 /\ droppedEvents' = IF limits.events = 0 THEN 1 ELSE 0
PROOF
  <1> DEFINE pdr == Pdr1(rs)
             d == Forwarded(pdr, p)
  <1>1. /\ decisions = <<>> /\ events = <<>> /\ droppedEvents = 0 /\ limits.events \in {0, 8192}
    BY DEF LoadedWith, Roomy
  <1>0. Serving(rs, 20000, FreshUsage) /\ rules = {rs}
    BY DEF LoadedWith, Serving
  <1>2. Active = rs /\ HasValue(rules) /\ FarOf(pdr) = Far1(rs) /\ FarValid(Far1(rs), p)
    BY <1>0, MeetsRules
  <1>3. rs.version = 3
    BY DEF Fits, Simple
  <1>4. QerDecisions(pdr, p) = {QerDecision(Qer1(rs), Holding(20000), bytes, 0)}
    <2>1. 20000 \in Tokens
      BY DEF Tokens
    <2>2. QerMet(rs, p, bytes, 20000)
      BY <1>0, <2>1, MeetsQer
    <2> QED BY <2>1, <2>2 DEF QerMet
  <1>5. UrrDecisions(pdr, p) = {UrrDecision(Urr1(rs), FreshUsage, bytes, "session-1", 3)}
    <2>1. UrrMet(rs, p, bytes)
      BY <1>0, MeetsUrr
    <2> QED BY <2>1 DEF UrrMet
  <1>6. FarDecisions(pdr, p) = FarDone(rs, p)
    BY <1>2 DEF FarDecisions, FarDone
  <1>7. Selected(pdr, p) = PolicedAs(rs, p, bytes, 20000)
    BY <1>2, <1>3, <1>4, SelectedAs DEF PolicedAs
  <1>8. d = AsForwarded(AsPlanned(PolicedAs(rs, p, bytes, 20000), FarDone(rs, p),
                                  {UrrDecision(Urr1(rs), FreshUsage, bytes, "session-1", 3)}),
                        FarPacket(Far1(rs), p), ResultOf(rs))
    BY <1>2, <1>5, <1>6, <1>7, ForwardedAs DEF ResultOf
  <1> HIDE DEF d
  <1>9. Retain(d)
    BY DEF d
  <1>10. Len(events) < limits.events <=> limits.events # 0
    BY <1>1
  <1>11. decisions' = Append(decisions, AsRetained(d, limits.events = 0))
    BY <1>9, <1>10 DEF Retain, AsRetained
  <1>12. AsRetained(d, limits.events = 0) = FirstDecision(rs, p, bytes, limits.events = 0)
    BY <1>8 DEF FirstDecision
  <1>13. droppedEvents' = IF limits.events = 0 THEN 1 ELSE 0
    BY <1>1, <1>9, <1>10, UInt64MaxAssumption DEF Retain
  <1>14. Len(events') < 8192
    BY <1>1, <1>9 DEF Retain
  <1>15. decisions' = <<FirstDecision(rs, p, bytes, limits.events = 0)>>
    BY <1>1, <1>11, <1>12
  <1> QED BY <1>13, <1>14, <1>15

\* The reports and the sinks after the first packet.
ReportsOf(rs, bytes) == IF bytes >= 10000 THEN <<ReportId(Urr1(rs), "session-1", 3)>> ELSE <<>>

SentOf(rs, p) == [NothingSent EXCEPT ![FarDestination(Far1(rs))] = <<FarPacket(Far1(rs), p)>>]

\* What the first packet leaves behind.
FirstDone(rs, p, bytes) ==
  /\ decisions' = <<FirstDecision(rs, p, bytes, limits.events = 0)>>
  /\ Len(events') < 8192 /\ droppedEvents' = IF limits.events = 0 THEN 1 ELSE 0
  /\ reports' = ReportsOf(rs, bytes) /\ sinks' = SentOf(rs, p)
  /\ Runs(runtime', Qer1(rs).id, Holding(20000 - bytes), Urr1(rs).id, CountedOnce(bytes))

\* The bucket and the counter that commit writes.
Charges(pdr, p) ==
  runtime' = [runtime EXCEPT !.qers = ChargedQers(pdr, p), !.urrs = CountedUrrs(pdr, p)]

\* It is charged to the bucket and counted on the counter.
LEMMA FirstRuntime ==
  ASSUME NEW rs, LoadedWith(rs), NEW p, NEW bytes, Fits(rs, p, bytes), Charges(Pdr1(rs), p)
  PROVE  Runs(runtime', Qer1(rs).id, Holding(20000 - bytes), Urr1(rs).id, CountedOnce(bytes))
PROOF
  <1> DEFINE pdr == Pdr1(rs)
             q == Qer1(rs)
             u == Urr1(rs)
  <1>1. Serving(rs, 20000, FreshUsage) /\ rules = {rs}
    BY DEF LoadedWith, Serving
  <1>2. Runs(runtime, q.id, Holding(20000), u.id, FreshUsage)
    BY <1>1 DEF Serving
  <1>3. Active = rs /\ QersOf(pdr) = {q} /\ UrrsOf(pdr) = {u}
    BY <1>1, MeetsRules
  <1>4. rs.qers = <<q>> /\ rs.urrs = <<u>> /\ Metered(q) /\ Thresholded(u)
    BY DEF Fits, Simple
  <1>5. RuleOf(rs.qers, q.id) = q /\ RuleOf(rs.urrs, u.id) = u
    BY <1>4, OneRule
  <1>6. p.payloadBytes = bytes /\ p.arrivalTimeMicros = 0
    BY DEF Fits
  <1>7. QerNext(q, Holding(20000), bytes, 0) = Holding(20000 - bytes)
    <2>1. bytes \in Tokens
      BY DEF Fits
    <2>2. 20000 \in Tokens /\ bytes <= 20000
      BY <2>1 DEF Tokens
    <2> QED BY <1>4, <2>1, <2>2, ChargedAtZero
  <1>8. UrrNext(u, FreshUsage, bytes) = CountedOnce(bytes)
    <2>1. bytes \in Tokens
      BY DEF Fits
    <2> QED BY <1>4, <2>1, CountedFirst
  <1> HIDE DEF pdr, q, u
  <1>9. ChargedQers(pdr, p) = [id \in {q.id} |-> Holding(20000 - bytes)]
    <2>1. DOMAIN runtime.qers = {q.id} /\ runtime.qers[q.id] = Holding(20000)
      BY <1>2 DEF Runs
    <2> QED BY <1>3, <1>5, <1>6, <1>7, <2>1 DEF ChargedQers
  <1>10. CountedUrrs(pdr, p) = [id \in {u.id} |-> CountedOnce(bytes)]
    <2>1. DOMAIN runtime.urrs = {u.id} /\ runtime.urrs[u.id] = FreshUsage
      BY <1>2 DEF Runs
    <2> QED BY <1>3, <1>5, <1>6, <1>8, <2>1 DEF CountedUrrs
  <1>11. runtime' = [runtime EXCEPT !.qers = ChargedQers(pdr, p), !.urrs = CountedUrrs(pdr, p)]
    BY DEF pdr, Charges
  <1>12. runtime \in [qers : {runtime.qers}, urrs : {runtime.urrs},
                      qerGenerations : {runtime.qerGenerations}, urrGenerations : {runtime.urrGenerations}]
    BY <1>2 DEF Runs
  <1>13. /\ runtime'.qers = ChargedQers(pdr, p) /\ runtime'.urrs = CountedUrrs(pdr, p)
         /\ runtime' \in [qers : {runtime'.qers}, urrs : {runtime'.urrs},
                          qerGenerations : {runtime'.qerGenerations}, urrGenerations : {runtime'.urrGenerations}]
    BY <1>11, <1>12
  <1>14. Runs(runtime', q.id, Holding(20000 - bytes), u.id, CountedOnce(bytes))
    BY <1>9, <1>10, <1>13 DEF Runs
  <1> QED BY <1>14 DEF q, u

\* The first packet is charged, counted, reported, sent and retained.
LEMMA FirstServed ==
  ASSUME NEW rs, LoadedWith(rs), NEW p, NEW bytes, Fits(rs, p, bytes), Process(p)
  PROVE  FirstDone(rs, p, bytes)
PROOF
  <1> DEFINE pdr == Pdr1(rs)
             to  == FarDestination(Far1(rs))
  <1>1. Commit(pdr, p)
    BY FirstCommits
  <1>2. FarOf(pdr) = Far1(rs)
    BY FirstPlanned
  <1>3. Far1(rs).action = "FORWARD" /\ to \in Interface
    BY DEF Fits, FarForwards
  <1>4. /\ Charges(pdr, p)
        /\ reports' = IF NewReports(pdr, p) = {} THEN reports
                      ELSE Append(reports, Value(NewReports(pdr, p)))
        /\ sinks' = [sinks EXCEPT ![to] = Append(@, FarPacket(Far1(rs), p))]
        /\ Retain(Forwarded(pdr, p))
    BY <1>1, <1>2, <1>3 DEF Commit, Charges
  <1>5. Runs(runtime', Qer1(rs).id, Holding(20000 - bytes), Urr1(rs).id, CountedOnce(bytes))
    BY <1>4, FirstRuntime
  <1>6. reports' = ReportsOf(rs, bytes)
    <2>1. UrrMet(rs, p, bytes)
      BY MeetsUrr DEF LoadedWith
    <2>2. NewReports(pdr, p) = ReportOf(rs, bytes) /\ reports = <<>>
      BY <2>1 DEF UrrMet, LoadedWith
    <2> DEFINE id == ReportId(Urr1(rs), "session-1", 3)
    <2>3. Value({id}) = id
      BY ValueOfSingleton
    <2> HIDE DEF id
    <2>4. NewReports(pdr, p) = IF bytes >= 10000 THEN {id} ELSE {}
      BY <2>2 DEF ReportOf, id
    <2>5. reports' = IF bytes >= 10000 THEN <<id>> ELSE <<>>
      <3>1. CASE bytes >= 10000
        BY <1>4, <2>2, <2>3, <2>4, <3>1
      <3>2. CASE ~ bytes >= 10000
        BY <1>4, <2>2, <2>4, <3>2
      <3> QED BY <3>1, <3>2
    <2> QED BY <2>5 DEF ReportsOf, id
  <1>7. sinks' = SentOf(rs, p)
    <2>1. sinks = NothingSent /\ NothingSent[to] = <<>>
      BY <1>3 DEF LoadedWith, NothingSent
    <2>2. Append(<<>>, FarPacket(Far1(rs), p)) = <<FarPacket(Far1(rs), p)>>
      OBVIOUS
    <2>3. sinks' = [NothingSent EXCEPT ![to] = Append(NothingSent[to], FarPacket(Far1(rs), p))]
      BY <1>4, <2>1
    <2> QED BY <2>1, <2>2, <2>3 DEF SentOf
  <1>8. /\ decisions' = <<FirstDecision(rs, p, bytes, limits.events = 0)>>
        /\ Len(events') < 8192 /\ droppedEvents' = IF limits.events = 0 THEN 1 ELSE 0
    BY <1>4, FirstRetained
  <1> QED BY <1>5, <1>6, <1>7, <1>8 DEF FirstDone

-----------------------------------------------------------------------------
(* The second packet of "qer-rate-limit" finds too little in the bucket.   *)

\* The decision of a packet that finds t bytes in the bucket, too few.
LimitedDecision(rs, p, bytes, t) ==
  AsRetained(With(PolicedAs(rs, p, bytes, t), "RATE_LIMITED"), FALSE)

\* What a rate-limited packet leaves behind.
LimitedDone(rs, p, bytes, t) ==
  /\ decisions' = Append(decisions, LimitedDecision(rs, p, bytes, t))
  /\ UNCHANGED <<sinks, reports, droppedEvents, runtime.urrs>>

\* A packet larger than what the bucket holds is limited, and changes neither
\* sinks, reports nor counters.
LEMMA SecondLimited ==
  ASSUME NEW rs, NEW p, NEW bytes, Fits(rs, p, bytes), NEW t \in Tokens, t < bytes, NEW usage,
         Serving(rs, t, usage), HasResultSpace, Len(events) < limits.events, Process(p)
  PROVE  LimitedDone(rs, p, bytes, t)
PROOF
  <1> DEFINE pdr == Pdr1(rs)
  <1>1. rules = {rs} /\ Runs(runtime, Qer1(rs).id, Holding(t), Urr1(rs).id, usage)
    BY DEF Serving
  <1>2. Active = rs /\ HasValue(rules) /\ Acceptable(p)
    BY <1>1, MeetsRules
  <1>3. Winner(Active, p) = {pdr} /\ bytes \in Tokens /\ rs.version = 3
    BY <1>2 DEF Fits, Simple
  <1>4. QerMet(rs, p, bytes, t)
    BY MeetsQer
  <1>5. bytes > t
    BY <1>3 DEF Tokens
  <1>6. QerFailures(pdr, p) = {"RATE_LIMITED"}
    BY <1>4, <1>5 DEF QerMet
  <1>7. Selected(pdr, p) = PolicedAs(rs, p, bytes, t)
    BY <1>2, <1>3, <1>4, SelectedAs DEF PolicedAs, QerMet
  <1>8. RejectByQer(p)
    <2>1. ~ RejectFull(p)
      BY DEF RejectFull
    <2>2. ~ RejectUnacceptable(p)
      BY <1>2 DEF RejectUnacceptable
    <2>3. ~ RejectUnmatched(p)
      BY <1>3 DEF RejectUnmatched
    <2>4. ~ RejectByPlan(p)
      BY <1>3, <1>6 DEF RejectByPlan
    <2>5. ~ Accept(p)
      BY <1>3, <1>6 DEF Accept
    <2> QED BY <2>1, <2>2, <2>3, <2>4, <2>5 DEF Process
  <1>9. /\ Retain(With(Selected(pdr, p), "RATE_LIMITED"))
        /\ runtime' = [runtime EXCEPT !.qers = ChargedQers(pdr, p)]
        /\ UNCHANGED <<sinks, reports>>
    BY <1>3, <1>6, <1>8 DEF RejectByQer
  <1>10. runtime'.urrs = runtime.urrs
    <2>1. runtime \in [qers : {runtime.qers}, urrs : {runtime.urrs},
                       qerGenerations : {runtime.qerGenerations}, urrGenerations : {runtime.urrGenerations}]
      BY <1>1 DEF Runs
    <2> QED BY <1>9, <2>1
  <1>11. decisions' = Append(decisions, LimitedDecision(rs, p, bytes, t)) /\ droppedEvents' = droppedEvents
    BY <1>7, <1>9 DEF Retain, AsRetained, LimitedDecision
  <1> QED BY <1>9, <1>10, <1>11 DEF LimitedDone

-----------------------------------------------------------------------------
(* Every scenario that a pipeline decides, and its first packet.           *)

\* Whatever the scenario, its first packet fits its rules.
LEMMA FirstFits ==
  ASSUME NEW name
  PROVE  Fits(RulesOf(name), FirstPacket(name), BytesOf(name))
PROOF
  <1> DEFINE p == FirstPacket(name)
             bytes == BytesOf(name)
  <1>1. bytes \in Tokens
    BY DEF BytesOf, Tokens
  <1>2. CASE name = "downlink-forward"
    <2>1. RulesOf(name) = DownlinkRules
      BY <1>2 DEF RulesOf
    <2>2. Travels(p, "N6", {}, bytes)
      BY <1>2, FirstTravels
    <2>3. Winner(DownlinkRules, p) = {DownlinkPdr} /\ FarForwards(ToN3, p) /\ FarDestination(ToN3) = "N3"
      BY <2>2, FirstWins, FarsForward
    <2>4. Pdr1(DownlinkRules) = DownlinkPdr /\ Far1(DownlinkRules) = ToN3
      BY PdrLists DEF Pdr1
    <2>5. Simple(DownlinkRules)
      BY RulesAreSimple
    <2>6. p.sessionId = "session-1" /\ ValidPacket(p) /\ p.arrivalTimeMicros = 0 /\ p.payloadBytes = bytes
      BY <2>2 DEF Travels
    <2> HIDE DEF p, bytes
    <2>7. Fits(DownlinkRules, p, bytes)
      BY <1>1, <2>3, <2>4, <2>5, <2>6 DEF Fits, Interface
    <2> QED BY <2>1, <2>7 DEF p, bytes
  <1>3. CASE name # "downlink-forward"
    <2>1. RulesOf(name) \in {UplinkRules, PrecedenceRules}
      BY <1>3 DEF RulesOf
    <2> DEFINE rs == RulesOf(name)
    <2>2. Travels(p, "N3", {UeTunnel}, bytes)
      BY <1>3, FirstTravels
    <2>3. Winner(rs, p) = {UplinkPdr} /\ FarForwards(ToN6, p) /\ FarDestination(ToN6) = "N6"
      BY <2>1, <2>2, FirstWins, FarsForward
    <2>4. Pdr1(rs) = UplinkPdr /\ Far1(rs) = ToN6
      <3>1. Pdr1(UplinkRules) = UplinkPdr /\ Pdr1(PrecedenceRules) = UplinkPdr
        BY PdrLists DEF Pdr1
      <3> QED BY <2>1, <3>1, PdrLists
    <2>5. Simple(rs)
      BY <2>1, RulesAreSimple
    <2>6. p.sessionId = "session-1" /\ ValidPacket(p) /\ p.arrivalTimeMicros = 0 /\ p.payloadBytes = bytes
      BY <2>2 DEF Travels
    <2> HIDE DEF p, bytes, rs
    <2>7. Fits(rs, p, bytes)
      BY <1>1, <2>3, <2>4, <2>5, <2>6 DEF Fits, Interface
    <2> QED BY <2>7 DEF p, bytes, rs
  <1> QED BY <1>2, <1>3

\* The second packet of "qer-rate-limit" fits its rules.
LEMMA SecondFits == Fits(UplinkRules, SecondPacket, 2000)
PROOF
  <1> DEFINE p == SecondPacket
  <1>1. 2000 \in Tokens
    BY DEF Tokens
  <1>2. Travels(p, "N3", {UeTunnel}, 2000)
    BY UplinkTravels, AllNamed DEF SecondPacket
  <1>3. Winner(UplinkRules, p) = {UplinkPdr} /\ FarForwards(ToN6, p) /\ FarDestination(ToN6) = "N6"
    BY <1>2, FirstWins, FarsForward
  <1>4. Pdr1(UplinkRules) = UplinkPdr /\ Far1(UplinkRules) = ToN6
    BY PdrLists DEF Pdr1
  <1>5. Simple(UplinkRules)
    BY RulesAreSimple
  <1>6. p.sessionId = "session-1" /\ ValidPacket(p) /\ p.arrivalTimeMicros = 0 /\ p.payloadBytes = 2000
    BY <1>2 DEF Travels
  <1> HIDE DEF p
  <1>7. Fits(UplinkRules, p, 2000)
    BY <1>1, <1>3, <1>4, <1>5, <1>6 DEF Fits, Interface
  <1> QED BY <1>7 DEF p

\* And its rules are valid.
LEMMA RulesOfValid ==
  ASSUME NEW name
  PROVE  ValidateRuleSet(RulesOf(name)) /\ Simple(RulesOf(name))
PROOF
  BY RulesAreValid, RulesAreSimple DEF RulesOf

-----------------------------------------------------------------------------
(* The rule service, the adapter and the reconciliation of a scenario.     *)

\* The rule service validates as the pipeline does.
LEMMA SameHelpers ==
  /\ \A l, i : Control!FindRule(l, i) = FindRule(l, i)
  /\ \A l : Control!UniqueIds(l) <=> UniqueIds(l)
  /\ \A rs : Control!RuleLists(rs) = RuleLists(rs)
  /\ \A o : Control!HasValue(o) <=> HasValue(o)
  /\ \A r : Control!PortRangeValid(r) <=> PortRangeValid(r)
  /\ \A pdr, far : Control!FarFits(pdr, far) <=> FarFits(pdr, far)
PROOF
  <1>1. \A l, i : Control!FindRule(l, i) = FindRule(l, i)
    BY DEF FindRule, Control!FindRule
  <1>2. \A l : Control!UniqueIds(l) <=> UniqueIds(l)
    BY DEF UniqueIds, Control!UniqueIds
  <1>3. \A rs : Control!RuleLists(rs) = RuleLists(rs)
    BY DEF RuleLists, Control!RuleLists
  <1>4. \A o : Control!HasValue(o) <=> HasValue(o)
    BY DEF HasValue, Control!HasValue
  <1>5. \A r : Control!PortRangeValid(r) <=> PortRangeValid(r)
    BY DEF PortRangeValid, Control!PortRangeValid
  <1>6. \A t : Control!TunnelValid(t) <=> TunnelValid(t)
    BY DEF TunnelValid, Control!TunnelValid, MaxQfi, Control!MaxQfi
  <1>7. \A pdr, far : Control!FarFits(pdr, far) <=> FarFits(pdr, far)
    BY <1>6, Zenon DEF FarFits, Control!FarFits
  <1> QED BY <1>1, <1>2, <1>3, <1>4, <1>5, <1>7

\* Nor do the two differ in what overlaps.
LEMMA SameOverlap ==
  \A a, b : Control!MatchSpacesOverlap(a, b) <=> MatchSpacesOverlap(a, b)
PROOF
  <1>1. \A a, b : Control!OptionalValuesOverlap(a, b) <=> OptionalValuesOverlap(a, b)
    BY DEF OptionalValuesOverlap, Control!OptionalValuesOverlap
  <1>2. \A a, b : Control!RangesOverlap(a, b) <=> RangesOverlap(a, b)
    BY DEF RangesOverlap, Control!RangesOverlap
  <1>3. \A a, b : Control!PrefixContains(a, b) <=> PrefixContains(a, b)
    BY DEF PrefixContains, Control!PrefixContains
  <1> QED BY <1>1, <1>2, <1>3, Zenon DEF MatchSpacesOverlap, Control!MatchSpacesOverlap

\* A ruleset the pipeline installs is one the rule service accepts.
LEMMA SameValidation ==
  ASSUME NEW rs, ValidateRuleSet(rs)
  PROVE  Control!ValidateRuleSet(rs)
PROOF
  <1>1. \A pdr : Control!PdrValid(rs, pdr) <=> PdrValid(rs, pdr)
    BY SameHelpers, Zenon DEF PdrValid, Control!PdrValid
  <1> QED BY <1>1, SameHelpers, SameOverlap, Zenon DEF ValidateRuleSet, Control!ValidateRuleSet

\* The stages of the control plane of "adapter-failure" and "recovery".
Attempting(n)  == [running |-> TRUE, snapshot |-> {UplinkRules}, attempt |-> n]
Tried(done, n) == [converged |-> done, attempts |-> n, delayed |-> FALSE]
Untouched      == applied = {} /\ appliedVersion = 0
Intends        == intended = {UplinkRules} /\ latestUpdateId = "update-3"

\* No update was made, one was made, and the two attempts.
Unused    == active = {} /\ Untouched /\ outcomes = Script /\ ~ loop.running
Updated   == Intends /\ Untouched /\ outcomes = Script /\ ~ loop.running
TryFirst  == Intends /\ Untouched /\ outcomes = Script /\ loop = Attempting(1)
             /\ status = Control!NewStatus
TrySecond == Intends /\ Untouched /\ outcomes = <<"SUCCESS">> /\ loop = Attempting(2)
             /\ status = Tried(FALSE, 1)
Converged == applied = {<<"update-3", 3>>} /\ appliedVersion = 3 /\ ~ loop.running
             /\ status = Tried(TRUE, 2)

\* The first update is accepted.
LEMMA UpdateAccepted ==
  ASSUME active = {}
  PROVE  Control!UpdateAllowed("update-3", UplinkRules)
PROOF
  <1>1. Control!ValidateRuleSet(UplinkRules)
    BY RulesAreValid, SameValidation
  <1>2. "update-3" # ""
    BY Zenon
  <1>3. \A rs \in active : UplinkRules.version > rs.version
    OBVIOUS
  <1> QED BY <1>1, <1>2, <1>3, Zenon DEF Control!UpdateAllowed

\* The update makes the ruleset the intended one, and leaves the adapter alone.
LEMMA UpdateStep ==
  ASSUME Unused,
         \/ Control!DoUpdate("update-3", UplinkRules)
         \/ Control!DoRefuseUpdate("update-3", UplinkRules)
  PROVE  Updated'
PROOF
  <1>1. Control!UpdateAllowed("update-3", UplinkRules)
    BY UpdateAccepted DEF Unused
  <1>2. Control!DoUpdate("update-3", UplinkRules)
    BY <1>1 DEF Control!DoRefuseUpdate, Control!RefuseUpdate
  <1>3. intended' = {UplinkRules} /\ latestUpdateId' = "update-3" /\ appliedVersion' = appliedVersion
    BY <1>2 DEF Control!DoUpdate, Control!Update
  <1>4. outcomes' = outcomes /\ applied' = applied /\ loop' = loop /\ status' = status
    BY <1>2 DEF Control!DoUpdate, Control!Operate, Control!adapterVars
  <1> QED BY <1>3, <1>4 DEF Unused, Updated, Intends, Untouched

\* reconcile begins its first attempt.
LEMMA ReconcileStep ==
  ASSUME Updated, Control!ReconcileNothing \/ Control!ReconcileStart
  PROVE  TryFirst'
PROOF
  <1>1. intended = {UplinkRules}
    BY DEF Updated, Intends
  <1>2. Control!ReconcileStart
    BY <1>1 DEF Control!ReconcileNothing
  <1>3. status' = Control!NewStatus /\ loop' = Attempting(1)
    BY <1>1, <1>2 DEF Control!ReconcileStart, Attempting
  <1>4. UNCHANGED <<intended, latestUpdateId, appliedVersion, outcomes, applied>>
    BY <1>2 DEF Control!ReconcileStart, Control!adapterVars, Control!serviceVars
  <1> QED BY <1>3, <1>4 DEF Updated, TryFirst, Intends, Untouched

\* What an attempt asks the adapter for.
LEMMA Asked ==
  ASSUME NEW n, loop = Attempting(n)
  PROVE  Control!Version = 3 /\ loop.running /\ loop.attempt = n
PROOF
  <1>1. loop.snapshot = {UplinkRules} /\ loop.running /\ loop.attempt = n
    BY DEF Attempting
  <1>2. Control!Value({UplinkRules}) = UplinkRules
    BY DEF Control!Value
  <1>3. UplinkRules.version = 3
    BY RulesMade DEF UplinkRules
  <1> QED BY <1>1, <1>2, <1>3 DEF Control!Version

\* The first attempt fails, and a second is to be made.
LEMMA FirstAttempt ==
  ASSUME TryFirst, Control!Attempt \/ Control!GiveUp
  PROVE  TrySecond'
PROOF
  <1>1. Control!Version = 3 /\ loop.running /\ loop.attempt = 1
    BY Asked DEF TryFirst
  <1>2. Control!Attempt
    BY <1>1 DEF Control!GiveUp
  <1>3. /\ outcomes = Script /\ applied = {} /\ latestUpdateId = "update-3"
        /\ status.attempts = 0 /\ loop = Attempting(1)
    BY DEF TryFirst, Untouched, Intends, Control!NewStatus
  <1>4. Script # <<>> /\ Head(Script) = "TRANSIENT_FAILURE" /\ Tail(Script) = <<"SUCCESS">>
    BY DEF Script
  <1>5. Control!Scripted("update-3", 3)
    BY <1>3, <1>4 DEF Control!Scripted
  <1>6. Control!Outcome("update-3", 3) = "TRANSIENT_FAILURE"
    BY <1>3, <1>4, <1>5 DEF Control!Outcome
  <1>7. outcomes' = <<"SUCCESS">> /\ applied' = {}
    BY <1>1, <1>2, <1>3, <1>4, <1>5, <1>6 DEF Control!Attempt, Control!Apply
  <1>8. status' = Tried(FALSE, 1)
    <2>1. (0 + 1) % (100 + 1) = 1
      OBVIOUS
    <2>2. status' = [converged |-> "TRANSIENT_FAILURE" = "SUCCESS", attempts |-> 1,
                     delayed |-> "TRANSIENT_FAILURE" = "DELAYED_SUCCESS"]
      BY <1>1, <1>2, <1>3, <1>6, <2>1 DEF Control!Attempt
    <2>3. ("TRANSIENT_FAILURE" = "SUCCESS") = FALSE /\ ("TRANSIENT_FAILURE" = "DELAYED_SUCCESS") = FALSE
      OBVIOUS
    <2> QED BY <2>2, <2>3 DEF Tried
  <1>9. UNCHANGED <<intended, latestUpdateId, appliedVersion>>
    BY <1>1, <1>2, <1>3, <1>6 DEF Control!Attempt, Control!serviceVars
  <1>10. loop' = Attempting(2)
    <2>1. (1 + 1) % (100 + 1) = 2
      OBVIOUS
    <2>2. loop' = [loop EXCEPT !.attempt = 2]
      BY <1>1, <1>2, <1>3, <1>6, <2>1 DEF Control!Attempt
    <2> QED BY <1>3, <2>2 DEF Attempting
  <1> QED BY <1>7, <1>8, <1>9, <1>10 DEF TryFirst, TrySecond, Intends, Untouched

\* The second attempt applies the update and ends the loop.
LEMMA SecondAttempt ==
  ASSUME TrySecond, Control!Attempt \/ Control!GiveUp
  PROVE  Converged'
PROOF
  <1>1. Control!Version = 3 /\ loop.running /\ loop.attempt = 2
    BY Asked DEF TrySecond
  <1>2. Control!Attempt
    BY <1>1 DEF Control!GiveUp
  <1>3. /\ outcomes = <<"SUCCESS">> /\ applied = {} /\ latestUpdateId = "update-3"
        /\ status.attempts = 1 /\ intended = {UplinkRules}
    BY DEF TrySecond, Untouched, Intends, Tried
  <1>4. Control!Outcome("update-3", 3) = "SUCCESS"
    BY <1>3 DEF Control!Outcome
  <1>5. applied' = {<<"update-3", 3>>}
    BY <1>1, <1>2, <1>3, <1>4 DEF Control!Attempt, Control!Apply, Control!Key
  <1>6. status' = Tried(TRUE, 2)
    <2>1. (1 + 1) % (100 + 1) = 2
      OBVIOUS
    <2>2. status' = [converged |-> "SUCCESS" = "SUCCESS", attempts |-> 2,
                     delayed |-> "SUCCESS" = "DELAYED_SUCCESS"]
      BY <1>1, <1>2, <1>3, <1>4, <2>1 DEF Control!Attempt
    <2>3. ("SUCCESS" = "SUCCESS") = TRUE /\ ("SUCCESS" = "DELAYED_SUCCESS") = FALSE
      OBVIOUS
    <2> QED BY <2>2, <2>3 DEF Tried
  <1>7. appliedVersion' = 3
    <2>1. UplinkRules.version = 3
      BY RulesMade DEF UplinkRules
    <2> QED BY <1>1, <1>2, <1>3, <1>4, <2>1 DEF Control!Attempt, Control!MarkApplied
  <1>8. ~ loop'.running
    BY <1>1, <1>2, <1>3, <1>4 DEF Control!Attempt, Control!Idle
  <1> QED BY <1>5, <1>6, <1>7, <1>8 DEF Converged

-----------------------------------------------------------------------------
(* The stages a scenario goes through.                                     *)

\* The lists of calls at each stage.
FirstCall(name)  == ProcessCall(FirstPacket(name))
SecondCalls(name) == IF name = "qer-rate-limit" THEN <<ProcessCall(SecondPacket)>> ELSE <<>>
PacketCalls(name) ==
  IF name = "qer-rate-limit" THEN <<FirstCall(name), ProcessCall(SecondPacket)>> ELSE <<FirstCall(name)>>
RuleCalls(name)  ==
  IF name = "qer-rate-limit"
  THEN <<InstallCall(RulesOf(name)), FirstCall(name), ProcessCall(SecondPacket)>>
  ELSE <<InstallCall(RulesOf(name)), FirstCall(name)>>
ReconcileCalls(name) == <<ReconcileCall, InstallCall(RulesOf(name)), FirstCall(name)>>
ControlCalls(name) ==
  <<UpdateCall, ReconcileCall, InstallCall(RulesOf(name)), FirstCall(name)>>

\* The calls of a scenario are those of its kind.
LEMMA CallsOf ==
  ASSUME NEW name \in BuiltInScenarios
  PROVE  /\ name \in ControlScenarios => Calls(name) = ControlCalls(name)
         /\ name \in ClassifiedScenarios => Calls(name) = <<ClassifyCall>>
         /\ name \notin ControlScenarios \cup ClassifiedScenarios => Calls(name) = RuleCalls(name)
PROOF
  <1>1. CASE name \in ControlScenarios
    <2>1. FirstPacket(name) = UplinkPacket /\ RulesOf(name) = UplinkRules
      BY <1>1 DEF FirstPacket, RulesOf, ControlScenarios
    <2>2. name \notin ClassifiedScenarios
      BY <1>1 DEF ControlScenarios, ClassifiedScenarios
    <2>3. Calls(name) = <<UpdateCall, ReconcileCall, InstallCall(UplinkRules), ProcessCall(UplinkPacket)>>
      <3>1. name \notin {"downlink-forward", "qer-rate-limit", "urr-threshold", "pdr-precedence"}
        BY <1>1 DEF ControlScenarios
      <3> QED BY <1>1, <2>2, <3>1 DEF Calls
    <2> QED BY <1>1, <2>1, <2>2, <2>3 DEF ControlCalls, FirstCall
  <1>2. CASE name \in ClassifiedScenarios
    <2>1. name \notin ControlScenarios
      BY <1>2 DEF ControlScenarios, ClassifiedScenarios
    <2> QED BY <1>2, <2>1 DEF Calls, ClassifiedScenarios
  <1>3. CASE name \notin ControlScenarios \cup ClassifiedScenarios
    <2>1. CASE name = "downlink-forward"
      BY <1>3, <2>1 DEF Calls, RuleCalls, FirstCall, FirstPacket, RulesOf
    <2>2. CASE name = "qer-rate-limit"
      BY <1>3, <2>2 DEF Calls, RuleCalls, FirstCall, FirstPacket, SecondPacket, RulesOf
    <2>3. CASE name = "urr-threshold"
      BY <1>3, <2>3 DEF Calls, RuleCalls, FirstCall, FirstPacket, RulesOf
    <2>4. CASE name = "pdr-precedence"
      BY <1>3, <2>4 DEF Calls, RuleCalls, FirstCall, FirstPacket, RulesOf
    <2>5. CASE name \notin {"downlink-forward", "qer-rate-limit", "urr-threshold", "pdr-precedence"}
      BY <1>3, <2>5 DEF Calls, RuleCalls, FirstCall, FirstPacket, RulesOf
    <2> QED BY <1>3, <2>1, <2>2, <2>3, <2>4, <2>5
  <1> QED BY <1>1, <1>2, <1>3

\* The call at the head of each list, and the list after it.
LEMMA Heads ==
  ASSUME NEW name
  PROVE  /\ ControlCalls(name) # <<>> /\ Head(ControlCalls(name)).call = "update"
         /\ Tail(ControlCalls(name)) = ReconcileCalls(name)
         /\ ReconcileCalls(name) # <<>> /\ Head(ReconcileCalls(name)).call = "reconcile"
         /\ name # "qer-rate-limit" => Tail(ReconcileCalls(name)) = RuleCalls(name)
PROOF
  BY DEF ControlCalls, ReconcileCalls, RuleCalls, UpdateCall, ReconcileCall

\* The ruleset is installed, then packets are processed.
LEMMA RuleHeads ==
  ASSUME NEW name
  PROVE  /\ RuleCalls(name) # <<>> /\ Head(RuleCalls(name)).call = "install"
         /\ Head(RuleCalls(name)).rules = RulesOf(name)
         /\ Tail(RuleCalls(name)) = PacketCalls(name)
PROOF
  BY DEF RuleCalls, PacketCalls, InstallCall

\* One packet, and in "qer-rate-limit" a second.
LEMMA PacketHeads ==
  ASSUME NEW name
  PROVE  /\ PacketCalls(name) # <<>> /\ Head(PacketCalls(name)).call = "process"
         /\ Head(PacketCalls(name)).packet = FirstPacket(name)
         /\ Tail(PacketCalls(name)) = SecondCalls(name)
         /\ name = "qer-rate-limit" =>
              /\ SecondCalls(name) # <<>> /\ Head(SecondCalls(name)).call = "process"
              /\ Head(SecondCalls(name)).packet = SecondPacket /\ Tail(SecondCalls(name)) = <<>>
PROOF
  BY DEF PacketCalls, SecondCalls, FirstCall, ProcessCall

-----------------------------------------------------------------------------
(* The stages, and what each leaves behind.                                *)

\* The result with a list of decisions, and how many events were dropped.
Answered(list) == [NewResult EXCEPT !.decisions = list]
DroppedOf(name) == IF name = "overload" THEN 1 ELSE 0

\* The decisions of a scenario.
FirstOf(name)   ==
  FirstDecision(RulesOf(name), FirstPacket(name), BytesOf(name), name = "overload")
SecondOf        == LimitedDecision(UplinkRules, SecondPacket, 2000, 1000)
DecisionsOf(name) ==
  IF name = "qer-rate-limit" THEN <<FirstOf(name), SecondOf>> ELSE <<FirstOf(name)>>

\* Nothing was processed yet, and no rules were installed.
NothingDone(name) ==
  /\ limits = LimitsOf(name) /\ result = NewResult /\ sinks = NothingSent
  /\ decisions = <<>> /\ reports = <<>> /\ events = <<>> /\ droppedEvents = 0
\* No ruleset was installed.
NoRules == rules = {} /\ runtime = NoRuntime

\* What the first packet left, and the second does not change.
Passed(name) ==
  /\ limits = LimitsOf(name) /\ droppedEvents = DroppedOf(name)
  /\ reports = ReportsOf(RulesOf(name), BytesOf(name))
  /\ sinks = SentOf(RulesOf(name), FirstPacket(name))
\* The bucket and the counter after the first packet.
Spent(name) ==
  /\ decisions = <<FirstOf(name)>> /\ Len(events) < 8192
  /\ Serving(RulesOf(name), 20000 - BytesOf(name), CountedOnce(BytesOf(name)))

\* The control plane has done its part.
Settled(name) == ~ loop.running /\ (name \in ControlScenarios => Converged)

\* Before the update, before reconcile, and in its loop.
AtUpdate(name) ==
  /\ name \in ControlScenarios /\ calls = ControlCalls(name)
  /\ Unused /\ NothingDone(name) /\ NoRules
AtReconcile(name) ==
  /\ name \in ControlScenarios /\ calls = ReconcileCalls(name)
  /\ Updated /\ NothingDone(name) /\ NoRules
AtAttempt(name) ==
  /\ name \in ControlScenarios /\ calls = RuleCalls(name)
  /\ TryFirst \/ TrySecond
  /\ NothingDone(name) /\ NoRules
\* Before the ruleset is installed, the first packet and the second.
AtInstall(name) ==
  /\ name \in Decided /\ calls = RuleCalls(name)
  /\ Settled(name) /\ NothingDone(name) /\ NoRules
AtFirst(name) ==
  /\ name \in Decided /\ calls = PacketCalls(name)
  /\ Settled(name) /\ NothingDone(name) /\ Serving(RulesOf(name), 20000, FreshUsage)
AtSecond(name) ==
  /\ name = "qer-rate-limit" /\ calls = SecondCalls(name)
  /\ Settled(name) /\ Passed(name) /\ Spent(name) /\ result = Answered(<<FirstOf(name)>>)
\* The calls are made.
AtReturn(name) ==
  /\ name \in Decided /\ calls = <<>>
  /\ Settled(name) /\ Passed(name) /\ result = Answered(DecisionsOf(name))
  /\ runtime.urrs[Urr1(RulesOf(name)).id].packets = 1
\* Before and after the decision of no pipeline.
AtClassify(name) ==
  /\ name \in ClassifiedScenarios /\ calls = <<ClassifyCall>>
  /\ ~ loop.running /\ NothingDone(name)
AtClassified(name) ==
  /\ name \in ClassifiedScenarios /\ calls = <<>> /\ ~ loop.running
  /\ sinks = NothingSent /\ reports = <<>> /\ droppedEvents = 0
  /\ \E time \in Garbage : result = Answered(<<Classified(name, time)>>)

\* No scenario runs.
Between == scenario = "none" /\ calls = <<>> /\ ~ loop.running

Stage(name) ==
  \/ AtUpdate(name) \/ AtReconcile(name) \/ AtAttempt(name) \/ AtInstall(name)
  \/ AtFirst(name) \/ AtSecond(name) \/ AtReturn(name)
  \/ AtClassify(name) \/ AtClassified(name)

\* Every state is at one of the stages.
Staged == Between \/ (scenario \in BuiltInScenarios /\ Stage(scenario))

\* The next call decides the action.
LEMMA OneAction ==
  ASSUME ScenarioNext
  PROVE  /\ loop.running => Reconciling
         /\ ~ loop.running /\ calls # <<>> =>
              \/ Head(calls).call = "install"   /\ CallInstall
              \/ Head(calls).call = "process"   /\ CallProcess
              \/ Head(calls).call = "update"    /\ CallUpdate
              \/ Head(calls).call = "reconcile" /\ CallReconcile
              \/ Head(calls).call = "classify"  /\ CallClassify
         /\ ~ loop.running /\ calls = <<>> =>
              Return \/ (scenario = "none" /\ \E name \in ScenarioNames : Begin(name))
PROOF
  <1>1. Reconciling => loop.running
    BY DEF Reconciling, Control!Attempt, Control!GiveUp
  <1>2. ASSUME NEW call, Calling(call)
        PROVE  ~ loop.running /\ calls # <<>> /\ Head(calls).call = call
    BY <1>2 DEF Calling
  <1>3. Return \/ (\E name \in ScenarioNames : Begin(name)) => ~ loop.running /\ calls = <<>>
    BY DEF Return, Returning, Begin, Resting
  <1>4. (\E name \in ScenarioNames : Begin(name)) => scenario = "none"
    BY DEF Begin
  <1>5. CallInstall => Calling("install")
    BY DEF CallInstall
  <1>6. CallProcess => Calling("process")
    BY DEF CallProcess
  <1>7. CallUpdate => Calling("update")
    BY DEF CallUpdate
  <1>8. CallReconcile => Calling("reconcile")
    BY DEF CallReconcile
  <1>9. CallClassify => Calling("classify")
    BY DEF CallClassify
  <1> QED BY <1>1, <1>2, <1>3, <1>4, <1>5, <1>6, <1>7, <1>8, <1>9 DEF ScenarioNext

\* A scenario begins with new objects, whatever ran before it.
LEMMA BeginStage ==
  ASSUME NEW name \in ScenarioNames, Begin(name)
  PROVE  Staged'
PROOF
  <1>1. name \in BuiltInScenarios /\ scenario' = name /\ calls' = Calls(name)
    BY ScenarioNamesAssumption DEF Begin
  <1>2. NothingDone(name)' /\ NoRules'
    BY DEF Begin, NothingDone, NoRules, NothingSent
  <1>3. ~ loop'.running
    BY DEF Begin, NewControl, Control!Idle
  <1>4. Unused'
    BY <1>3 DEF Begin, NewControl, Unused, Untouched
  <1>5. CASE name \in ControlScenarios
    <2>1. calls' = ControlCalls(name)
      BY <1>1, <1>5, CallsOf
    <2>2. AtUpdate(name)'
      BY <1>2, <1>4, <1>5, <2>1 DEF AtUpdate
    <2> QED BY <1>1, <2>2 DEF Staged, Stage
  <1>6. CASE name \in ClassifiedScenarios
    <2>1. calls' = <<ClassifyCall>>
      BY <1>1, <1>6, CallsOf
    <2>2. AtClassify(name)'
      BY <1>2, <1>3, <1>6, <2>1 DEF AtClassify
    <2> QED BY <1>1, <2>2 DEF Staged, Stage
  <1>7. CASE name \notin ControlScenarios \cup ClassifiedScenarios
    <2>1. calls' = RuleCalls(name) /\ name \in Decided
      BY <1>1, <1>7, CallsOf DEF Decided
    <2>2. Settled(name)'
      BY <1>3, <1>7 DEF Settled
    <2>3. AtInstall(name)'
      BY <1>2, <2>1, <2>2 DEF AtInstall
    <2> QED BY <1>1, <2>3 DEF Staged, Stage
  <1> QED BY <1>5, <1>6, <1>7

\* The control plane does not touch the pipeline.
LEMMA PipelineKept ==
  ASSUME NEW name, NothingDone(name), NoRules, UNCHANGED <<pipelineVars, result>>
  PROVE  NothingDone(name)' /\ NoRules'
PROOF
  BY DEF NothingDone, NoRules, pipelineVars, vars

\* After the update there is something to reconcile.
LEMMA FromUpdate ==
  ASSUME AtUpdate(scenario), scenario \in BuiltInScenarios, ScenarioNext
  PROVE  Staged'
PROOF
  <1>1. /\ scenario \in ControlScenarios /\ calls = ControlCalls(scenario)
        /\ Unused /\ NothingDone(scenario) /\ NoRules
    BY DEF AtUpdate
  <1>2. CallUpdate
    BY <1>1, OneAction, Heads DEF Unused
  <1>3. scenario' = scenario /\ calls' = ReconcileCalls(scenario)
    BY <1>1, <1>2, Heads DEF CallUpdate, Calling
  <1>4. Updated'
    BY <1>1, <1>2, UpdateStep DEF CallUpdate
  <1>5. NothingDone(scenario)' /\ NoRules'
    BY <1>1, <1>2, <1>3, PipelineKept DEF CallUpdate
  <1>6. AtReconcile(scenario)'
    BY <1>1, <1>3, <1>4, <1>5 DEF AtReconcile
  <1> QED BY <1>3, <1>6 DEF Staged, Stage

\* After the call of reconcile its loop runs.
LEMMA FromReconcile ==
  ASSUME AtReconcile(scenario), scenario \in BuiltInScenarios, ScenarioNext
  PROVE  Staged'
PROOF
  <1>1. /\ scenario \in ControlScenarios /\ calls = ReconcileCalls(scenario)
        /\ Updated /\ NothingDone(scenario) /\ NoRules
    BY DEF AtReconcile
  <1>2. CallReconcile
    BY <1>1, OneAction, Heads DEF Updated
  <1>3. scenario' = scenario /\ calls' = RuleCalls(scenario)
    <2>1. scenario # "qer-rate-limit"
      BY <1>1 DEF ControlScenarios
    <2> QED BY <1>1, <1>2, <2>1, Heads DEF CallReconcile, Calling
  <1>4. TryFirst'
    BY <1>1, <1>2, ReconcileStep DEF CallReconcile
  <1>5. NothingDone(scenario)' /\ NoRules'
    BY <1>1, <1>2, <1>3, PipelineKept DEF CallReconcile
  <1>6. AtAttempt(scenario)'
    BY <1>1, <1>3, <1>4, <1>5 DEF AtAttempt
  <1> QED BY <1>3, <1>6 DEF Staged, Stage

\* The loop tries once more, then it has converged.
LEMMA FromAttempt ==
  ASSUME AtAttempt(scenario), scenario \in BuiltInScenarios, ScenarioNext
  PROVE  Staged'
PROOF
  <1>1. /\ scenario \in ControlScenarios /\ calls = RuleCalls(scenario)
        /\ TryFirst \/ TrySecond
        /\ NothingDone(scenario) /\ NoRules
    BY DEF AtAttempt
  <1>2. Reconciling
    <2>1. loop.running
      BY <1>1, Asked DEF TryFirst, TrySecond
    <2> QED BY <2>1, OneAction
  <1>3. scenario' = scenario /\ calls' = RuleCalls(scenario)
    BY <1>1, <1>2 DEF Reconciling
  <1>4. NothingDone(scenario)' /\ NoRules'
    BY <1>1, <1>2, <1>3, PipelineKept DEF Reconciling
  <1>5. CASE TryFirst
    <2>1. TrySecond'
      BY <1>2, <1>5, FirstAttempt DEF Reconciling
    <2>2. AtAttempt(scenario)'
      BY <1>1, <1>3, <1>4, <2>1 DEF AtAttempt
    <2> QED BY <1>3, <2>2 DEF Staged, Stage
  <1>6. CASE TrySecond
    <2>1. Converged'
      BY <1>2, <1>6, SecondAttempt DEF Reconciling
    <2>2. Settled(scenario)'
      BY <2>1 DEF Settled, Converged
    <2>3. scenario \in Decided
      BY <1>1 DEF Decided, ControlScenarios, ClassifiedScenarios, BuiltInScenarios
    <2>4. AtInstall(scenario)'
      BY <1>3, <1>4, <2>2, <2>3 DEF AtInstall
    <2> QED BY <1>3, <2>4 DEF Staged, Stage
  <1> QED BY <1>1, <1>5, <1>6

\* The pipeline does not touch the control plane.
LEMMA ControlKept ==
  ASSUME NEW name, Settled(name), UNCHANGED controlVars
  PROVE  Settled(name)'
PROOF
  BY DEF Settled, Converged, controlVars

\* The ruleset is installed with a full bucket and an empty counter.
LEMMA FromInstall ==
  ASSUME AtInstall(scenario), scenario \in BuiltInScenarios, ScenarioNext
  PROVE  Staged'
PROOF
  <1> DEFINE rs == RulesOf(scenario)
  <1>1. /\ scenario \in Decided /\ calls = RuleCalls(scenario)
        /\ Settled(scenario) /\ NothingDone(scenario) /\ NoRules
    BY DEF AtInstall
  <1>2. CallInstall
    BY <1>1, OneAction, RuleHeads DEF Settled
  <1>3. scenario' = scenario /\ calls' = PacketCalls(scenario) /\ Head(calls).rules = rs
    BY <1>1, <1>2, RuleHeads DEF CallInstall, Calling
  <1>4. ValidateRuleSet(rs) /\ Simple(rs)
    BY RulesOfValid
  <1> HIDE DEF rs
  <1>5. Install(rs)
    BY <1>2, <1>3, <1>4 DEF CallInstall, RefuseInstall
  <1>6. rules' = {rs} /\ runtime' = Migrated(NoRuntime, rs)
    BY <1>1, <1>5 DEF Install, NoRules
  <1>7. Runs(runtime', Qer1(rs).id, Holding(20000), Urr1(rs).id, FreshUsage)
    BY <1>4, <1>6, StartsFresh
  <1>8. NothingDone(scenario)'
    BY <1>1, <1>2, <1>3 DEF NothingDone, CallInstall
  <1>9. Settled(scenario)'
    BY <1>1, <1>2, <1>3, ControlKept DEF CallInstall
  <1>10. AtFirst(scenario)'
    <2>1. Serving(RulesOf(scenario), 20000, FreshUsage)'
      BY <1>3, <1>6, <1>7 DEF Serving, rs
    <2> QED BY <1>1, <1>3, <1>8, <1>9, <2>1 DEF AtFirst
  <1> QED BY <1>3, <1>10 DEF Staged, Stage

\* The limits leave the pipeline room.
LEMMA LimitsRoomy ==
  ASSUME NEW name, limits = LimitsOf(name)
  PROVE  Roomy(limits) /\ (limits.events = 0 <=> name = "overload")
PROOF
  BY DEF LimitsOf, DefaultLimits, Roomy

\* What the first packet leaves.
LEMMA FirstLeaves ==
  ASSUME NEW name \in Decided, NothingDone(name), Serving(RulesOf(name), 20000, FreshUsage),
         Process(FirstPacket(name)), UNCHANGED <<limits, rules>>
  PROVE  /\ Passed(name)' /\ Spent(name)'
         /\ runtime'.urrs[Urr1(RulesOf(name)).id].packets = 1
PROOF
  <1> DEFINE rs == RulesOf(name)
             p  == FirstPacket(name)
             bytes == BytesOf(name)
  <1>1. Roomy(limits) /\ (limits.events = 0 <=> name = "overload")
    BY LimitsRoomy DEF NothingDone
  <1>2. LoadedWith(rs)
    BY <1>1 DEF LoadedWith, NothingDone
  <1>3. Fits(rs, p, bytes)
    BY FirstFits
  <1>4. (limits.events = 0) = (name = "overload")
    BY <1>1
  <1>5. rules = {rs}
    BY DEF Serving
  <1>6. FirstOf(name) = FirstDecision(rs, p, bytes, name = "overload")
    BY DEF FirstOf
  <1> HIDE DEF rs, p, bytes
  <1>7. FirstDone(rs, p, bytes)
    BY <1>2, <1>3, FirstServed DEF p
  <1>8. decisions' = <<FirstOf(name)>>
    BY <1>4, <1>6, <1>7 DEF FirstDone
  <1>9. /\ Len(events') < 8192 /\ droppedEvents' = DroppedOf(name)
        /\ reports' = ReportsOf(rs, bytes) /\ sinks' = SentOf(rs, p)
    BY <1>4, <1>7 DEF FirstDone, DroppedOf
  <1>10. Serving(rs, 20000 - bytes, CountedOnce(bytes))'
    BY <1>5, <1>7 DEF FirstDone, Serving
  <1>11. limits' = LimitsOf(name)
    BY DEF NothingDone
  <1>12. runtime'.urrs[Urr1(rs).id].packets = 1
    <2>1. runtime'.urrs[Urr1(rs).id] = CountedOnce(bytes)
      BY <1>7 DEF FirstDone, Runs
    <2> QED BY <2>1 DEF CountedOnce
  <1> QED BY <1>8, <1>9, <1>10, <1>11, <1>12 DEF Passed, Spent, rs, p, bytes

\* The first packet is forwarded.
LEMMA FromFirst ==
  ASSUME AtFirst(scenario), scenario \in BuiltInScenarios, ScenarioNext
  PROVE  Staged'
PROOF
  <1>1. /\ scenario \in Decided /\ calls = PacketCalls(scenario)
        /\ Settled(scenario) /\ NothingDone(scenario)
        /\ Serving(RulesOf(scenario), 20000, FreshUsage)
    BY DEF AtFirst
  <1>2. CallProcess
    BY <1>1, OneAction, PacketHeads DEF Settled
  <1>3. scenario' = scenario /\ calls' = SecondCalls(scenario) /\ Head(calls).packet = FirstPacket(scenario)
    BY <1>1, <1>2, PacketHeads DEF CallProcess, Calling
  <1>4. Process(FirstPacket(scenario)) /\ UNCHANGED <<limits, rules, controlVars>>
    BY <1>2, <1>3 DEF CallProcess
  <1>5. Settled(scenario)'
    BY <1>1, <1>3, <1>4, ControlKept
  <1>6. /\ Passed(scenario)' /\ Spent(scenario)'
        /\ runtime'.urrs[Urr1(RulesOf(scenario)).id].packets = 1
    BY <1>1, <1>3, <1>4, FirstLeaves
  <1>7. HasResultSpace /\ result = NewResult
    <2>1. limits.results = 2048 /\ decisions = <<>>
      BY <1>1, LimitsRoomy DEF NothingDone, Roomy
    <2> QED BY <1>1, <2>1 DEF HasResultSpace, NothingDone
  <1>8. result' = Answered(<<FirstOf(scenario)>>)
    <2>1. decisions' = <<FirstOf(scenario)>>
      BY <1>3, <1>6 DEF Spent
    <2>2. result' = [NewResult EXCEPT !.decisions = Append(@, FirstOf(scenario))]
      BY <1>2, <1>7, <2>1 DEF CallProcess
    <2>3. NewResult.decisions = <<>> /\ Append(<<>>, FirstOf(scenario)) = <<FirstOf(scenario)>>
      BY DEF NewResult
    <2> QED BY <2>2, <2>3 DEF Answered
  <1>9. CASE scenario = "qer-rate-limit"
    <2>1. AtSecond(scenario)'
      BY <1>3, <1>5, <1>6, <1>8, <1>9 DEF AtSecond
    <2> QED BY <1>3, <2>1 DEF Staged, Stage
  <1>10. CASE scenario # "qer-rate-limit"
    <2>1. calls' = <<>>
      BY <1>3, <1>10 DEF SecondCalls
    <2>2. DecisionsOf(scenario) = <<FirstOf(scenario)>>
      BY <1>10 DEF DecisionsOf
    <2>3. (runtime.urrs[Urr1(RulesOf(scenario)).id].packets = 1)'
      BY <1>3, <1>6
    <2>4. AtReturn(scenario)'
      BY <1>1, <1>3, <1>5, <1>6, <1>8, <2>1, <2>2, <2>3 DEF AtReturn
    <2> QED BY <1>3, <2>4 DEF Staged, Stage
  <1> QED BY <1>9, <1>10

\* A list of two is a list of one with one appended.
LEMMA AppendToOne ==
  ASSUME NEW a, NEW b
  PROVE  Append(<<a>>, b) = <<a, b>>
PROOF
  <1> DEFINE S == {a, b}
             s == Append(<<a>>, b)
             t == <<a, b>>
  <1>1. <<a>> \in Seq(S) /\ b \in S /\ t \in Seq(S)
    OBVIOUS
  <1>2. Len(<<a>>) = 1 /\ <<a>>[1] = a /\ Len(t) = 2 /\ t[1] = a /\ t[2] = b
    OBVIOUS
  <1>3. s \in Seq(S) /\ Len(s) = 2 /\ s[1] = a /\ s[2] = b
    BY <1>1, <1>2
  <1>4. \A i \in 1 .. Len(s) : s[i] = t[i]
    BY <1>2, <1>3
  <1> HIDE DEF s, t
  <1>5. s = t
    BY <1>1, <1>2, <1>3, <1>4, SeqEqual
  <1> QED BY <1>5 DEF s, t

\* The second packet of "qer-rate-limit" is limited.
LEMMA FromSecond ==
  ASSUME AtSecond(scenario), scenario \in BuiltInScenarios, ScenarioNext
  PROVE  Staged'
PROOF
  <1>1. /\ scenario = "qer-rate-limit" /\ calls = SecondCalls(scenario)
        /\ Settled(scenario) /\ Passed(scenario) /\ Spent(scenario)
        /\ result = Answered(<<FirstOf(scenario)>>)
    BY DEF AtSecond
  <1>2. CallProcess
    BY <1>1, OneAction, PacketHeads DEF Settled
  <1>3. scenario' = scenario /\ calls' = <<>> /\ Head(calls).packet = SecondPacket
    BY <1>1, <1>2, PacketHeads DEF CallProcess, Calling
  <1>4. Process(SecondPacket) /\ UNCHANGED <<limits, rules, controlVars>>
    BY <1>2, <1>3 DEF CallProcess
  <1>5. Settled(scenario)'
    BY <1>1, <1>3, <1>4, ControlKept
  <1>6. RulesOf(scenario) = UplinkRules /\ BytesOf(scenario) = 19000
    BY <1>1 DEF RulesOf, BytesOf
  <1>7. Serving(UplinkRules, 1000, CountedOnce(19000))
    <2>1. 20000 - 19000 = 1000
      OBVIOUS
    <2>2. Serving(UplinkRules, 20000 - 19000, CountedOnce(19000))
      BY <1>1, <1>6 DEF Spent
    <2> QED BY <2>1, <2>2
  <1>8. limits = LimitsOf(scenario) /\ decisions = <<FirstOf(scenario)>> /\ Len(events) < 8192
    BY <1>1 DEF Passed, Spent
  <1>9. limits.results = 2048 /\ limits.events = 8192
    BY <1>1, <1>8 DEF LimitsOf, DefaultLimits
  <1>10. HasResultSpace /\ Len(events) < limits.events
    BY <1>8, <1>9 DEF HasResultSpace
  <1>11. LimitedDone(UplinkRules, SecondPacket, 2000, 1000)
    <2>1. 1000 \in Tokens /\ 1000 < 2000
      BY DEF Tokens
    <2> QED BY <1>4, <1>7, <1>10, <2>1, SecondFits, SecondLimited
  <1>12. decisions' = Append(decisions, SecondOf)
    BY <1>11 DEF LimitedDone, SecondOf
  <1>13. DecisionsOf(scenario) = <<FirstOf(scenario), SecondOf>>
    BY <1>1 DEF DecisionsOf
  <1>14. result' = Answered(DecisionsOf(scenario))
    <2>1. decisions'[Len(decisions')] = SecondOf
      BY <1>8, <1>12
    <2>2. result' = [result EXCEPT !.decisions = Append(@, SecondOf)]
      BY <1>2, <1>10, <2>1 DEF CallProcess
    <2>3. result' = [[NewResult EXCEPT !.decisions = <<FirstOf(scenario)>>]
                       EXCEPT !.decisions = Append(<<FirstOf(scenario)>>, SecondOf)]
      BY <1>1, <2>2 DEF Answered, NewResult
    <2>4. Append(<<FirstOf(scenario)>>, SecondOf) = <<FirstOf(scenario), SecondOf>>
      BY AppendToOne
    <2> QED BY <1>13, <2>3, <2>4 DEF Answered, NewResult
  <1>15. Passed(scenario)'
    BY <1>1, <1>3, <1>4, <1>11 DEF Passed, LimitedDone
  <1>16. runtime'.urrs[Urr1(UplinkRules).id].packets = 1
    <2>1. runtime.urrs[Urr1(UplinkRules).id] = CountedOnce(19000)
      BY <1>7 DEF Serving, Runs
    <2>2. runtime'.urrs = runtime.urrs
      BY <1>11 DEF LimitedDone
    <2> QED BY <2>1, <2>2 DEF CountedOnce
  <1>17. AtReturn(scenario)'
    <2>1. scenario \in Decided
      BY <1>1 DEF Decided, BuiltInScenarios, ClassifiedScenarios
    <2> QED BY <1>3, <1>5, <1>6, <1>14, <1>15, <1>16, <2>1 DEF AtReturn
  <1> QED BY <1>3, <1>17 DEF Staged, Stage

\* A decision no pipeline made is put into the result.
LEMMA FromClassify ==
  ASSUME AtClassify(scenario), scenario \in BuiltInScenarios, ScenarioNext
  PROVE  Staged'
PROOF
  <1>1. /\ scenario \in ClassifiedScenarios /\ calls = <<ClassifyCall>>
        /\ ~ loop.running /\ NothingDone(scenario)
    BY DEF AtClassify
  <1>2. calls # <<>> /\ Head(calls).call = "classify" /\ Tail(calls) = <<>>
    BY <1>1 DEF ClassifyCall
  <1>3. CallClassify
    BY <1>1, <1>2, OneAction
  <1>4. scenario' = scenario /\ calls' = <<>>
    BY <1>2, <1>3 DEF CallClassify, Calling
  <1>5. ~ loop'.running /\ sinks' = NothingSent /\ reports' = <<>> /\ droppedEvents' = 0
    BY <1>1, <1>3 DEF CallClassify, NothingDone, pipelineVars, vars, controlVars
  <1>6. PICK time \in Garbage : result' = [result EXCEPT !.decisions = Append(@, Classified(scenario, time))]
    BY <1>3 DEF CallClassify
  <1>7. result' = Answered(<<Classified(scenario, time)>>)
    <2>1. result = NewResult /\ NewResult.decisions = <<>>
      BY <1>1 DEF NothingDone, NewResult
    <2>2. Append(<<>>, Classified(scenario, time)) = <<Classified(scenario, time)>>
      OBVIOUS
    <2> QED BY <1>6, <2>1, <2>2 DEF Answered
  <1>8. AtClassified(scenario)'
    BY <1>1, <1>4, <1>5, <1>7 DEF AtClassified
  <1> QED BY <1>4, <1>8 DEF Staged, Stage

\* A scenario that returns, and a process that begins the next.
LEMMA FromReturn ==
  ASSUME calls = <<>>, ~ loop.running, ScenarioNext
  PROVE  Staged'
PROOF
  <1>1. CASE Return
    <2>1. scenario' = "none" /\ calls' = <<>> /\ ~ loop'.running
      BY <1>1 DEF Return, controlVars
    <2> QED BY <2>1 DEF Staged, Between
  <1>2. CASE \E name \in ScenarioNames : Begin(name)
    BY <1>2, BeginStage
  <1> QED BY <1>1, <1>2, OneAction

\* A stage is a matter of the variables of the scenario.
LEMMA StagedStays ==
  ASSUME Staged, UNCHANGED scenarioVars
  PROVE  Staged'
PROOF
  <1>1. /\ UNCHANGED <<scenario, calls, result, controlVars>>
        /\ UNCHANGED <<limits, rules, runtime, sinks, reports, decisions, events, droppedEvents>>
    BY DEF scenarioVars, pipelineVars, vars
  <1>2. UNCHANGED <<active, intended, latestUpdateId, applied, appliedVersion, outcomes, loop, status>>
    BY <1>1 DEF controlVars
  <1>3. Between => Between'
    BY <1>1, <1>2 DEF Between
  <1>4. ASSUME NEW name
        PROVE  (NothingDone(name) => NothingDone(name)') /\ (Passed(name) => Passed(name)')
    BY <1>1 DEF NothingDone, Passed
  <1>5. ASSUME NEW rs, NEW t, NEW usage
        PROVE  Serving(rs, t, usage) => Serving(rs, t, usage)'
    BY <1>1 DEF Serving
  <1>6. ASSUME NEW name
        PROVE  Spent(name) => Spent(name)'
    BY <1>1, <1>5 DEF Spent
  <1>7. ASSUME NEW name
        PROVE  Settled(name) => Settled(name)'
    BY <1>2 DEF Settled, Converged
  <1>8. (Unused => Unused') /\ (Updated => Updated') /\ (NoRules => NoRules')
    BY <1>1, <1>2 DEF Unused, Updated, Untouched, Intends, NoRules
  <1>9. (TryFirst => TryFirst') /\ (TrySecond => TrySecond')
    BY <1>1, <1>2 DEF TryFirst, TrySecond, Untouched, Intends
  <1>10. ASSUME NEW name, AtUpdate(name) \/ AtReconcile(name) \/ AtAttempt(name)
         PROVE  Stage(name)'
    BY <1>1, <1>4, <1>8, <1>9, <1>10 DEF AtUpdate, AtReconcile, AtAttempt, Stage
  <1>11. ASSUME NEW name, AtInstall(name) \/ AtFirst(name)
         PROVE  Stage(name)'
    BY <1>1, <1>4, <1>5, <1>7, <1>8, <1>11 DEF AtInstall, AtFirst, Stage
  <1>12. ASSUME NEW name, AtSecond(name) \/ AtReturn(name)
         PROVE  Stage(name)'
    BY <1>1, <1>4, <1>6, <1>7, <1>12 DEF AtSecond, AtReturn, Stage
  <1>13. ASSUME NEW name, AtClassify(name) \/ AtClassified(name)
         PROVE  Stage(name)'
    BY <1>1, <1>2, <1>4, <1>13 DEF AtClassify, AtClassified, Stage
  <1>14. \A name : Stage(name) => Stage(name)'
    BY <1>10, <1>11, <1>12, <1>13 DEF Stage
  <1> QED BY <1>1, <1>3, <1>14 DEF Staged

\* The stages follow each other.
LEMMA StagedNext ==
  ASSUME Staged, [ScenarioNext]_scenarioVars
  PROVE  Staged'
PROOF
  <1>1. CASE UNCHANGED scenarioVars
    BY <1>1, StagedStays
  <1>2. CASE ScenarioNext /\ Between
    BY <1>2, FromReturn DEF Between
  <1>3. CASE ScenarioNext /\ scenario \in BuiltInScenarios /\ Stage(scenario)
    <2>1. AtReturn(scenario) => Staged'
      BY <1>3, FromReturn DEF AtReturn, Settled
    <2>2. AtClassified(scenario) => Staged'
      BY <1>3, FromReturn DEF AtClassified
    <2> QED BY <1>3, <2>1, <2>2, FromUpdate, FromReconcile, FromAttempt, FromInstall, FromFirst,
               FromSecond, FromClassify DEF Stage
  <1> QED BY <1>1, <1>2, <1>3 DEF Staged

\* The process starts between two scenarios.
LEMMA StagedInit == ScenarioInit => Staged
PROOF
  BY DEF ScenarioInit, Staged, Between, Control!Init, Control!Idle

-----------------------------------------------------------------------------
(* What a scenario returns and prints.                                     *)

\* The RunResult of its parts.
ResultWith(list, n3, n6, ids, degraded, dropped, version, convergence) ==
  [[NewResult EXCEPT !.decisions = list]
     EXCEPT !.n3Sink = n3, !.n6Sink = n6, !.usageReports = ids, !.observabilityDegraded = degraded,
            !.droppedEvents = dropped, !.intendedVersion = 3, !.activeVersion = 3,
            !.appliedVersion = version, !.convergence = convergence]

\* Of the scenario with that name, whatever ran before it.
FinalOf(name) ==
  ResultWith(DecisionsOf(name),
             SentOf(RulesOf(name), FirstPacket(name))["N3"], SentOf(RulesOf(name), FirstPacket(name))["N6"],
             ReportsOf(RulesOf(name), BytesOf(name)), DroppedOf(name) # 0, DroppedOf(name), 3, "CONVERGED")

\* A call is left, but where the scenario returns.
LEMMA OnlyReturns ==
  ASSUME Staged, Returning
  PROVE  scenario \in BuiltInScenarios /\ (AtReturn(scenario) \/ AtClassified(scenario))
PROOF
  <1>1. calls = <<>> /\ ~ loop.running /\ scenario # "none"
    BY DEF Returning, Resting
  <1>2. scenario \in BuiltInScenarios /\ Stage(scenario)
    BY <1>1 DEF Staged, Between
  <1>3. ~ AtUpdate(scenario) /\ ~ AtReconcile(scenario)
    BY <1>1, Heads DEF AtUpdate, AtReconcile
  <1>4. ~ AtAttempt(scenario) /\ ~ AtInstall(scenario)
    BY <1>1, RuleHeads DEF AtAttempt, AtInstall
  <1>5. ~ AtFirst(scenario) /\ ~ AtSecond(scenario)
    BY <1>1, PacketHeads DEF AtFirst, AtSecond
  <1>6. ~ AtClassify(scenario)
    BY <1>1 DEF AtClassify
  <1> QED BY <1>2, <1>3, <1>4, <1>5, <1>6 DEF Stage

\* A scenario that a pipeline decided returns its one result.
LEMMA FinalIs ==
  ASSUME AtReturn(scenario)
  PROVE  Final = FinalOf(scenario)
PROOF
  <1>1. /\ result = Answered(DecisionsOf(scenario)) /\ Passed(scenario) /\ Settled(scenario)
    BY DEF AtReturn
  <1>2. /\ reports = ReportsOf(RulesOf(scenario), BytesOf(scenario))
        /\ sinks = SentOf(RulesOf(scenario), FirstPacket(scenario)) /\ droppedEvents = DroppedOf(scenario)
    BY <1>1 DEF Passed
  <1> DEFINE controlled == scenario \in ControlScenarios
             version == IF controlled THEN appliedVersion ELSE 3
             convergence == IF controlled /\ ~ status.converged THEN "DIVERGENT" ELSE "CONVERGED"
  <1>3. version = 3 /\ convergence = "CONVERGED"
    <2>1. CASE controlled
      <3>1. appliedVersion = 3 /\ status = Tried(TRUE, 2)
        BY <1>1, <2>1 DEF Settled, Converged
      <3>2. status.converged
        BY <3>1 DEF Tried
      <3> QED BY <3>1, <3>2
    <2> QED BY <2>1
  <1>4. Final = ResultWith(DecisionsOf(scenario), sinks["N3"], sinks["N6"], reports,
                           droppedEvents # 0, droppedEvents, version, convergence)
    BY <1>1 DEF Final, ResultWith, Answered
  <1> HIDE DEF version, convergence
  <1> QED BY <1>2, <1>3, <1>4 DEF FinalOf

\* A scenario that no pipeline decided returns the same but for the time in
\* its decision.
ClassifiedFinal(name, time) ==
  ResultWith(<<Classified(name, time)>>, <<>>, <<>>, <<>>, FALSE, 0, 3, "CONVERGED")

\* Some time was in it.
LEMMA ClassifiedFinalIs ==
  ASSUME AtClassified(scenario)
  PROVE  \E time \in Garbage : Final = ClassifiedFinal(scenario, time)
PROOF
  <1>1. /\ sinks["N3"] = <<>> /\ sinks["N6"] = <<>> /\ reports = <<>> /\ droppedEvents = 0
        /\ scenario \in ClassifiedScenarios
    BY DEF AtClassified, NothingSent, Interface
  <1>2. scenario \notin ControlScenarios
    BY <1>1 DEF ClassifiedScenarios, ControlScenarios
  <1>3. PICK time \in Garbage : result = Answered(<<Classified(scenario, time)>>)
    BY DEF AtClassified
  <1> DEFINE d == Classified(scenario, time)
             controlled == scenario \in ControlScenarios
             version == IF controlled THEN appliedVersion ELSE 3
             convergence == IF controlled /\ ~ status.converged THEN "DIVERGENT" ELSE "CONVERGED"
  <1>4. version = 3 /\ convergence = "CONVERGED"
    BY <1>2
  <1>5. Final = ResultWith(<<d>>, sinks["N3"], sinks["N6"], reports,
                           droppedEvents # 0, droppedEvents, version, convergence)
    BY <1>3 DEF Final, ResultWith, Answered
  <1>6. (0 # 0) = FALSE
    OBVIOUS
  <1> HIDE DEF d, version, convergence
  <1>7. Final = ResultWith(<<d>>, <<>>, <<>>, <<>>, 0 # 0, 0, 3, "CONVERGED")
    BY <1>1, <1>4, <1>5
  <1> QED BY <1>3, <1>6, <1>7 DEF ClassifiedFinal, d

\* What was printed is what the scenario prints.
PrintedIsFinal ==
  \A name \in DOMAIN printed :
    /\ name \in Decided => printed[name] = RenderJson(FinalOf(name))
    /\ name \in ClassifiedScenarios =>
         \E time \in Garbage : printed[name] = RenderJson(ClassifiedFinal(name, time))

\* The inductive invariant.
RepeatInv == Staged /\ PrintedIsFinal

\* What is printed is kept, and is what the scenario prints.
LEMMA PrintedNext ==
  ASSUME RepeatInv, [ScenarioNext]_scenarioVars
  PROVE  PrintedIsFinal'
PROOF
  <1>1. CASE Return
    <2>1. Returning /\ printed' = Kept(scenario, RenderJson(Final))
      BY <1>1 DEF Return
    <2>2. /\ scenario \in Decided => Final = FinalOf(scenario)
          /\ scenario \in ClassifiedScenarios =>
               \E time \in Garbage : Final = ClassifiedFinal(scenario, time)
      BY <2>1, OnlyReturns, FinalIs, ClassifiedFinalIs DEF RepeatInv, AtClassified, AtReturn, Decided
    <2> DEFINE json == RenderJson(Final)
               IsFinal(name, shown) ==
                 /\ name \in Decided => shown = RenderJson(FinalOf(name))
                 /\ name \in ClassifiedScenarios =>
                      \E time \in Garbage : shown = RenderJson(ClassifiedFinal(name, time))
    <2>3. IsFinal(scenario, json)
      BY <2>2
    <2>7. \A name \in DOMAIN printed : IsFinal(name, printed[name])
      BY DEF RepeatInv, PrintedIsFinal
    <2> HIDE DEF json
    <2>4. printed' = Kept(scenario, json)
      BY <2>1 DEF json
    <2> SUFFICES ASSUME NEW name \in DOMAIN printed'
                 PROVE  IsFinal(name, printed'[name])
      BY DEF PrintedIsFinal
    <2> HIDE DEF IsFinal
    <2>5. CASE name \in DOMAIN printed
      <3>1. printed'[name] = printed[name]
        BY <2>4, <2>5 DEF Kept
      <3> QED BY <2>5, <2>7, <3>1
    <2>6. CASE name \notin DOMAIN printed
      <3>1. name = scenario /\ printed'[name] = json
        BY <2>4, <2>6 DEF Kept
      <3> QED BY <2>3, <3>1
    <2> QED BY <2>5, <2>6
  <1>2. CASE ScenarioNext /\ ~ Return
    <2>1. printed' = printed
      BY <1>2 DEF ScenarioNext, Begin, CallInstall, CallProcess, CallUpdate, CallReconcile, Reconciling,
                  CallClassify, Calling
    <2> QED BY <2>1 DEF RepeatInv, PrintedIsFinal
  <1>3. CASE UNCHANGED scenarioVars
    BY <1>3 DEF scenarioVars, RepeatInv, PrintedIsFinal
  <1> QED BY <1>1, <1>2, <1>3

\* The stages and what was printed, in every state of every sequence of runs.
LEMMA RepeatInvariant == ScenarioSpec => []RepeatInv
PROOF
  <1>1. ScenarioInit => RepeatInv
    <2>1. ScenarioInit => printed = <<>>
      BY DEF ScenarioInit
    <2> QED BY <2>1, StagedInit DEF RepeatInv, PrintedIsFinal
  <1>2. RepeatInv /\ [ScenarioNext]_scenarioVars => RepeatInv'
    BY StagedNext, PrintedNext DEF RepeatInv
  <1> QED BY <1>1, <1>2, PTL DEF ScenarioSpec

\* A scenario that a pipeline decides prints the same output whatever ran in
\* the process before it (ScenarioRunner::run): for every sequence of runs of
\* the built-in scenarios, and every value of an uninitialized time.
THEOREM ScenariosRepeatable == ScenarioSpec => []DecidedScenariosRepeat
PROOF
  <1>1. ASSUME RepeatInv
        PROVE  DecidedScenariosRepeat
    <2> SUFFICES ASSUME Returning, scenario \in (ScenarioNames \ ClassifiedScenarios) \cap DOMAIN printed
                 PROVE  RenderJson(Final) = printed[scenario]
      BY DEF DecidedScenariosRepeat, Repeats
    <2>1. scenario \in Decided /\ AtReturn(scenario)
      BY <1>1, OnlyReturns DEF RepeatInv, Decided, AtClassified
    <2>2. Final = FinalOf(scenario)
      BY <2>1, FinalIs
    <2> QED BY <1>1, <2>1, <2>2 DEF RepeatInv, PrintedIsFinal
  <1> QED BY <1>1, RepeatInvariant, PTL

\* README.md's "Same-input scenario output is identical across 1,000 runs"
\* would hold of all scenarios, if the arrival time of the decisions of
\* "queue-full" and "shutdown" always held the same value: nothing else
\* differs between two runs.
THEOREM ScenariosRepeatButForTimes ==
  ASSUME \A a, b \in Garbage : a = b
  PROVE  ScenarioSpec => []ScenariosRepeat
PROOF
  <1>1. ASSUME RepeatInv
        PROVE  ScenariosRepeat
    <2> SUFFICES ASSUME Returning, scenario \in ScenarioNames \cap DOMAIN printed
                 PROVE  RenderJson(Final) = printed[scenario]
      BY DEF ScenariosRepeat, Repeats
    <2>1. CASE AtReturn(scenario)
      <3>1. scenario \in Decided /\ Final = FinalOf(scenario)
        BY <2>1, FinalIs DEF AtReturn
      <3> QED BY <1>1, <3>1 DEF RepeatInv, PrintedIsFinal
    <2>2. CASE AtClassified(scenario)
      <3>1. PICK time \in Garbage : Final = ClassifiedFinal(scenario, time)
        BY <2>2, ClassifiedFinalIs
      <3>2. scenario \in ClassifiedScenarios
        BY <2>2 DEF AtClassified
      <3>3. PICK other \in Garbage : printed[scenario] = RenderJson(ClassifiedFinal(scenario, other))
        BY <1>1, <3>2 DEF RepeatInv, PrintedIsFinal
      <3> QED BY <3>1, <3>3
    <2> QED BY <1>1, <2>1, <2>2, OnlyReturns DEF RepeatInv
  <1> QED BY <1>1, RepeatInvariant, PTL

-----------------------------------------------------------------------------
(* What the scenarios demonstrate.                                         *)

\* Lists of one and of two.
LEMMA ListOfOne ==
  ASSUME NEW a, NEW f, DOMAIN f = 1 .. 1, f[1] = a, f = [i \in 1 .. 1 |-> f[i]]
  PROVE  f = <<a>>
PROOF
  OBVIOUS

\* ... and of two.
LEMMA ListOfTwo ==
  ASSUME NEW a, NEW b, NEW f, f[1] = a, f[2] = b, f = [i \in 1 .. 2 |-> f[i]]
  PROVE  f = <<a, b>>
PROOF
  <1>1. \A i \in 1 .. 2 : f[i] = <<a, b>>[i]
    OBVIOUS
  <1> QED BY <1>1

\* The URR decision of the first packet.
UrrOf(name) == UrrDecision(Urr1(RulesOf(name)), FreshUsage, BytesOf(name), "session-1", 3)

\* The facts of a decision the properties name.
Shows(d, res, pdr, candidates, urr, degraded) ==
  /\ d.result = res /\ d.selected = {pdr} /\ d.candidates = candidates
  /\ d.urr = urr /\ d.degraded = degraded

\* The first decision is a forwarding.
LEMMA FirstShows ==
  ASSUME NEW rs, NEW p, NEW bytes, NEW degraded
  PROVE  Shows(FirstDecision(rs, p, bytes, degraded), ResultOf(rs), Pdr1(rs).id, Candidates(rs, p),
               {UrrDecision(Urr1(rs), FreshUsage, bytes, "session-1", 3)}, degraded)
PROOF
  BY DEF Shows, FirstDecision, AsRetained, AsForwarded, AsPlanned, PolicedAs, AsSelected, AsReceived

\* The second decision is a refusal.
LEMMA SecondShows ==
  Shows(SecondOf, "RATE_LIMITED", Pdr1(UplinkRules).id, Candidates(UplinkRules, SecondPacket), {}, FALSE)
PROOF
  BY DEF Shows, SecondOf, LimitedDecision, AsRetained, With, PolicedAs, AsSelected, AsReceived

\* What is printed of a decision.
LEMMA PrintedOf ==
  ASSUME NEW d
  PROVE  LET json == DecisionJson(d)
         IN  /\ json.terminalResult = d.result /\ json.selectedPdrId = d.selected
             /\ json.candidates = d.candidates /\ json.observabilityDegraded = d.degraded
PROOF
  BY DEF DecisionJson

\* What the first packet of the forwarding scenarios leaves as.
LEMMA ResultsOf ==
  /\ \A name : name # "downlink-forward" => ResultOf(RulesOf(name)) = "FORWARDED_TO_N6"
  /\ ResultOf(RulesOf("downlink-forward")) = "FORWARDED_TO_N3"
PROOF
  <1>1. FarDestination(ToN6) = "N6" /\ FarDestination(ToN3) = "N3"
    BY DownlinkTravels, UplinkTravels, AllNamed, FarsForward DEF UplinkPacket
  <1>2. \A name : name # "downlink-forward" => Far1(RulesOf(name)) = ToN6
    BY PdrLists DEF RulesOf
  <1>3. Far1(RulesOf("downlink-forward")) = ToN3
    BY PdrLists DEF RulesOf
  <1> QED BY <1>1, <1>2, <1>3 DEF ResultOf

\* The URR decision of the first packet carries a report from the threshold on.
LEMMA ReportedOf ==
  ASSUME NEW name
  PROVE  LET u == UrrOf(name)
         IN  /\ u.reportId = IF BytesOf(name) >= 10000
                             THEN {ReportId(Urr1(RulesOf(name)), "session-1", 3)} ELSE {}
             /\ u.bytesAfter = BytesOf(name)
PROOF
  <1> DEFINE bytes == BytesOf(name)
             urr == Urr1(RulesOf(name))
  <1>1. bytes \in Tokens
    BY DEF BytesOf, Tokens
  <1>2. Thresholded(urr)
    BY RulesOfValid DEF Simple
  <1> HIDE DEF bytes, urr
  <1>3. /\ ~ UrrOverflows(FreshUsage, bytes)
        /\ UrrReports(urr, FreshUsage, bytes) <=> bytes >= 10000
    BY <1>1, <1>2, CountedFirst
  <1>4. FreshUsage.payloadBytes + bytes = bytes
    BY <1>1 DEF FreshUsage, Tokens
  <1> DEFINE u == UrrDecision(urr, FreshUsage, bytes, "session-1", 3)
  <1>5. u.bytesAfter = bytes
    BY <1>3, <1>4 DEF UrrDecision
  <1>6. u.reportId = IF bytes >= 10000 THEN {ReportId(urr, "session-1", 3)} ELSE {}
    BY <1>3 DEF UrrDecision
  <1> QED BY <1>5, <1>6 DEF UrrOf, bytes, urr

\* The set of 1 alone has one member, and 1 is the first.
LEMMA NthOfOne == Nth({1}, 1) = 1 /\ Cardinality({1}) = 1 /\ Cardinality({}) = 0
PROOF
  <1>1. Cardinality({1}) = 1 /\ Cardinality({}) = 0
    BY FS_Singleton, FS_EmptySet
  <1>2. {j \in {1} : j <= 1} = {1}
    OBVIOUS
  <1>3. \E i \in {1} : Cardinality({j \in {1} : j <= i}) = 1
    BY <1>1, <1>2
  <1> QED BY <1>1, <1>3 DEF Nth

\* The ids of a list of printed reports.
IdsOf(json) == [i \in DOMAIN json |-> json[i].reportId]

\* Decisions without a report print none.
LEMMA NoneReported ==
  ASSUME NEW list, \A i \in DOMAIN list : \A u \in list[i].urr : u.reportId = {}
  PROVE  IdsOf(UsageReportsJson(list)) = <<>>
PROOF
  <1> DEFINE reporting == {i \in DOMAIN list : \E u \in list[i].urr : u.reportId # {}}
             json == UsageReportsJson(list)
  <1>1. reporting = {} /\ Cardinality({}) = 0
    BY NthOfOne
  <1> HIDE DEF reporting
  <1>2. DOMAIN json = 1 .. Cardinality(reporting)
    BY DEF UsageReportsJson, reporting
  <1> HIDE DEF json
  <1>3. DOMAIN json = 1 .. 0
    BY <1>1, <1>2
  <1>4. DOMAIN json = {}
    BY <1>3
  <1> QED BY <1>4 DEF IdsOf, json

\* A first decision with a report prints it.
LEMMA OneReported ==
  ASSUME NEW list, 1 \in DOMAIN list, \A i \in DOMAIN list : i # 1 => list[i].urr = {},
         NEW u, list[1].urr = {u}, NEW id, u.reportId = {id}
  PROVE  LET json == UsageReportsJson(list)
         IN  IdsOf(json) = <<id>> /\ Len(json) = 1 /\ json[1].payloadBytes = u.bytesAfter
PROOF
  <1> DEFINE reporting == {i \in DOMAIN list : \E v \in list[i].urr : v.reportId # {}}
             json == UsageReportsJson(list)
             Report(k) == [reportId |-> Value(Value(list[Nth(reporting, k)].urr).reportId),
                          sessionId |-> list[Nth(reporting, k)].packet.sessionId,
                          urrId |-> Value(list[Nth(reporting, k)].urr).urrId, generation |-> 1,
                          rulesetVersion |-> list[Nth(reporting, k)].version,
                          packets |-> Value(list[Nth(reporting, k)].urr).packetsAfter,
                          payloadBytes |-> Value(list[Nth(reporting, k)].urr).bytesAfter,
                          thresholdBytes |-> Value(list[Nth(reporting, k)].urr).bytesAfter]
  <1>1. reporting = {1}
    OBVIOUS
  <1>2. json = [k \in 1 .. Cardinality(reporting) |-> Report(k)]
    BY DEF UsageReportsJson
  <1>3. Nth(reporting, 1) = 1 /\ Cardinality(reporting) = 1
    BY <1>1, NthOfOne
  <1>4. Value({u}) = u /\ Value({id}) = id
    BY ValueOfSingleton
  <1>5. Report(1).reportId = id /\ Report(1).payloadBytes = u.bytesAfter
    BY <1>3, <1>4
  <1> HIDE DEF Report, reporting, json
  <1>6. json = [k \in 1 .. 1 |-> Report(k)]
    BY <1>2, <1>3
  <1>7. json = <<Report(1)>>
    BY <1>6, ListOfOne
  <1>8. Len(json) = 1 /\ json[1] = Report(1) /\ DOMAIN json = 1 .. 1
    BY <1>7
  <1>9. IdsOf(json) = <<id>>
    <2> DEFINE f == IdsOf(json)
    <2>1. f = [i \in 1 .. 1 |-> json[i].reportId]
      BY <1>8 DEF IdsOf
    <2> HIDE DEF f
    <2>2. f[1] = id /\ f = [i \in 1 .. 1 |-> f[i]]
      BY <1>5, <1>8, <2>1
    <2> QED BY <2>2, ListOfOne DEF f
  <1> QED BY <1>5, <1>8, <1>9 DEF json

\* The decisions of a scenario.
ShownBy(list, name) ==
  /\ Shows(list[1], ResultOf(RulesOf(name)), Pdr1(RulesOf(name)).id,
           Candidates(RulesOf(name), FirstPacket(name)), {UrrOf(name)}, name = "overload")
  /\ DOMAIN list = IF name = "qer-rate-limit" THEN 1 .. 2 ELSE 1 .. 1
  /\ name = "qer-rate-limit" =>
       Shows(list[2], "RATE_LIMITED", Pdr1(UplinkRules).id,
             Candidates(UplinkRules, SecondPacket), {}, FALSE)

\* The decisions of a scenario are those its name says.
LEMMA DecisionsShow ==
  ASSUME NEW name
  PROVE  ShownBy(DecisionsOf(name), name)
PROOF
  <1> DEFINE list == DecisionsOf(name)
  <1>1. Shows(FirstOf(name), ResultOf(RulesOf(name)), Pdr1(RulesOf(name)).id,
              Candidates(RulesOf(name), FirstPacket(name)), {UrrOf(name)}, name = "overload")
    BY FirstShows DEF FirstOf, UrrOf
  <1>2. CASE name = "qer-rate-limit"
    <2>1. list = <<FirstOf(name), SecondOf>>
      BY <1>2 DEF DecisionsOf
    <2>2. list[1] = FirstOf(name) /\ list[2] = SecondOf /\ DOMAIN list = 1 .. 2
      BY <2>1
    <2> HIDE DEF list
    <2> QED BY <1>1, <1>2, <2>2, SecondShows DEF list, ShownBy
  <1>3. CASE name # "qer-rate-limit"
    <2>1. list = <<FirstOf(name)>>
      BY <1>3 DEF DecisionsOf
    <2>2. list[1] = FirstOf(name) /\ DOMAIN list = 1 .. 1
      BY <2>1
    <2> HIDE DEF list
    <2> QED BY <1>1, <1>3, <2>2 DEF list, ShownBy
  <1> QED BY <1>2, <1>3

\* The reports printed are those the pipeline made.
LEMMA ReportsPrinted ==
  ASSUME NEW name
  PROVE  LET json == UsageReportsJson(DecisionsOf(name))
         IN  /\ IdsOf(json) = ReportsOf(RulesOf(name), BytesOf(name))
             /\ BytesOf(name) >= 10000 => Len(json) = 1 /\ json[1].payloadBytes = BytesOf(name)
PROOF
  <1> DEFINE list == DecisionsOf(name)
             u    == UrrOf(name)
             id   == ReportId(Urr1(RulesOf(name)), "session-1", 3)
             bytes == BytesOf(name)
  <1>0. ShownBy(list, name)
    BY DecisionsShow
  <1>1. list[1].urr = {u} /\ 1 \in DOMAIN list
    BY <1>0 DEF ShownBy, Shows
  <1>2. \A i \in DOMAIN list : i # 1 => list[i].urr = {}
    BY <1>0 DEF ShownBy, Shows
  <1>3. u.reportId = (IF bytes >= 10000 THEN {id} ELSE {}) /\ u.bytesAfter = bytes
    BY ReportedOf
  <1>4. ReportsOf(RulesOf(name), bytes) = IF bytes >= 10000 THEN <<id>> ELSE <<>>
    BY DEF ReportsOf
  <1> HIDE DEF list, u, id, bytes
  <1>5. CASE bytes >= 10000
    BY <1>1, <1>2, <1>3, <1>4, <1>5, OneReported DEF list, bytes
  <1>6. CASE ~ bytes >= 10000
    <2>1. IdsOf(UsageReportsJson(list)) = <<>>
      BY <1>1, <1>2, <1>3, <1>6, NoneReported
    <2> QED BY <1>4, <1>6, <2>1 DEF list, bytes
  <1> QED BY <1>5, <1>6

\* The fields of a result of parts.
LEMMA ResultIs ==
  ASSUME NEW list, NEW n3, NEW n6, NEW ids, NEW degraded, NEW dropped, NEW version, NEW convergence, NEW r,
         r = ResultWith(list, n3, n6, ids, degraded, dropped, version, convergence)
  PROVE  /\ r.decisions = list /\ r.n3Sink = n3 /\ r.n6Sink = n6 /\ r.usageReports = ids
         /\ r.observabilityDegraded = degraded /\ r.droppedEvents = dropped
         /\ r.appliedVersion = version /\ r.convergence = convergence
PROOF
  BY DEF ResultWith, NewResult

\* The facts of a document of a result.
LEMMA RenderedIs ==
  ASSUME NEW r, NEW json, json = RenderJson(r)
  PROVE  /\ json.decisions = [i \in DOMAIN r.decisions |-> DecisionJson(r.decisions[i])]
         /\ json.usageReports = UsageReportsJson(r.decisions)
         /\ json.n3Sink = r.n3Sink /\ json.n6Sink = r.n6Sink
         /\ json.state.convergence = r.convergence /\ json.state.appliedVersion = NullIfZero(r.appliedVersion)
         /\ json.observabilityDegraded = r.observabilityDegraded /\ json.droppedEventCount = r.droppedEvents
PROOF
  BY DEF RenderJson

\* What a decided scenario prints.
Prints(json, name) ==
  /\ json.decisions = [i \in DOMAIN DecisionsOf(name) |-> DecisionJson(DecisionsOf(name)[i])]
  /\ json.usageReports = UsageReportsJson(DecisionsOf(name))
  /\ json.n3Sink = SentOf(RulesOf(name), FirstPacket(name))["N3"]
  /\ json.n6Sink = SentOf(RulesOf(name), FirstPacket(name))["N6"]
  /\ json.state.convergence = "CONVERGED" /\ json.state.appliedVersion = {3}
  /\ json.observabilityDegraded = (DroppedOf(name) # 0) /\ json.droppedEventCount = DroppedOf(name)

\* The document of a decided scenario.
LEMMA DecidedPrints ==
  ASSUME NEW name
  PROVE  Prints(RenderJson(FinalOf(name)), name)
PROOF
  <1>1. PICK r : r = FinalOf(name)
    OBVIOUS
  <1>2. PICK json : json = RenderJson(r)
    OBVIOUS
  <1>3. /\ r.decisions = DecisionsOf(name)
        /\ r.n3Sink = SentOf(RulesOf(name), FirstPacket(name))["N3"]
        /\ r.n6Sink = SentOf(RulesOf(name), FirstPacket(name))["N6"]
        /\ r.observabilityDegraded = (DroppedOf(name) # 0) /\ r.droppedEvents = DroppedOf(name)
        /\ r.appliedVersion = 3 /\ r.convergence = "CONVERGED"
    BY <1>1, ResultIs DEF FinalOf
  <1>4. NullIfZero(3) = {3}
    BY DEF NullIfZero
  <1>5. Prints(json, name)
    BY <1>2, <1>3, <1>4, RenderedIs DEF Prints
  <1> QED BY <1>1, <1>2, <1>5

\* The results printed, of one decision or two.
LEMMA ResultsPrinted ==
  ASSUME NEW name, NEW json, Prints(json, name)
  PROVE  /\ name = "qer-rate-limit" => Results(json) = <<ResultOf(RulesOf(name)), "RATE_LIMITED">>
         /\ name # "qer-rate-limit" => Results(json) = <<ResultOf(RulesOf(name))>>
PROOF
  <1> DEFINE list == DecisionsOf(name)
  <1>1. ShownBy(list, name)
    BY DecisionsShow
  <1>2. json.decisions = [i \in DOMAIN list |-> DecisionJson(list[i])]
    BY DEF Prints
  <1> HIDE DEF list
  <1>3. Results(json) = [i \in DOMAIN list |-> list[i].result]
    BY <1>2, PrintedOf DEF Results
  <1>4. list[1].result = ResultOf(RulesOf(name))
    BY <1>1 DEF ShownBy, Shows
  <1>5. CASE name = "qer-rate-limit"
    <2>1. DOMAIN list = 1 .. 2 /\ list[2].result = "RATE_LIMITED"
      BY <1>1, <1>5 DEF ShownBy, Shows
    <2> DEFINE f == Results(json)
    <2>2. f = [i \in 1 .. 2 |-> list[i].result]
      BY <1>3, <2>1
    <2> HIDE DEF f
    <2>3. f[1] = ResultOf(RulesOf(name)) /\ f[2] = "RATE_LIMITED" /\ f = [i \in 1 .. 2 |-> f[i]]
      BY <1>4, <2>1, <2>2
    <2> QED BY <1>5, <2>3, ListOfTwo DEF f
  <1>6. CASE name # "qer-rate-limit"
    <2>1. DOMAIN list = 1 .. 1
      BY <1>1, <1>6 DEF ShownBy
    <2> DEFINE f == Results(json)
    <2>2. f = [i \in 1 .. 1 |-> list[i].result]
      BY <1>3, <2>1
    <2> HIDE DEF f
    <2>3. f[1] = ResultOf(RulesOf(name)) /\ f = [i \in 1 .. 1 |-> f[i]]
      BY <1>4, <2>2
    <2> QED BY <1>6, <2>3, ListOfOne DEF f
  <1> QED BY <1>5, <1>6

\* The last decision printed, when there is one.
LEMMA LastPrinted ==
  ASSUME NEW name, name # "qer-rate-limit", NEW json, Prints(json, name)
  PROVE  LET lastOne == json.decisions[Len(json.decisions)]
         IN  /\ lastOne.selectedPdrId = {Pdr1(RulesOf(name)).id}
             /\ lastOne.candidates = Candidates(RulesOf(name), FirstPacket(name))
             /\ lastOne.observabilityDegraded = (name = "overload")
PROOF
  <1> DEFINE list == DecisionsOf(name)
  <1>1. ShownBy(list, name)
    BY DecisionsShow
  <1>2. json.decisions = [i \in DOMAIN list |-> DecisionJson(list[i])]
    BY DEF Prints
  <1> HIDE DEF list
  <1>3. DOMAIN list = 1 .. 1
    BY <1>1 DEF ShownBy
  <1>4. json.decisions = <<DecisionJson(list[1])>>
    <2> DEFINE f == json.decisions
               a == DecisionJson(list[1])
    <2>1. f = [i \in 1 .. 1 |-> DecisionJson(list[i])]
      BY <1>2, <1>3
    <2>2. f[1] = a /\ f = [i \in 1 .. 1 |-> f[i]]
      BY <2>1
    <2> HIDE DEF f, a
    <2>3. f = <<a>>
      BY <2>2, ListOfOne
    <2> QED BY <2>3 DEF f, a
  <1>5. json.decisions[Len(json.decisions)] = DecisionJson(list[1])
    BY <1>4
  <1>6. /\ list[1].selected = {Pdr1(RulesOf(name)).id}
        /\ list[1].candidates = Candidates(RulesOf(name), FirstPacket(name))
        /\ list[1].degraded = (name = "overload")
    BY <1>1 DEF ShownBy, Shows
  <1> QED BY <1>5, <1>6, PrintedOf

\* The packets in the sinks.
LEMMA SizedHasTunnel == \A id, bytes : "tunnel" \in DOMAIN Sized(id, bytes)
PROOF
  BY DEF Sized

\* The downlink packet has the field of the tunnel too.
LEMMA DownlinkHasTunnel == "tunnel" \in DOMAIN DownlinkPacket
PROOF
  <1> DEFINE field == "tunnel"
  <1>1. field \in DOMAIN UplinkPacket
    BY SizedHasTunnel DEF UplinkPacket
  <1> HIDE DEF field
  <1>2. field \in DOMAIN DownlinkPacket
    BY <1>1 DEF DownlinkPacket
  <1> QED BY <1>2 DEF field

\* A packet leaves with the tunnel its FAR asks for.
LEMMA LeavesWith ==
  ASSUME NEW far, NEW p, "tunnel" \in DOMAIN p, FarForwards(far, p)
  PROVE  FarPacket(far, p).tunnel = IF RemovesTunnel(far, p) THEN {} ELSE far.tunnel
PROOF
  BY DEF FarPacket

\* The uplink packet leaves on N6 without a tunnel.
LEMMA UplinkSent ==
  LET sink == SentOf(RulesOf("uplink-forward"), FirstPacket("uplink-forward"))["N6"]
  IN  Len(sink) = 1 /\ sink[1].tunnel = {}
PROOF
  <1> DEFINE p == UplinkPacket
             sink == SentOf(RulesOf("uplink-forward"), FirstPacket("uplink-forward"))["N6"]
  <1>1. FirstPacket("uplink-forward") = p /\ RulesOf("uplink-forward") = UplinkRules
    BY DEF FirstPacket, RulesOf
  <1>2. FarForwards(ToN6, p) /\ RemovesTunnel(ToN6, p) /\ FarDestination(ToN6) = "N6"
    BY UplinkTravels, AllNamed, FarsForward DEF UplinkPacket
  <1>3. "tunnel" \in DOMAIN p
    BY SizedHasTunnel DEF UplinkPacket
  <1>4. sink = <<FarPacket(ToN6, p)>>
    BY <1>1, <1>2, PdrLists DEF SentOf, NothingSent, Interface
  <1>5. FarPacket(ToN6, p).tunnel = {}
    BY <1>2, <1>3, LeavesWith
  <1> QED BY <1>4, <1>5

\* The downlink packet leaves on N3 through the tunnel of the FAR.
LEMMA DownlinkSent ==
  LET sink == SentOf(RulesOf("downlink-forward"), FirstPacket("downlink-forward"))["N3"]
  IN  Len(sink) = 1 /\ sink[1].tunnel = ToN3.tunnel
PROOF
  <1> DEFINE p == DownlinkPacket
             sink == SentOf(RulesOf("downlink-forward"), FirstPacket("downlink-forward"))["N3"]
  <1>1. FirstPacket("downlink-forward") = p /\ RulesOf("downlink-forward") = DownlinkRules
    BY DEF FirstPacket, RulesOf
  <1>2. FarForwards(ToN3, p) /\ ~ RemovesTunnel(ToN3, p) /\ FarDestination(ToN3) = "N3"
    BY DownlinkTravels, FarsForward
  <1>3. sink = <<FarPacket(ToN3, p)>>
    BY <1>1, <1>2, PdrLists DEF SentOf, NothingSent, Interface
  <1>4. FarPacket(ToN3, p).tunnel = ToN3.tunnel
    BY <1>2, DownlinkHasTunnel, LeavesWith
  <1> QED BY <1>3, <1>4

\* Both PDRs of "pdr-precedence" match its packet.
LEMMA BothMatch ==
  LET c == Candidates(PrecedenceRules, UplinkPacket) IN c[10] /\ c[11]
PROOF
  <1> DEFINE p == UplinkPacket
             rs == PrecedenceRules
  <1>1. Travels(p, "N3", {UeTunnel}, 1200)
    BY UplinkTravels, AllNamed DEF UplinkPacket
  <1>2. Matches(UplinkPdr, p) /\ Matches(LowerPriority, p)
    BY <1>1, ScenarioPdrs, TrafficMatches
  <1>3. rs.pdrs = <<UplinkPdr, LowerPriority>> /\ UplinkPdr.id = 10 /\ LowerPriority.id = 11
    BY PdrLists, PdrsMade
  <1> HIDE DEF p, rs
  <1>4. DOMAIN rs.pdrs = {1, 2} /\ rs.pdrs[1] = UplinkPdr /\ rs.pdrs[2] = LowerPriority
    BY <1>3
  <1>5. \A id : \A pdr \in FindRule(rs.pdrs, id) : Matches(pdr, p)
    BY <1>2, <1>4 DEF FindRule
  <1>6. 10 \in {rs.pdrs[i].id : i \in DOMAIN rs.pdrs} /\ 11 \in {rs.pdrs[i].id : i \in DOMAIN rs.pdrs}
    BY <1>3, <1>4
  <1> QED BY <1>5, <1>6 DEF Candidates, p, rs

\* What "urr-threshold" is named for.
LEMMA ReportShown ==
  ASSUME NEW json, NEW name, name = "urr-threshold", name \notin ControlScenarios,
         Len(json.usageReports) = 1, json.usageReports[1].payloadBytes = 10000
  PROVE  Demonstrates(name, json)
PROOF
  BY DEF Demonstrates

\* A scenario a pipeline decides shows what it is named for.
LEMMA DecidedDemonstrate ==
  ASSUME AtReturn(scenario), NEW json, Prints(json, scenario)
  PROVE  Demonstrates(scenario, json)
PROOF
  <1>1. scenario \in Decided /\ Settled(scenario)
    BY DEF AtReturn
  <1> DEFINE Others == {"uplink-forward", "downlink-forward", "pdr-precedence", "qer-rate-limit",
                        "urr-threshold", "overload"}
  <1>0. Others \cap ControlScenarios = {}
    BY DEF ControlScenarios
  <1>2. CASE scenario = "uplink-forward"
    <2>1. Results(json) = <<"FORWARDED_TO_N6">>
      BY <1>2, ResultsPrinted, ResultsOf
    <2>2. Len(json.n6Sink) = 1 /\ json.n6Sink[1].tunnel = {}
      BY <1>2, UplinkSent DEF Prints
    <2> QED BY <1>2, <1>0, <2>1, <2>2 DEF Demonstrates
  <1>3. CASE scenario = "downlink-forward"
    <2>1. Results(json) = <<"FORWARDED_TO_N3">>
      BY <1>3, ResultsPrinted, ResultsOf
    <2>2. Len(json.n3Sink) = 1 /\ json.n3Sink[1].tunnel = ToN3.tunnel
      BY <1>3, DownlinkSent DEF Prints
    <2> QED BY <1>3, <1>0, <2>1, <2>2 DEF Demonstrates
  <1>4. CASE scenario = "pdr-precedence"
    <2> DEFINE lastOne == json.decisions[Len(json.decisions)]
    <2>1. RulesOf(scenario) = PrecedenceRules /\ FirstPacket(scenario) = UplinkPacket
      BY <1>4 DEF RulesOf, FirstPacket
    <2>2. Pdr1(PrecedenceRules).id = 10
      BY PdrLists, PdrsMade DEF Pdr1
    <2>3. lastOne.selectedPdrId = {10} /\ lastOne.candidates[10] /\ lastOne.candidates[11]
      BY <1>4, <2>1, <2>2, LastPrinted, BothMatch
    <2> QED BY <1>4, <1>0, <2>3 DEF Demonstrates
  <1>5. CASE scenario = "qer-rate-limit"
    <2>1. Results(json) = <<"FORWARDED_TO_N6", "RATE_LIMITED">>
      BY <1>5, ResultsPrinted, ResultsOf
    <2>2. Urr1(UplinkRules).id = 40 /\ RulesOf(scenario) = UplinkRules
      BY <1>5, RulesMade DEF RulesOf, UplinkRules
    <2>3. runtime.urrs[40].packets = 1
      BY <2>2 DEF AtReturn
    <2> QED BY <1>5, <1>0, <2>1, <2>3 DEF Demonstrates
  <1>6. CASE scenario = "urr-threshold"
    <2>1. BytesOf(scenario) = 10000
      BY <1>6 DEF BytesOf
    <2>2. Len(json.usageReports) = 1 /\ json.usageReports[1].payloadBytes = 10000
      BY <2>1, ReportsPrinted DEF Prints
    <2> QED BY <1>6, <1>0, <2>2, ReportShown
  <1>7. CASE scenario \in ControlScenarios
    <2>1. status = Tried(TRUE, 2) /\ applied = {<<"update-3", 3>>}
      BY <1>1, <1>7 DEF Settled, Converged
    <2>2. status.attempts = 2
      BY <2>1 DEF Tried
    <2>3. scenario \notin {"downlink-forward", "qer-rate-limit"}
      BY <1>7 DEF ControlScenarios
    <2>4. Results(json) = <<"FORWARDED_TO_N6">>
      BY <2>3, ResultsPrinted, ResultsOf
    <2>5. json.state.convergence = "CONVERGED" /\ json.state.appliedVersion = {3}
      BY DEF Prints
    <2>6. scenario \notin {"uplink-forward", "downlink-forward", "pdr-precedence", "qer-rate-limit",
                           "urr-threshold", "overload", "queue-full", "shutdown"}
      BY <1>7 DEF ControlScenarios
    <2> QED BY <1>7, <2>1, <2>2, <2>4, <2>5, <2>6 DEF Demonstrates
  <1>8. CASE scenario = "overload"
    <2> DEFINE lastOne == json.decisions[Len(json.decisions)]
    <2>1. Results(json) = <<"FORWARDED_TO_N6">>
      BY <1>8, ResultsPrinted, ResultsOf
    <2>2. json.observabilityDegraded /\ json.droppedEventCount = 1
      <3>1. DroppedOf(scenario) = 1
        BY <1>8 DEF DroppedOf
      <3>2. (1 # 0) = TRUE
        OBVIOUS
      <3>3. json.observabilityDegraded = (1 # 0) /\ json.droppedEventCount = 1
        BY <3>1 DEF Prints
      <3> QED BY <3>2, <3>3
    <2>3. lastOne.observabilityDegraded
      BY <1>8, LastPrinted
    <2>4. scenario \notin ControlScenarios
      BY <1>8 DEF ControlScenarios
    <2> QED BY <1>8, <2>1, <2>2, <2>3, <2>4 DEF Demonstrates
  <1>9. \/ scenario \in {"uplink-forward", "downlink-forward", "pdr-precedence", "qer-rate-limit",
                         "urr-threshold", "overload"}
        \/ scenario \in ControlScenarios
    BY <1>1 DEF Decided, BuiltInScenarios, ClassifiedScenarios, ControlScenarios
  <1> QED BY <1>2, <1>3, <1>4, <1>5, <1>6, <1>7, <1>8, <1>9

\* So does one that no pipeline decides.
LEMMA ClassifiedDemonstrate ==
  ASSUME AtClassified(scenario)
  PROVE  LET json == RenderJson(Final)
         IN  Demonstrates(scenario, json) /\ IdsOf(json.usageReports) = reports
PROOF
  <1> DEFINE controlled == scenario \in ControlScenarios
             version == IF controlled THEN appliedVersion ELSE 3
             convergence == IF controlled /\ ~ status.converged THEN "DIVERGENT" ELSE "CONVERGED"
  <1>1. PICK time \in Garbage : result = Answered(<<Classified(scenario, time)>>)
    BY DEF AtClassified
  <1>2. sinks = NothingSent /\ reports = <<>> /\ scenario \in ClassifiedScenarios
    BY DEF AtClassified
  <1> DEFINE d == Classified(scenario, time)
  <1>3. Final = ResultWith(<<d>>, sinks["N3"], sinks["N6"], reports,
                           droppedEvents # 0, droppedEvents, version, convergence)
    BY <1>1 DEF Final, ResultWith, Answered
  <1>4. d.result = (IF scenario = "queue-full" THEN "PACKET_QUEUE_FULL" ELSE "SHUTDOWN_DEADLINE") /\ d.urr = {}
    BY DEF Classified
  <1> HIDE DEF d, version, convergence
  <1>5. PICK json : json = RenderJson(Final)
    OBVIOUS
  <1>6. Final.decisions = <<d>> /\ Final.n6Sink = <<>>
    <2>1. Final.decisions = <<d>> /\ Final.n6Sink = sinks["N6"]
      BY <1>3, ResultIs
    <2> QED BY <1>2, <2>1 DEF NothingSent, Interface
  <1>7. json.decisions = [i \in DOMAIN <<d>> |-> DecisionJson(<<d>>[i])]
        /\ json.usageReports = UsageReportsJson(<<d>>) /\ json.n6Sink = <<>>
    BY <1>5, <1>6, RenderedIs
  <1>8. Results(json) = <<d.result>>
    <2> DEFINE f == Results(json)
               a == d.result
    <2>1. json.decisions = [i \in 1 .. 1 |-> DecisionJson(d)]
      BY <1>7
    <2>2. f = [i \in 1 .. 1 |-> a]
      BY <2>1, PrintedOf DEF Results
    <2>3. f[1] = a /\ f = [i \in 1 .. 1 |-> f[i]]
      BY <2>2
    <2> HIDE DEF f, a
    <2>4. f = <<a>>
      BY <2>3, ListOfOne
    <2> QED BY <2>4 DEF f, a
  <1>9. Demonstrates(scenario, json)
    <2>1. scenario \in {"queue-full", "shutdown"} /\ scenario \notin ControlScenarios
      BY <1>2 DEF ClassifiedScenarios, ControlScenarios
    <2>2. CASE scenario = "queue-full"
      BY <1>4, <1>7, <1>8, <2>1, <2>2 DEF Demonstrates
    <2>3. CASE scenario = "shutdown"
      BY <1>4, <1>7, <1>8, <2>1, <2>3 DEF Demonstrates
    <2> QED BY <2>1, <2>2, <2>3
  <1>10. IdsOf(json.usageReports) = reports
    <2>1. \A i \in DOMAIN <<d>> : <<d>>[i].urr = {}
      BY <1>4
    <2>2. IdsOf(UsageReportsJson(<<d>>)) = <<>>
      BY <2>1, NoneReported
    <2> QED BY <1>2, <1>7, <2>2
  <1> QED BY <1>5, <1>9, <1>10

\* Each scenario shows the behaviour it is named for, and prints the usage
\* reports its pipeline made (ScenarioRunner::run, renderJson), whatever ran
\* in the process before it.
THEOREM ScenariosShow == ScenarioSpec => []ScenariosDemonstrate
PROOF
  <1>1. ASSUME RepeatInv
        PROVE  ScenariosDemonstrate
    <2> SUFFICES ASSUME Returning
                 PROVE  /\ Demonstrates(scenario, RenderJson(Final))
                        /\ IdsOf(RenderJson(Final).usageReports) = reports
      BY DEF ScenariosDemonstrate, IdsOf
    <2>1. AtReturn(scenario) \/ AtClassified(scenario)
      BY <1>1, OnlyReturns DEF RepeatInv
    <2>2. CASE AtReturn(scenario)
      <3>1. Final = FinalOf(scenario) /\ Prints(RenderJson(FinalOf(scenario)), scenario)
        BY <2>2, FinalIs, DecidedPrints
      <3>2. Demonstrates(scenario, RenderJson(Final))
        BY <2>2, <3>1, DecidedDemonstrate
      <3>3. IdsOf(RenderJson(Final).usageReports) = reports
        BY <2>2, <3>1, ReportsPrinted DEF Prints, AtReturn, Passed
      <3> QED BY <3>2, <3>3
    <2>3. CASE AtClassified(scenario)
      BY <2>3, ClassifiedDemonstrate
    <2> QED BY <2>1, <2>2, <2>3
  <1> QED BY <1>1, RepeatInvariant, PTL
=============================================================================
