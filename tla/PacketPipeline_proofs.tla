----------------------- MODULE PacketPipeline_proofs -----------------------
(***************************************************************************)
(* Proofs about the packet pipeline, for all rulesets, packets and limits  *)
(* of the declared types.  First the facts about one decision and one      *)
(* call; then an invariant per property, kept by install, by a refused     *)
(* packet and by a committed one; then the theorems.                       *)
(***************************************************************************)
EXTENDS PacketPipeline, Runtime_proofs, SequenceTheorems, FiniteSetTheorems

-----------------------------------------------------------------------------
(* Sequences and ranks.                                                    *)

IsSeq(s) == s \in Seq({s[i] : i \in DOMAIN s})

\* Appending to any sequence.
LEMMA Appended ==
  ASSUME NEW s, IsSeq(s), NEW e
  PROVE  /\ IsSeq(Append(s, e))
         /\ Len(s) \in Nat /\ DOMAIN s = 1 .. Len(s)
         /\ Len(Append(s, e)) = Len(s) + 1
         /\ DOMAIN Append(s, e) = 1 .. Len(s) + 1
         /\ \A i \in DOMAIN s : Append(s, e)[i] = s[i]
         /\ Append(s, e)[Len(s) + 1] = e
PROOF
  <1> DEFINE n == Len(s)
             T == {s[i] : i \in DOMAIN s} \cup {e}
  <1>1. n \in Nat /\ DOMAIN s = 1 .. n /\ s \in [1 .. n -> {s[i] : i \in DOMAIN s}]
    BY DEF IsSeq
  <1>2. s \in [1 .. n -> T]
    BY <1>1
  <1>3. s \in Seq(T) /\ e \in T
    BY <1>1, <1>2, SeqDef
  <1> HIDE DEF T
  <1>4. /\ Append(s, e) \in Seq(T)
        /\ Len(Append(s, e)) = n + 1
        /\ \A i \in 1 .. n : Append(s, e)[i] = s[i]
        /\ Append(s, e)[n + 1] = e
    BY <1>3, AppendProperties
  <1> DEFINE a == Append(s, e)
             U == {a[i] : i \in DOMAIN a}
  <1> HIDE DEF a
  <1>5. a \in [1 .. n + 1 -> T] /\ DOMAIN a = 1 .. n + 1
    <2>1. a \in Seq(T) /\ Len(a) = n + 1
      BY <1>4 DEF a
    <2> QED BY <2>1, LenProperties
  <1>6. a \in Seq(U)
    <2>1. a \in [1 .. n + 1 -> U] /\ n + 1 \in Nat
      BY <1>1, <1>5
    <2> HIDE DEF U
    <2> QED BY <2>1, SeqDef
  <1> QED BY <1>1, <1>4, <1>5, <1>6 DEF IsSeq, a

\* The empty sequence is one.
LEMMA EmptyIsSeq == IsSeq(<<>>) /\ Len(<<>>) = 0 /\ DOMAIN <<>> = {}
PROOF
  BY DEF IsSeq

\* A position has a rank among a set of them, and keeps it when one higher
\* than all is added.
LEMMA EarlierRank ==
  ASSUME NEW n \in Nat \ {0}, NEW S \in SUBSET (1 .. n - 1), NEW i \in S
  PROVE  Rank(S, i) \in 1 .. Cardinality(S) /\ Rank(S \cup {n}, i) = Rank(S, i)
PROOF
  <1> DEFINE L == {j \in S : j <= i}
  <1>1. IsFiniteSet(S)
    <2>1. IsFiniteSet(1 .. n - 1)
      BY FS_Interval
    <2> QED BY <2>1, FS_Subset
  <1>2. L \subseteq S /\ i \in L
    OBVIOUS
  <1>3. IsFiniteSet(L) /\ Cardinality(L) <= Cardinality(S) /\ Cardinality(L) \in Nat
    BY <1>1, <1>2, FS_Subset, FS_CardinalityType
  <1>4. Cardinality(L) # 0
    BY <1>2, <1>3, FS_EmptySet
  <1>5. Cardinality(S) \in Nat
    BY <1>1, FS_CardinalityType
  <1>6. {j \in S \cup {n} : j <= i} = L
    OBVIOUS
  <1> HIDE DEF L
  <1>7. Rank(S, i) = Cardinality(L) /\ Rank(S \cup {n}, i) = Cardinality(L)
    BY <1>6 DEF Rank, L
  <1> QED BY <1>3, <1>4, <1>5, <1>7

\* The position higher than all has the next rank.
LEMMA LastRank ==
  ASSUME NEW n \in Nat \ {0}, NEW S \in SUBSET (1 .. n - 1)
  PROVE  /\ IsFiniteSet(S) /\ Cardinality(S) \in Nat
         /\ n \notin S
         /\ Cardinality(S \cup {n}) = Cardinality(S) + 1
         /\ Rank(S \cup {n}, n) = Cardinality(S) + 1
PROOF
  <1>1. IsFiniteSet(S)
    <2>1. IsFiniteSet(1 .. n - 1)
      BY FS_Interval
    <2> QED BY <2>1, FS_Subset
  <1>2. Cardinality(S) \in Nat /\ n \notin S
    BY <1>1, FS_CardinalityType
  <1>3. Cardinality(S \cup {n}) = Cardinality(S) + 1
    BY <1>1, <1>2, FS_AddElement
  <1>4. {j \in S \cup {n} : j <= n} = S \cup {n}
    <2>1. \A j \in S \cup {n} : j <= n
      OBVIOUS
    <2> QED BY <2>1
  <1>5. Rank(S \cup {n}, n) = Cardinality(S) + 1
    BY <1>3, <1>4 DEF Rank
  <1> QED BY <1>1, <1>2, <1>3, <1>5

-----------------------------------------------------------------------------
(* Decisions.                                                              *)

\* The declared type of PacketDecision.
IsDecision(d) ==
  d \in [packet : {d.packet}, version : {d.version}, candidates : {d.candidates},
         selected : {d.selected}, qer : {d.qer}, far : {d.far}, urr : {d.urr},
         transformed : {d.transformed}, result : {d.result}, degraded : {d.degraded}]

\* Setting the result, or the degraded mark, leaves the other fields alone.
LEMMA ResultSet ==
  ASSUME NEW d, IsDecision(d), NEW v
  PROVE  /\ IsDecision(With(d, v)) /\ With(d, v).result = v
         /\ With(d, v).packet = d.packet /\ With(d, v).selected = d.selected
         /\ With(d, v).qer = d.qer /\ With(d, v).urr = d.urr
         /\ With(d, v).transformed = d.transformed /\ With(d, v).version = d.version
PROOF
  <1>1. ASSUME NEW e, e = With(d, v)
        PROVE  /\ IsDecision(e) /\ e.result = v
               /\ e.packet = d.packet /\ e.selected = d.selected /\ e.qer = d.qer
               /\ e.urr = d.urr /\ e.transformed = d.transformed /\ e.version = d.version
    BY <1>1 DEF IsDecision, With
  <1> QED BY <1>1

\* Marking a decision degraded, as retain does, changes nothing else of it.
LEMMA DegradedSet ==
  ASSUME NEW d, IsDecision(d), NEW v, NEW e, e = [d EXCEPT !.degraded = v]
  PROVE  /\ IsDecision(e) /\ e.degraded = v
         /\ e.packet = d.packet /\ e.selected = d.selected /\ e.qer = d.qer
         /\ e.urr = d.urr /\ e.transformed = d.transformed /\ e.result = d.result
         /\ e.version = d.version
PROOF
  BY DEF IsDecision

\* The version a decision starts with.
VersionOf(p) == Received(p).version

\* What the stages of process have written into the decision.
LEMMA DecisionStages ==
  ASSUME NEW p, NEW pdr
  PROVE  /\ LET d == Received(p) IN
              /\ IsDecision(d) /\ d.packet = p /\ d.version = VersionOf(p)
              /\ d.selected = {} /\ d.qer = {} /\ d.urr = {}
         /\ LET d == Matched(p) IN
              /\ IsDecision(d) /\ d.packet = p /\ d.version = VersionOf(p)
              /\ d.selected = {} /\ d.qer = {} /\ d.urr = {}
         /\ LET d == Selected(pdr, p) IN
              /\ IsDecision(d) /\ d.packet = p /\ d.version = VersionOf(p) /\ d.selected = {pdr.id}
              /\ d.qer = QerDecisions(pdr, p) /\ d.urr = {}
         /\ LET d == Planned(pdr, p) IN
              /\ IsDecision(d) /\ d.packet = p /\ d.version = VersionOf(p) /\ d.selected = {pdr.id}
              /\ d.qer = QerDecisions(pdr, p)
              /\ FarValid(FarOf(pdr), p) => d.urr = UrrDecisions(pdr, p)
         /\ LET d == Forwarded(pdr, p) IN
              /\ IsDecision(d) /\ d.packet = p /\ d.version = VersionOf(p) /\ d.selected = {pdr.id}
              /\ d.qer = QerDecisions(pdr, p)
              /\ FarValid(FarOf(pdr), p) => d.urr = UrrDecisions(pdr, p)
              /\ d.transformed = {FarPacket(FarOf(pdr), p)}
              /\ d.result = IF FarDestination(FarOf(pdr)) = "N3"
                            THEN "FORWARDED_TO_N3" ELSE "FORWARDED_TO_N6"
PROOF
  <1>1. ASSUME NEW d, d = Received(p)
        PROVE  /\ IsDecision(d) /\ d.packet = p /\ d.version = VersionOf(p)
               /\ d.selected = {} /\ d.qer = {} /\ d.urr = {}
    BY <1>1 DEF IsDecision, Received, VersionOf
  <1>2. ASSUME NEW d, d = Matched(p)
        PROVE  /\ IsDecision(d) /\ d.packet = p /\ d.version = VersionOf(p)
               /\ d.selected = {} /\ d.qer = {} /\ d.urr = {}
    <2> DEFINE r == Received(p)
    <2>1. IsDecision(r) /\ r.packet = p /\ r.version = VersionOf(p) /\ r.selected = {} /\ r.qer = {} /\ r.urr = {}
      BY <1>1
    <2>2. d = [r EXCEPT !.candidates = Candidates(Active, p)]
      BY <1>2 DEF Matched
    <2> HIDE DEF r
    <2> QED BY <2>1, <2>2 DEF IsDecision
  <1>3. ASSUME NEW d, d = Selected(pdr, p)
        PROVE  /\ IsDecision(d) /\ d.packet = p /\ d.version = VersionOf(p) /\ d.selected = {pdr.id}
               /\ d.qer = QerDecisions(pdr, p) /\ d.urr = {}
    <2> DEFINE r == Matched(p)
    <2>1. IsDecision(r) /\ r.packet = p /\ r.version = VersionOf(p) /\ r.selected = {} /\ r.qer = {} /\ r.urr = {}
      BY <1>2
    <2>2. d = [r EXCEPT !.selected = {pdr.id}, !.qer = QerDecisions(pdr, p)]
      BY <1>3 DEF Selected
    <2> HIDE DEF r
    <2> QED BY <2>1, <2>2 DEF IsDecision
  <1>4. ASSUME NEW d, d = Planned(pdr, p)
        PROVE  /\ IsDecision(d) /\ d.packet = p /\ d.version = VersionOf(p) /\ d.selected = {pdr.id}
               /\ d.qer = QerDecisions(pdr, p)
               /\ FarValid(FarOf(pdr), p) => d.urr = UrrDecisions(pdr, p)
    <2> DEFINE r == Selected(pdr, p)
    <2>1. /\ IsDecision(r) /\ r.packet = p /\ r.version = VersionOf(p) /\ r.selected = {pdr.id}
          /\ r.qer = QerDecisions(pdr, p)
      BY <1>3
    <2>2. d = IF FarValid(FarOf(pdr), p)
              THEN [r EXCEPT !.far = FarDecisions(pdr, p), !.urr = UrrDecisions(pdr, p)]
              ELSE r
      BY <1>4 DEF Planned
    <2> HIDE DEF r
    <2> QED BY <2>1, <2>2 DEF IsDecision
  <1>5. ASSUME NEW d, d = Forwarded(pdr, p)
        PROVE  /\ IsDecision(d) /\ d.packet = p /\ d.version = VersionOf(p) /\ d.selected = {pdr.id}
               /\ d.qer = QerDecisions(pdr, p)
               /\ FarValid(FarOf(pdr), p) => d.urr = UrrDecisions(pdr, p)
               /\ d.transformed = {FarPacket(FarOf(pdr), p)}
               /\ d.result = IF FarDestination(FarOf(pdr)) = "N3"
                             THEN "FORWARDED_TO_N3" ELSE "FORWARDED_TO_N6"
    <2> DEFINE r == Planned(pdr, p)
               to == IF FarDestination(FarOf(pdr)) = "N3"
                     THEN "FORWARDED_TO_N3" ELSE "FORWARDED_TO_N6"
    <2>1. /\ IsDecision(r) /\ r.packet = p /\ r.version = VersionOf(p) /\ r.selected = {pdr.id}
          /\ r.qer = QerDecisions(pdr, p)
          /\ FarValid(FarOf(pdr), p) => r.urr = UrrDecisions(pdr, p)
      BY <1>4
    <2>2. d = [r EXCEPT !.transformed = {FarPacket(FarOf(pdr), p)}, !.result = to]
      BY <1>5 DEF Forwarded
    <2> HIDE DEF r, to
    <2>3. /\ IsDecision(d) /\ d.packet = p /\ d.version = VersionOf(p)
          /\ d.selected = {pdr.id} /\ d.urr = r.urr
          /\ d.qer = r.qer /\ d.transformed = {FarPacket(FarOf(pdr), p)} /\ d.result = to
      BY <2>1, <2>2 DEF IsDecision
    <2> QED BY <2>1, <2>3 DEF to
  <1> QED BY <1>1, <1>2, <1>3, <1>4, <1>5

\* The decisions process retains without a forwarded packet.
LEMMA EarlyRefusals ==
  ASSUME NEW p, NEW r
  PROVE  /\ LET d == With(Received(p), r) IN
              IsDecision(d) /\ d.packet = p /\ d.selected = {} /\ d.result = r
         /\ LET d == With(Matched(p), r) IN
              IsDecision(d) /\ d.packet = p /\ d.selected = {} /\ d.result = r
PROOF
  <1>1. /\ IsDecision(Received(p)) /\ Received(p).packet = p /\ Received(p).selected = {}
        /\ IsDecision(Matched(p)) /\ Matched(p).packet = p /\ Matched(p).selected = {}
    BY DecisionStages
  <1> QED BY <1>1, ResultSet

\* A packet refused by its QER or by its plan keeps what the stages before
\* the refusal wrote into the decision.
LEMMA LateResults ==
  ASSUME NEW p, NEW pdr, NEW r
  PROVE  /\ LET d == With(Selected(pdr, p), r) IN
              /\ IsDecision(d) /\ d.packet = p /\ d.version = VersionOf(p) /\ d.result = r
              /\ d.qer = QerDecisions(pdr, p)
         /\ LET d == With(Planned(pdr, p), r) IN
              /\ IsDecision(d) /\ d.packet = p /\ d.version = VersionOf(p) /\ d.result = r
              /\ d.qer = QerDecisions(pdr, p)
              /\ FarValid(FarOf(pdr), p) => d.urr = UrrDecisions(pdr, p)
PROOF
  <1>1. /\ IsDecision(Selected(pdr, p)) /\ Selected(pdr, p).packet = p
        /\ Selected(pdr, p).version = VersionOf(p)
        /\ Selected(pdr, p).qer = QerDecisions(pdr, p)
        /\ IsDecision(Planned(pdr, p)) /\ Planned(pdr, p).packet = p
        /\ Planned(pdr, p).version = VersionOf(p)
        /\ Planned(pdr, p).qer = QerDecisions(pdr, p)
        /\ FarValid(FarOf(pdr), p) => Planned(pdr, p).urr = UrrDecisions(pdr, p)
    BY DecisionStages
  <1> QED BY <1>1, ResultSet

\* What retain makes of the history.
LEMMA Retained ==
  ASSUME IsSeq(decisions), IsSeq(events), NEW d, IsDecision(d), Retain(d)
  PROVE  LET n == Len(decisions) + 1 IN
         /\ IsSeq(decisions') /\ IsSeq(events')
         /\ n \in Nat /\ n \notin DOMAIN decisions
         /\ DOMAIN decisions = 1 .. n - 1 /\ DOMAIN decisions' = 1 .. n
         /\ Len(decisions') = n
         /\ \A i \in DOMAIN decisions : decisions'[i] = decisions[i]
         /\ decisions'[n].packet = d.packet /\ decisions'[n].selected = d.selected
         /\ decisions'[n].qer = d.qer /\ decisions'[n].urr = d.urr
         /\ decisions'[n].transformed = d.transformed /\ decisions'[n].version = d.version
         /\ decisions'[n].result = d.result
         /\ decisions'[n].degraded = ~ (Len(events) < limits.events)
         /\ returned' = {d.result}
PROOF
  <1> DEFINE n == Len(decisions) + 1
             final == [d EXCEPT !.degraded = ~ (Len(events) < limits.events)]
  <1>1. /\ IsDecision(final) /\ final.degraded = ~ (Len(events) < limits.events)
        /\ final.packet = d.packet /\ final.selected = d.selected /\ final.qer = d.qer
        /\ final.urr = d.urr /\ final.transformed = d.transformed /\ final.result = d.result
        /\ final.version = d.version
    BY DegradedSet
  <1>2. /\ decisions' = Append(decisions, final)
        /\ returned' = {final.result}
        /\ events' = IF Len(events) < limits.events THEN Append(events, d.result) ELSE events
    BY DEF Retain
  <1> HIDE DEF final
  <1>3. /\ IsSeq(Append(decisions, final))
        /\ Len(decisions) \in Nat /\ DOMAIN decisions = 1 .. Len(decisions)
        /\ Len(Append(decisions, final)) = Len(decisions) + 1
        /\ DOMAIN Append(decisions, final) = 1 .. Len(decisions) + 1
        /\ \A i \in DOMAIN decisions : Append(decisions, final)[i] = decisions[i]
        /\ Append(decisions, final)[n] = final
    BY Appended
  <1>4. IsSeq(events')
    BY <1>2, Appended
  <1>5. n \in Nat /\ n \notin DOMAIN decisions /\ DOMAIN decisions = 1 .. n - 1
    BY <1>3
  <1>6. /\ IsSeq(decisions') /\ Len(decisions') = n /\ DOMAIN decisions' = 1 .. n
        /\ \A i \in DOMAIN decisions : decisions'[i] = decisions[i]
        /\ decisions'[n] = final
    BY <1>2, <1>3
  <1> HIDE DEF n
  <1>7. /\ decisions'[n].packet = d.packet /\ decisions'[n].selected = d.selected
        /\ decisions'[n].qer = d.qer /\ decisions'[n].urr = d.urr
        /\ decisions'[n].transformed = d.transformed /\ decisions'[n].version = d.version
        /\ decisions'[n].result = d.result
        /\ decisions'[n].degraded = ~ (Len(events) < limits.events)
        /\ returned' = {d.result}
    BY <1>1, <1>2, <1>6
  <1> QED BY <1>4, <1>5, <1>6, <1>7 DEF n

-----------------------------------------------------------------------------
(* The state every other argument starts from.                             *)

CoreInv ==
  /\ limits \in Limits
  /\ rules \in Optional(RuleSets)
  /\ rules = {} => runtime = NoRuntime
  /\ WellTypedRuntime(runtime)
  /\ \A rs \in rules : ValidateRuleSet(rs) /\ RuntimeOf(runtime, rs)
  /\ IsSeq(decisions) /\ IsSeq(events) /\ IsSeq(reports)
  /\ sinks \in [Interface -> {sinks[i] : i \in Interface}]
  /\ \A i \in Interface : IsSeq(sinks[i])

\* The limits are sizes, and the active ruleset is one of the declared type.
LEMMA CoreFacts ==
  ASSUME CoreInv
  PROVE  /\ limits.results \in UInt64 /\ limits.reports \in UInt64
         /\ limits.events \in UInt64 /\ limits.sinkPackets \in UInt64
         /\ \A rs \in rules : /\ rules = {rs} /\ Active = rs
                              /\ rs \in RuleSets /\ WellTypedRuleSet(rs)
                              /\ ValidateRuleSet(rs) /\ RuntimeOf(runtime, rs)
PROOF
  <1>1. /\ limits.results \in UInt64 /\ limits.reports \in UInt64
        /\ limits.events \in UInt64 /\ limits.sinkPackets \in UInt64
    <2>1. limits \in [results : UInt64, reports : UInt64, events : UInt64, sinkPackets : UInt64]
      BY LimitsAssumption DEF CoreInv
    <2> QED BY <2>1
  <1>2. ASSUME NEW rs \in rules
        PROVE  /\ rules = {rs} /\ Active = rs
               /\ rs \in RuleSets /\ WellTypedRuleSet(rs)
    <2>1. rules = {rs} /\ rs \in RuleSets
      BY DEF CoreInv, Optional
    <2> QED BY <2>1, ValueOfSingleton, RuleSetsAssumption DEF Active
  <1> QED BY <1>1, <1>2 DEF CoreInv

\* The rules a selected PDR refers to: its FAR fits the packet, and a QER or
\* URR it names is found, is the only one, and has a bucket or counter.
LEMMA SelectedRules ==
  ASSUME CoreInv, NEW p \in Packets, Acceptable(p), NEW pdr \in Winner(Active, p)
  PROVE  \E rs \in rules :
           /\ \E i \in DOMAIN rs.fars : FarOf(pdr) = rs.fars[i]
           /\ FarFits(pdr, FarOf(pdr)) /\ WellTypedFar(FarOf(pdr))
           /\ pdr.sourceInterface = p.ingress /\ p.ingress \in Interface
           /\ \/ QersOf(pdr) = {}
              \/ \E q : /\ QersOf(pdr) = {q} /\ q = RuleOf(rs.qers, q.id)
                        /\ q.id \in DOMAIN runtime.qers /\ WellTypedQer(q)
           /\ \/ UrrsOf(pdr) = {}
              \/ \E u : /\ UrrsOf(pdr) = {u} /\ u = RuleOf(rs.urrs, u.id)
                        /\ u.id \in DOMAIN runtime.urrs /\ WellTypedUrr(u)
PROOF
  <1>1. PICK rs \in rules : TRUE
    BY DEF Acceptable, HasValue
  <1>2. /\ rules = {rs} /\ Active = rs /\ WellTypedRuleSet(rs) /\ ValidateRuleSet(rs)
        /\ RuntimeOf(runtime, rs)
    BY CoreFacts
  <1>3. PICK k \in DOMAIN rs.pdrs : pdr = rs.pdrs[k] /\ Matches(pdr, p)
    BY <1>2 DEF Winner
  <1>4. PdrValid(rs, pdr) /\ WellTypedPdr(pdr)
    BY <1>2, <1>3 DEF ValidateRuleSet, WellTypedRuleSet
  <1>5. pdr.sourceInterface = p.ingress /\ p.ingress \in Interface
    BY <1>3, PacketsAssumption DEF Matches, Criteria, WellTypedPacket
  <1>6. /\ UniqueIds(rs.fars) /\ UniqueIds(rs.qers) /\ UniqueIds(rs.urrs)
        /\ IsVector(rs.fars) /\ IsVector(rs.qers) /\ IsVector(rs.urrs)
    BY <1>2, ValidListsAreUnique DEF WellTypedRuleSet
  <1>7. /\ \E i \in DOMAIN rs.fars : FarOf(pdr) = rs.fars[i]
        /\ FarFits(pdr, FarOf(pdr)) /\ WellTypedFar(FarOf(pdr))
    <2>1. PICK far \in FindRule(rs.fars, pdr.farId) : FarFits(pdr, far)
      BY <1>4 DEF PdrValid
    <2>2. pdr.farId \in Ids(rs.fars)
      BY <2>1, FoundIsListed
    <2>3. /\ FindRule(rs.fars, pdr.farId) = {FarOf(pdr)}
          /\ \E i \in DOMAIN rs.fars : FarOf(pdr) = rs.fars[i]
      BY <1>2, <1>6, <2>2, RuleOfId DEF FarOf
    <2> QED BY <1>2, <2>1, <2>3 DEF WellTypedRuleSet
  <1>8. \/ QersOf(pdr) = {}
        \/ \E q : /\ QersOf(pdr) = {q} /\ q = RuleOf(rs.qers, q.id)
                  /\ q.id \in DOMAIN runtime.qers /\ WellTypedQer(q)
    <2>1. CASE pdr.qerId = {}
      BY <2>1 DEF QersOf
    <2>2. CASE pdr.qerId # {}
      <3>1. PICK id : pdr.qerId = {id}
        BY <1>4, <2>2 DEF WellTypedPdr, AtMostOne
      <3>2. id \in Ids(rs.qers)
        <4>1. FindRule(rs.qers, id) # {}
          BY <1>4, <3>1 DEF PdrValid
        <4> QED BY <4>1, FoundIsListed
      <3> DEFINE q == RuleOf(rs.qers, id)
      <3>3. /\ FindRule(rs.qers, id) = {q} /\ q.id = id
            /\ \E i \in DOMAIN rs.qers : q = rs.qers[i]
        BY <1>6, <3>2, RuleOfId
      <3>4. QersOf(pdr) = {q}
        BY <1>2, <3>1, <3>3 DEF QersOf
      <3>5. q.id \in DOMAIN runtime.qers /\ WellTypedQer(q)
        BY <1>2, <3>2, <3>3 DEF RuntimeOf, WellTypedRuleSet
      <3> QED BY <3>3, <3>4, <3>5
    <2> QED BY <2>1, <2>2
  <1>9. \/ UrrsOf(pdr) = {}
        \/ \E u : /\ UrrsOf(pdr) = {u} /\ u = RuleOf(rs.urrs, u.id)
                  /\ u.id \in DOMAIN runtime.urrs /\ WellTypedUrr(u)
    <2>1. CASE pdr.urrId = {}
      BY <2>1 DEF UrrsOf
    <2>2. CASE pdr.urrId # {}
      <3>1. PICK id : pdr.urrId = {id}
        BY <1>4, <2>2 DEF WellTypedPdr, AtMostOne
      <3>2. id \in Ids(rs.urrs)
        <4>1. FindRule(rs.urrs, id) # {}
          BY <1>4, <3>1 DEF PdrValid
        <4> QED BY <4>1, FoundIsListed
      <3> DEFINE u == RuleOf(rs.urrs, id)
      <3>3. /\ FindRule(rs.urrs, id) = {u} /\ u.id = id
            /\ \E i \in DOMAIN rs.urrs : u = rs.urrs[i]
        BY <1>6, <3>2, RuleOfId
      <3>4. UrrsOf(pdr) = {u}
        BY <1>2, <3>1, <3>3 DEF UrrsOf
      <3>5. u.id \in DOMAIN runtime.urrs /\ WellTypedUrr(u)
        BY <1>2, <3>2, <3>3 DEF RuntimeOf, WellTypedRuleSet
      <3> QED BY <3>3, <3>4, <3>5
    <2> QED BY <2>1, <2>2
  <1> QED BY <1>1, <1>5, <1>7, <1>8, <1>9

\* What a FAR that fits its PDR does with a packet the PDR matched: it is
\* valid, and forwards to the other side with a tunnel to N3 and without one
\* to N6.
LEMMA FittingFar ==
  ASSUME NEW p \in Packets, NEW pdr, NEW far, FarFits(pdr, far), WellTypedFar(far),
         pdr.sourceInterface = p.ingress
  PROVE  /\ FarValid(far, p)
         /\ FarForwards(far, p) <=> far.action # "DROP"
         /\ far.action # "DROP" =>
              /\ FarDestination(far) \in Interface /\ FarDestination(far) # p.ingress
              /\ FarPacket(far, p) = [p EXCEPT !.tunnel = FarPacket(far, p).tunnel]
              /\ FarDestination(far) = "N3" =>
                   /\ FarPacket(far, p).tunnel = far.tunnel
                   /\ \E tunnel \in FarPacket(far, p).tunnel : TunnelValid(tunnel)
              /\ FarDestination(far) = "N6" => FarPacket(far, p).tunnel = {}
PROOF
  <1>1. WellTypedPacket(p)
    BY PacketsAssumption
  <1>2. CASE far.action = "DROP"
    BY <1>2 DEF FarFits, FarValid, FarForwards
  <1>3. CASE far.action = "FORWARD" /\ p.ingress = "N3"
    <2>1. far.destination = {"N6"} /\ far.operation = "REMOVE"
      BY <1>3 DEF FarFits
    <2>2. RemovesTunnel(far, p) /\ FarForwards(far, p) /\ FarValid(far, p)
      BY <1>3, <2>1 DEF RemovesTunnel, FarForwards, FarValid
    <2>3. FarDestination(far) = "N6"
      BY <1>3, <2>1, ValueOfSingleton DEF FarDestination, HasValue
    <2>4. FarPacket(far, p) = [p EXCEPT !.tunnel = {}]
      BY <2>2 DEF FarPacket
    <2>5. [p EXCEPT !.tunnel = {}].tunnel = {}
      BY <1>1 DEF WellTypedPacket
    <2> QED BY <1>3, <2>2, <2>3, <2>4, <2>5 DEF Interface
  <1>4. CASE far.action = "FORWARD" /\ p.ingress # "N3"
    <2>1. /\ p.ingress = "N6" /\ far.destination = {"N3"} /\ far.operation = "ADD"
          /\ \E tunnel \in far.tunnel : TunnelValid(tunnel)
      BY <1>4 DEF FarFits
    <2>2. /\ AddsTunnel(far, p) /\ ~ RemovesTunnel(far, p)
          /\ FarForwards(far, p) /\ FarValid(far, p)
      BY <1>4, <2>1 DEF AddsTunnel, RemovesTunnel, FarForwards, FarValid, HasValue
    <2>3. FarDestination(far) = "N3"
      BY <1>4, <2>1, ValueOfSingleton DEF FarDestination, HasValue
    <2>4. FarPacket(far, p) = [p EXCEPT !.tunnel = far.tunnel]
      BY <2>2 DEF FarPacket
    <2>5. [p EXCEPT !.tunnel = far.tunnel].tunnel = far.tunnel
      BY <1>1 DEF WellTypedPacket
    <2> QED BY <1>4, <2>1, <2>2, <2>3, <2>4, <2>5 DEF Interface
  <1> QED BY <1>2, <1>3, <1>4 DEF WellTypedFar, FarAction

\* The buckets a packet leaves behind: typed, changed for its own QER only,
\* filled up to the burst at most, and never emptier when it was rate limited.
LEMMA Charged ==
  ASSUME CoreInv, NEW p \in Packets, Acceptable(p), NEW pdr \in Winner(Active, p)
  PROVE  LET c == ChargedQers(pdr, p) IN
         /\ c \in [DOMAIN c -> TokenBucketState] /\ DOMAIN c = DOMAIN runtime.qers
         /\ QerFailures(pdr, p) \subseteq {"GATE_CLOSED", "ARITHMETIC_ERROR", "RATE_LIMITED"}
         /\ \A rs \in rules, id \in DOMAIN runtime.qers :
              /\ \/ c[id] = runtime.qers[id]
                 \/ \E d \in QerDecisions(pdr, p) : d.qerId = id
              /\ \/ c[id].tokensBytes <= RuleOf(rs.qers, id).burstBytes
                 \/ c[id].tokensBytes <= runtime.qers[id].tokensBytes
              /\ "RATE_LIMITED" \in QerFailures(pdr, p) =>
                   c[id].tokensBytes >= runtime.qers[id].tokensBytes
PROOF
  <1> DEFINE c == ChargedQers(pdr, p)
             bytes == p.payloadBytes
             now == p.arrivalTimeMicros
  <1>1. bytes \in UInt64 /\ now \in UInt64
    BY PacketsAssumption DEF WellTypedPacket
  <1>2. \A id \in DOMAIN runtime.qers : runtime.qers[id] \in TokenBucketState
    BY DEF CoreInv, WellTypedRuntime
  <1>3. \A b \in TokenBucketState : b.tokensBytes \in Nat
    BY UInt64MaxAssumption DEF TokenBucketState, UInt64
  <1>4. PICK rs \in rules :
           \/ QersOf(pdr) = {}
           \/ \E q : /\ QersOf(pdr) = {q} /\ q = RuleOf(rs.qers, q.id)
                     /\ q.id \in DOMAIN runtime.qers /\ WellTypedQer(q)
    BY SelectedRules
  <1>5. rules = {rs} /\ Active = rs
    BY CoreFacts
  <1>6. CASE QersOf(pdr) = {}
    <2>1. QerDecisions(pdr, p) = {} /\ QerFailures(pdr, p) = {}
      BY <1>6 DEF QerDecisions, QerFailures
    <2>2. c = [id \in DOMAIN runtime.qers |-> runtime.qers[id]]
      BY <1>6 DEF ChargedQers
    <2>3. \A id \in DOMAIN runtime.qers :
            /\ c[id] = runtime.qers[id]
            /\ runtime.qers[id].tokensBytes \in Nat
      BY <1>2, <1>3, <2>2
    <2> QED BY <1>2, <2>1, <2>2, <2>3
  <1>7. CASE QersOf(pdr) # {}
    <2>1. PICK q : /\ QersOf(pdr) = {q} /\ q = RuleOf(rs.qers, q.id)
                   /\ q.id \in DOMAIN runtime.qers /\ WellTypedQer(q)
      BY <1>4, <1>7
    <2> DEFINE b == runtime.qers[q.id]
               d == QerDecision(q, b, bytes, now)
    <2>2. b \in TokenBucketState
      BY <1>2, <2>1
    <2>3. /\ QerNext(q, b, bytes, now) \in TokenBucketState
          /\ \/ QerNext(q, b, bytes, now).tokensBytes <= q.burstBytes
             \/ QerNext(q, b, bytes, now).tokensBytes <= b.tokensBytes
          /\ QerOutcome(q, b, bytes, now) # "ALLOW" =>
               b.tokensBytes <= QerNext(q, b, bytes, now).tokensBytes
      BY <1>1, <2>1, <2>2, QerNextInRange
    <2>4. QerDecisions(pdr, p) = {d}
      BY <2>1 DEF QerDecisions
    <2>5. d.qerId = q.id /\ d.outcome = QerOutcome(q, b, bytes, now)
      BY DEF QerDecision
    <2>6. QerFailures(pdr, p) = {QerOutcome(q, b, bytes, now)} \ {"ALLOW"}
      BY <2>4, <2>5 DEF QerFailures
    <2>7. /\ c[q.id] = QerNext(q, b, bytes, now)
          /\ \A id \in DOMAIN runtime.qers : id # q.id => c[id] = runtime.qers[id]
          /\ DOMAIN c = DOMAIN runtime.qers
      BY <1>5, <2>1 DEF ChargedQers
    <2>8. \A id \in DOMAIN runtime.qers : c[id] \in TokenBucketState
      BY <1>2, <2>3, <2>7
    <2>9. c \in [DOMAIN c -> TokenBucketState]
      <3>1. c = [id \in DOMAIN runtime.qers |-> c[id]]
        BY DEF ChargedQers
      <3> HIDE DEF c
      <3> QED BY <2>7, <2>8, <3>1
    <2> HIDE DEF c, b, d
    <2>10. ASSUME NEW id \in DOMAIN runtime.qers
           PROVE  /\ c[id] = runtime.qers[id] \/ \E x \in QerDecisions(pdr, p) : x.qerId = id
                  /\ \/ c[id].tokensBytes <= RuleOf(rs.qers, id).burstBytes
                     \/ c[id].tokensBytes <= runtime.qers[id].tokensBytes
                  /\ "RATE_LIMITED" \in QerFailures(pdr, p) =>
                       c[id].tokensBytes >= runtime.qers[id].tokensBytes
      <3>1. runtime.qers[id].tokensBytes \in Nat
        BY <1>2, <1>3
      <3>2. CASE id # q.id
        BY <2>7, <3>1, <3>2
      <3>3. CASE id = q.id
        <4>1. c[id] = QerNext(q, b, bytes, now) /\ runtime.qers[id] = b
              /\ q = RuleOf(rs.qers, id)
          BY <2>1, <2>7, <3>3 DEF b
        <4>2. c[id].tokensBytes \in Nat /\ b.tokensBytes \in Nat
          BY <1>3, <2>8, <2>2
        <4> QED BY <2>3, <2>4, <2>5, <2>6, <3>3, <4>1, <4>2
      <3> QED BY <3>2, <3>3
    <2> QED BY <1>5, <2>6, <2>7, <2>9, <2>10, QerOutcomes DEF c
  <1> QED BY <1>6, <1>7

\* The counters a committed packet leaves behind: none changes when its PDR
\* has no URR, and only that of its URR otherwise.
LEMMA Counted ==
  ASSUME CoreInv, NEW p \in Packets, Acceptable(p), NEW pdr \in Winner(Active, p),
         PlanFailures(pdr, p) = {}
  PROVE  LET c == CountedUrrs(pdr, p) IN
         /\ c \in [DOMAIN c -> UsageCounterState] /\ DOMAIN c = DOMAIN runtime.urrs
         /\ \/ /\ UrrsOf(pdr) = {} /\ UrrDecisions(pdr, p) = {}
               /\ NewReports(pdr, p) = {} /\ c = runtime.urrs
            \/ \E rs \in rules, u \in UrrsOf(pdr) :
                 LET usage == runtime.urrs[u.id] IN
                 /\ u = RuleOf(rs.urrs, u.id) /\ WellTypedUrr(u)
                 /\ u.id \in DOMAIN runtime.urrs /\ usage \in UsageCounterState
                 /\ ~ UrrOverflows(usage, p.payloadBytes)
                 /\ UrrDecisions(pdr, p) =
                      {UrrDecision(u, usage, p.payloadBytes, rs.sessionId, rs.version)}
                 /\ NewReports(pdr, p) = IF UrrReports(u, usage, p.payloadBytes)
                                         THEN {ReportId(u, rs.sessionId, rs.version)} ELSE {}
                 /\ c[u.id] = UrrNext(u, usage, p.payloadBytes)
                 /\ \A id \in DOMAIN runtime.urrs : id # u.id => c[id] = runtime.urrs[id]
PROOF
  <1> DEFINE c == CountedUrrs(pdr, p)
             bytes == p.payloadBytes
  <1>1. bytes \in UInt64
    BY PacketsAssumption DEF WellTypedPacket
  <1>2. \A id \in DOMAIN runtime.urrs : runtime.urrs[id] \in UsageCounterState
    BY DEF CoreInv, WellTypedRuntime
  <1>3. PICK rs \in rules :
           \/ UrrsOf(pdr) = {}
           \/ \E u : /\ UrrsOf(pdr) = {u} /\ u = RuleOf(rs.urrs, u.id)
                     /\ u.id \in DOMAIN runtime.urrs /\ WellTypedUrr(u)
    BY SelectedRules
  <1>4. rules = {rs} /\ Active = rs
    BY CoreFacts
  <1>5. c = [id \in DOMAIN runtime.urrs |->
               IF \E u \in UrrsOf(pdr) : u.id = id
               THEN UrrNext(RuleOf(rs.urrs, id), runtime.urrs[id], bytes)
               ELSE runtime.urrs[id]]
    BY <1>4 DEF CountedUrrs
  <1>6. CASE UrrsOf(pdr) = {}
    <2>1. UrrDecisions(pdr, p) = {} /\ NewReports(pdr, p) = {}
      BY <1>6 DEF UrrDecisions, NewReports
    <2>2. c = runtime.urrs
      BY <1>5, <1>6 DEF CoreInv, WellTypedRuntime
    <2>3. runtime.urrs \in [DOMAIN runtime.urrs -> UsageCounterState]
      BY DEF CoreInv, WellTypedRuntime
    <2> QED BY <1>6, <2>1, <2>2, <2>3
  <1>7. CASE UrrsOf(pdr) # {}
    <2>1. PICK u : /\ UrrsOf(pdr) = {u} /\ u = RuleOf(rs.urrs, u.id)
                   /\ u.id \in DOMAIN runtime.urrs /\ WellTypedUrr(u)
      BY <1>3, <1>7
    <2> DEFINE usage == runtime.urrs[u.id]
               d == UrrDecision(u, usage, bytes, rs.sessionId, rs.version)
    <2>2. usage \in UsageCounterState
      BY <1>2, <2>1
    <2>3. ~ UrrOverflows(usage, bytes)
      BY <2>1 DEF PlanFailures
    <2>4. UrrDecisions(pdr, p) = {d}
      BY <1>4, <2>1 DEF UrrDecisions
    <2>5. d.reportId = IF UrrReports(u, usage, bytes)
                       THEN {ReportId(u, rs.sessionId, rs.version)} ELSE {}
      BY DEF UrrDecision
    <2>6. NewReports(pdr, p) = d.reportId
      <3> HIDE DEF d
      <3> QED BY <2>4 DEF NewReports
    <2>7. /\ c[u.id] = UrrNext(u, usage, bytes)
          /\ \A id \in DOMAIN runtime.urrs : id # u.id => c[id] = runtime.urrs[id]
          /\ DOMAIN c = DOMAIN runtime.urrs
      BY <1>5, <2>1
    <2>8. c[u.id] \in UsageCounterState
      BY <1>1, <2>2, <2>7, UrrNextInRange
    <2>9. c \in [DOMAIN c -> UsageCounterState]
      <3>1. c = [id \in DOMAIN runtime.urrs |-> c[id]]
        BY <1>5
      <3> HIDE DEF c
      <3> QED BY <1>2, <2>7, <2>8, <3>1
    <2> QED BY <2>1, <2>2, <2>3, <2>4, <2>5, <2>6, <2>7, <2>9
  <1> QED BY <1>6, <1>7

-----------------------------------------------------------------------------
(* What a call of process may do, whatever its way out.                    *)

\* The packet is refused with decision d; only a rate-limited one leaves
\* something in the runtime state.
Refuses(p, d) ==
  /\ HasResultSpace /\ Retain(d) /\ IsDecision(d) /\ d.packet = p
  /\ d.result \in TerminalResult \ CommittedResults
  /\ d.selected # {} => d.result \notin {"NO_MATCH", "MALFORMED_PACKET"}
  /\ UNCHANGED <<sinks, reports>>
  /\ \/ UNCHANGED runtime
     \/ /\ d.result = "RATE_LIMITED" /\ Acceptable(p)
        /\ \E pdr \in Winner(Active, p) :
             /\ "RATE_LIMITED" \in QerFailures(pdr, p)
             /\ d.qer = QerDecisions(pdr, p)
             /\ runtime' = [runtime EXCEPT !.qers = ChargedQers(pdr, p)]

\* The packet p leaves as packet left through the sink of interface to.
Sends(p, to, left) ==
  /\ to \in Interface /\ to # p.ingress
  /\ Len(sinks[to]) < limits.sinkPackets
  /\ sinks' = [sinks EXCEPT ![to] = Append(sinks[to], left)]
  /\ left = [p EXCEPT !.tunnel = left.tunnel]
  /\ to = "N3" => /\ \E tunnel \in left.tunnel : TunnelValid(tunnel)
                  /\ \E rs \in rules : \E i \in DOMAIN rs.fars : left.tunnel = rs.fars[i].tunnel
  /\ to = "N6" => left.tunnel = {}

\* The packet is committed with decision d under the PDR.
Commits(pdr, p, d) ==
  /\ HasResultSpace /\ Acceptable(p) /\ pdr \in Winner(Active, p)
  /\ QerFailures(pdr, p) = {} /\ PlanFailures(pdr, p) = {}
  /\ Retain(d) /\ IsDecision(d) /\ d.packet = p /\ d.version = Active.version
  /\ d.qer = QerDecisions(pdr, p) /\ d.urr = UrrDecisions(pdr, p)
  /\ runtime' = [runtime EXCEPT !.qers = ChargedQers(pdr, p), !.urrs = CountedUrrs(pdr, p)]
  /\ NewReports(pdr, p) # {} => Len(reports) < limits.reports
  /\ reports' = IF NewReports(pdr, p) = {} THEN reports
                ELSE Append(reports, Value(NewReports(pdr, p)))
  /\ \/ d.result = "FAR_DROPPED" /\ UNCHANGED sinks
     \/ \E to, left :
          /\ Sends(p, to, left) /\ d.transformed = {left}
          /\ d.result = IF to = "N3" THEN "FORWARDED_TO_N3" ELSE "FORWARDED_TO_N6"

\* Every way out of process is one of these.
LEMMA ProcessOutcomes ==
  ASSUME CoreInv, NEW p \in Packets, Process(p)
  PROVE  \/ RejectFull(p)
         \/ \E d : Refuses(p, d)
         \/ \E pdr, d : Commits(pdr, p, d)
PROOF
  <1>1. CASE RejectFull(p)
    BY <1>1
  <1>2. CASE RejectUnacceptable(p)
    <2> DEFINE r == IF HasValue(rules) THEN "MALFORMED_PACKET" ELSE "NO_MATCH"
               d == With(Received(p), r)
    <2>1. /\ IsDecision(d) /\ d.packet = p /\ d.selected = {} /\ d.result = r
      BY EarlyRefusals
    <2>2. r \in TerminalResult \ CommittedResults
      BY DEF TerminalResult, CommittedResults
    <2>3. HasResultSpace /\ Retain(d) /\ UNCHANGED <<runtime, sinks, reports>>
      BY <1>2 DEF RejectUnacceptable
    <2> HIDE DEF r, d
    <2>4. Refuses(p, d)
      BY <2>1, <2>2, <2>3 DEF Refuses
    <2> QED BY <2>4
  <1>3. CASE RejectUnmatched(p)
    <2> DEFINE d == With(Matched(p), "NO_MATCH")
    <2>1. /\ IsDecision(d) /\ d.packet = p /\ d.selected = {} /\ d.result = "NO_MATCH"
      BY EarlyRefusals
    <2>2. "NO_MATCH" \in TerminalResult \ CommittedResults
      BY DEF TerminalResult, CommittedResults
    <2>3. HasResultSpace /\ Retain(d) /\ UNCHANGED <<runtime, sinks, reports>>
      BY <1>3 DEF RejectUnmatched
    <2> HIDE DEF d
    <2>4. Refuses(p, d)
      BY <2>1, <2>2, <2>3 DEF Refuses
    <2> QED BY <2>4
  <1>4. CASE RejectByQer(p)
    <2>1. PICK pdr \in Winner(Active, p) : \E failure \in QerFailures(pdr, p) :
            /\ Retain(With(Selected(pdr, p), failure))
            /\ runtime' = IF failure = "RATE_LIMITED"
                          THEN [runtime EXCEPT !.qers = ChargedQers(pdr, p)] ELSE runtime
      BY <1>4 DEF RejectByQer
    <2>2. PICK failure \in QerFailures(pdr, p) :
            /\ Retain(With(Selected(pdr, p), failure))
            /\ runtime' = IF failure = "RATE_LIMITED"
                          THEN [runtime EXCEPT !.qers = ChargedQers(pdr, p)] ELSE runtime
      BY <2>1
    <2>3. HasResultSpace /\ Acceptable(p) /\ UNCHANGED <<sinks, reports>>
      BY <1>4 DEF RejectByQer
    <2>4. failure \in {"GATE_CLOSED", "ARITHMETIC_ERROR", "RATE_LIMITED"}
      BY <2>3, Charged
    <2>5. /\ failure \in TerminalResult \ CommittedResults
          /\ failure \notin {"NO_MATCH", "MALFORMED_PACKET"}
      BY <2>4 DEF TerminalResult, CommittedResults
    <2> DEFINE d == With(Selected(pdr, p), failure)
    <2>6. /\ IsDecision(d) /\ d.packet = p /\ d.result = failure
          /\ d.qer = QerDecisions(pdr, p)
      BY LateResults
    <2>7. Retain(d)
      BY <2>2
    <2> HIDE DEF d
    <2>8. Refuses(p, d)
      BY <2>2, <2>3, <2>5, <2>6, <2>7 DEF Refuses
    <2> QED BY <2>8
  <1>5. CASE RejectByPlan(p)
    <2>1. PICK pdr \in Winner(Active, p) :
            \E failure \in PlanFailures(pdr, p) : Retain(With(Planned(pdr, p), failure))
      BY <1>5 DEF RejectByPlan
    <2>2. PICK failure \in PlanFailures(pdr, p) : Retain(With(Planned(pdr, p), failure))
      BY <2>1
    <2>3. HasResultSpace /\ Acceptable(p) /\ UNCHANGED <<runtime, sinks, reports>>
      BY <1>5 DEF RejectByPlan
    <2>4. FarValid(FarOf(pdr), p)
      BY <2>3, SelectedRules, FittingFar
    <2>5. failure \in {"ARITHMETIC_ERROR", "CAPACITY_ERROR"}
      BY <2>2, <2>4 DEF PlanFailures
    <2>6. /\ failure \in TerminalResult \ CommittedResults
          /\ failure \notin {"NO_MATCH", "MALFORMED_PACKET"}
      BY <2>5 DEF TerminalResult, CommittedResults
    <2> DEFINE d == With(Planned(pdr, p), failure)
    <2>7. IsDecision(d) /\ d.packet = p /\ d.result = failure
      BY LateResults
    <2>8. Retain(d)
      BY <2>2
    <2> HIDE DEF d
    <2>9. Refuses(p, d)
      BY <2>3, <2>6, <2>7, <2>8 DEF Refuses
    <2> QED BY <2>9
  <1>6. CASE Accept(p)
    <2>1. HasResultSpace /\ Acceptable(p)
      BY <1>6 DEF Accept
    <2>2. PICK pdr \in Winner(Active, p) :
            QerFailures(pdr, p) = {} /\ PlanFailures(pdr, p) = {} /\ Commit(pdr, p)
      BY <1>6 DEF Accept
    <2>10. VersionOf(p) = Active.version
      BY <2>1 DEF VersionOf, Received, Acceptable
    <2> DEFINE far == FarOf(pdr)
               left == FarPacket(far, p)
               to == FarDestination(far)
    <2>3. PICK rs \in rules :
            /\ \E i \in DOMAIN rs.fars : far = rs.fars[i]
            /\ FarFits(pdr, far) /\ WellTypedFar(far)
            /\ pdr.sourceInterface = p.ingress
      BY <2>1, SelectedRules
    <2>4. /\ FarValid(far, p)
          /\ FarForwards(far, p) <=> far.action # "DROP"
          /\ far.action # "DROP" =>
               /\ to \in Interface /\ to # p.ingress
               /\ left = [p EXCEPT !.tunnel = left.tunnel]
               /\ to = "N3" => /\ left.tunnel = far.tunnel
                               /\ \E tunnel \in left.tunnel : TunnelValid(tunnel)
               /\ to = "N6" => left.tunnel = {}
      BY <2>3, FittingFar
    <2>5. /\ NewReports(pdr, p) # {} => ~ (Len(reports) >= limits.reports)
          /\ far.action # "DROP" => ~ (Len(sinks[to]) >= limits.sinkPackets)
      BY <2>2, <2>4 DEF PlanFailures
    <2>6. /\ NewReports(pdr, p) # {} => Len(reports) < limits.reports
          /\ far.action # "DROP" => Len(sinks[to]) < limits.sinkPackets
      <3>1. /\ limits.reports \in Nat /\ limits.sinkPackets \in Nat
            /\ Len(reports) \in Nat /\ \A i \in Interface : Len(sinks[i]) \in Nat
        BY CoreFacts, UInt64MaxAssumption, Appended DEF CoreInv, UInt64
      <3> HIDE DEF to, far
      <3> QED BY <2>4, <2>5, <3>1
    <2>7. /\ runtime' = [runtime EXCEPT !.qers = ChargedQers(pdr, p), !.urrs = CountedUrrs(pdr, p)]
          /\ reports' = IF NewReports(pdr, p) = {} THEN reports
                        ELSE Append(reports, Value(NewReports(pdr, p)))
      BY <2>2 DEF Commit
    <2>8. CASE far.action = "DROP"
      <3> DEFINE d == With(Planned(pdr, p), "FAR_DROPPED")
      <3>1. /\ IsDecision(d) /\ d.packet = p /\ d.result = "FAR_DROPPED"
            /\ d.version = Active.version /\ d.qer = QerDecisions(pdr, p)
            /\ d.urr = UrrDecisions(pdr, p)
        BY <2>4, <2>10, LateResults
      <3>2. Retain(d) /\ UNCHANGED sinks
        BY <2>2, <2>8 DEF Commit
      <3> HIDE DEF d
      <3>3. Commits(pdr, p, d)
        BY <2>1, <2>2, <2>6, <2>7, <3>1, <3>2 DEF Commits
      <3> QED BY <3>3
    <2>9. CASE far.action # "DROP"
      <3> DEFINE d == Forwarded(pdr, p)
      <3>1. /\ IsDecision(d) /\ d.packet = p /\ d.version = Active.version
            /\ d.qer = QerDecisions(pdr, p) /\ d.urr = UrrDecisions(pdr, p)
            /\ d.transformed = {left}
            /\ d.result = IF to = "N3" THEN "FORWARDED_TO_N3" ELSE "FORWARDED_TO_N6"
        BY <2>4, <2>10, DecisionStages
      <3>2. Retain(d) /\ sinks' = [sinks EXCEPT ![to] = Append(sinks[to], left)]
        BY <2>2, <2>9 DEF Commit
      <3> HIDE DEF d
      <3>3. Sends(p, to, left)
        <4>1. to = "N3" => \E r \in rules : \E i \in DOMAIN r.fars : left.tunnel = r.fars[i].tunnel
          BY <2>3, <2>4, <2>9
        <4> HIDE DEF to, left
        <4> QED BY <2>4, <2>6, <2>9, <3>2, <4>1 DEF Sends
      <3> HIDE DEF to, left
      <3>4. Commits(pdr, p, d)
        BY <2>1, <2>2, <2>6, <2>7, <3>1, <3>2, <3>3 DEF Commits
      <3> QED BY <3>4
    <2> QED BY <2>8, <2>9
  <1> QED BY <1>1, <1>2, <1>3, <1>4, <1>5, <1>6 DEF Process

-----------------------------------------------------------------------------
(* The steps of the pipeline, as the invariants see them.                  *)

Stays == UNCHANGED <<limits, rules, runtime, sinks, reports, decisions, events,
                     droppedEvents, since>>

Installs(rs) ==
  /\ rs \in RuleSets /\ Install(rs)
  /\ UNCHANGED <<limits, sinks, reports, decisions, events, droppedEvents, returned>>

RefusesPacket(p, d) == p \in Packets /\ Refuses(p, d) /\ UNCHANGED <<limits, rules, since>>

CommitsPacket(pdr, p, d) ==
  p \in Packets /\ Commits(pdr, p, d) /\ UNCHANGED <<limits, rules, since>>

\* A step stutters in what matters, installs, refuses a packet or commits it.
LEMMA Steps ==
  ASSUME CoreInv, [Next]_vars
  PROVE  \/ Stays
         \/ \E rs : Installs(rs)
         \/ \E p, d : RefusesPacket(p, d)
         \/ \E pdr, p, d : CommitsPacket(pdr, p, d)
PROOF
  <1>1. CASE UNCHANGED vars
    BY <1>1 DEF vars, Stays
  <1>2. CASE /\ UNCHANGED <<limits, sinks, reports, decisions, events, droppedEvents, returned>>
             /\ \E rs \in RuleSets : Install(rs) \/ RefuseInstall(rs)
    BY <1>2 DEF RefuseInstall, Stays, Installs
  <1>3. CASE /\ UNCHANGED <<limits, rules, since>>
             /\ \E p \in Packets : Process(p)
    <2>1. PICK p \in Packets : Process(p)
      BY <1>3
    <2>2. CASE RejectFull(p)
      BY <1>3, <2>2 DEF RejectFull, Stays
    <2> QED BY <1>3, <2>1, <2>2, ProcessOutcomes DEF RefusesPacket, CommitsPacket
  <1> QED BY <1>1, <1>2, <1>3 DEF Next

\* The constructor's state.
LEMMA InitCore == Init => CoreInv
PROOF
  <1> SUFFICES ASSUME NEW l \in Limits, Constructed(l) PROVE CoreInv
    BY DEF Init
  <1>1. /\ limits \in Limits /\ rules = {} /\ runtime = NoRuntime
        /\ decisions = <<>> /\ events = <<>> /\ reports = <<>>
        /\ sinks = [i \in Interface |-> <<>>]
    BY DEF Constructed
  <1>2. {} \in Optional(RuleSets)
    BY DEF Optional
  <1>3. /\ \A i \in Interface : IsSeq(sinks[i])
        /\ sinks \in [Interface -> {sinks[i] : i \in Interface}]
    BY <1>1, EmptyIsSeq
  <1> QED BY <1>1, <1>2, <1>3, EmptyIsSeq, NoRuntimeTyped DEF CoreInv

\* What a refusal and a commit make of the runtime state.
LEMMA RefusedRuntime ==
  ASSUME CoreInv, NEW p, NEW d, RefusesPacket(p, d)
  PROVE  /\ WellTypedRuntime(runtime')
         /\ DOMAIN runtime'.qers = DOMAIN runtime.qers /\ runtime'.urrs = runtime.urrs
         /\ runtime'.qerGenerations = runtime.qerGenerations
         /\ runtime'.urrGenerations = runtime.urrGenerations
         /\ \A rs \in rules, id \in DOMAIN runtime.qers :
              /\ \/ runtime'.qers[id].tokensBytes <= RuleOf(rs.qers, id).burstBytes
                 \/ runtime'.qers[id].tokensBytes <= runtime.qers[id].tokensBytes
              /\ runtime'.qers[id].tokensBytes >= runtime.qers[id].tokensBytes
              /\ \/ runtime'.qers[id] = runtime.qers[id]
                 \/ \E q \in d.qer : q.qerId = id
PROOF
  <1>1. CASE UNCHANGED runtime
    <2>1. WellTypedRuntime(runtime)
      BY DEF CoreInv
    <2>2. ASSUME NEW id \in DOMAIN runtime.qers PROVE runtime.qers[id].tokensBytes \in Int
      BY <2>1, UInt64MaxAssumption DEF WellTypedRuntime, TokenBucketState, UInt64
    <2> QED BY <1>1, <2>1, <2>2
  <1>2. CASE ~ UNCHANGED runtime
    <2>1. p \in Packets /\ Acceptable(p)
      BY <1>2 DEF RefusesPacket, Refuses
    <2>2. PICK pdr \in Winner(Active, p) :
            /\ "RATE_LIMITED" \in QerFailures(pdr, p)
            /\ d.qer = QerDecisions(pdr, p)
            /\ runtime' = [runtime EXCEPT !.qers = ChargedQers(pdr, p)]
      BY <1>2 DEF RefusesPacket, Refuses
    <2> DEFINE c == ChargedQers(pdr, p)
    <2>3. /\ c \in [DOMAIN c -> TokenBucketState] /\ DOMAIN c = DOMAIN runtime.qers
          /\ \A rs \in rules, id \in DOMAIN runtime.qers :
               /\ c[id] = runtime.qers[id] \/ \E q \in QerDecisions(pdr, p) : q.qerId = id
               /\ \/ c[id].tokensBytes <= RuleOf(rs.qers, id).burstBytes
                  \/ c[id].tokensBytes <= runtime.qers[id].tokensBytes
               /\ c[id].tokensBytes >= runtime.qers[id].tokensBytes
      BY <2>1, <2>2, Charged
    <2> HIDE DEF c
    <2>4. /\ WellTypedRuntime(runtime) /\ runtime' = [runtime EXCEPT !.qers = c]
          /\ runtime.urrs \in [DOMAIN runtime.urrs -> UsageCounterState]
      BY <2>2 DEF CoreInv, WellTypedRuntime, c
    <2>5. /\ WellTypedRuntime(runtime') /\ runtime'.qers = c /\ runtime'.urrs = runtime.urrs
          /\ runtime'.qerGenerations = runtime.qerGenerations
          /\ runtime'.urrGenerations = runtime.urrGenerations
      BY <2>3, <2>4, BucketsStored
    <2> QED BY <2>2, <2>3, <2>5
  <1> QED BY <1>1, <1>2

\* A commit stores one bucket and one counter, of rules the runtime state
\* has, and creates or removes none.
LEMMA CommittedRuntime ==
  ASSUME CoreInv, NEW pdr, NEW p, NEW d, CommitsPacket(pdr, p, d)
  PROVE  /\ WellTypedRuntime(runtime')
         /\ DOMAIN runtime'.qers = DOMAIN runtime.qers
         /\ DOMAIN runtime'.urrs = DOMAIN runtime.urrs
         /\ runtime'.urrs = CountedUrrs(pdr, p)
         /\ runtime'.qerGenerations = runtime.qerGenerations
         /\ runtime'.urrGenerations = runtime.urrGenerations
         /\ \A rs \in rules, id \in DOMAIN runtime.qers :
              \/ runtime'.qers[id].tokensBytes <= RuleOf(rs.qers, id).burstBytes
              \/ runtime'.qers[id].tokensBytes <= runtime.qers[id].tokensBytes
PROOF
  <1>1. /\ p \in Packets /\ Acceptable(p) /\ pdr \in Winner(Active, p)
        /\ PlanFailures(pdr, p) = {}
        /\ runtime' = [runtime EXCEPT !.qers = ChargedQers(pdr, p), !.urrs = CountedUrrs(pdr, p)]
    BY DEF CommitsPacket, Commits
  <1> DEFINE c == ChargedQers(pdr, p)
             e == CountedUrrs(pdr, p)
  <1>2. /\ c \in [DOMAIN c -> TokenBucketState] /\ DOMAIN c = DOMAIN runtime.qers
        /\ \A rs \in rules, id \in DOMAIN runtime.qers :
             \/ c[id].tokensBytes <= RuleOf(rs.qers, id).burstBytes
             \/ c[id].tokensBytes <= runtime.qers[id].tokensBytes
    BY <1>1, Charged
  <1>3. e \in [DOMAIN e -> UsageCounterState] /\ DOMAIN e = DOMAIN runtime.urrs
    BY <1>1, Counted
  <1>4. WellTypedRuntime(runtime)
    BY DEF CoreInv
  <1>5. runtime' = [runtime EXCEPT !.qers = c, !.urrs = e]
    BY <1>1
  <1> HIDE DEF c, e
  <1>6. /\ WellTypedRuntime(runtime') /\ runtime'.qers = c /\ runtime'.urrs = e
        /\ runtime'.qerGenerations = runtime.qerGenerations
        /\ runtime'.urrGenerations = runtime.urrGenerations
    BY <1>2, <1>3, <1>4, <1>5 DEF WellTypedRuntime
  <1> QED BY <1>2, <1>3, <1>6 DEF e

\* Every step keeps it.
LEMMA StepKeepsCore == CoreInv /\ [Next]_vars => CoreInv'
PROOF
  <1> SUFFICES ASSUME CoreInv, [Next]_vars PROVE CoreInv'
    OBVIOUS
  <1>1. CASE Stays
    BY <1>1 DEF Stays, CoreInv, IsSeq
  <1>2. ASSUME NEW rs, Installs(rs) PROVE CoreInv'
    <2>1. /\ rs \in RuleSets /\ ValidateRuleSet(rs) /\ rules' = {rs}
          /\ runtime' = Migrated(runtime, rs)
          /\ UNCHANGED <<limits, sinks, reports, decisions, events>>
      BY <1>2 DEF Installs, Install
    <2>2. WellTypedRuntime(runtime') /\ RuntimeOf(runtime', rs)
      BY <2>1, MigratedFits, RuleSetsAssumption DEF CoreInv
    <2>3. rules' \in Optional(RuleSets) /\ rules' # {}
      BY <2>1 DEF Optional
    <2>4. /\ \A r \in rules' : ValidateRuleSet(r) /\ RuntimeOf(runtime', r)
      BY <2>1, <2>2
    <2> QED BY <2>1, <2>2, <2>3, <2>4 DEF CoreInv, IsSeq
  <1>3. ASSUME NEW p, NEW d, RefusesPacket(p, d) PROVE CoreInv'
    <2>1. Retain(d) /\ IsDecision(d) /\ UNCHANGED <<limits, rules, sinks, reports>>
      BY <1>3 DEF RefusesPacket, Refuses
    <2>2. IsSeq(decisions') /\ IsSeq(events')
      BY <2>1, Retained DEF CoreInv
    <2>3. WellTypedRuntime(runtime') /\ \A rs \in rules : RuntimeOf(runtime', rs)
      BY <1>3, RefusedRuntime DEF CoreInv, RuntimeOf
    <2>4. rules = {} => runtime' = runtime
      BY <1>3 DEF RefusesPacket, Refuses, Acceptable, HasValue
    <2> QED BY <2>1, <2>2, <2>3, <2>4 DEF CoreInv, IsSeq
  <1>4. ASSUME NEW pdr, NEW p, NEW d, CommitsPacket(pdr, p, d) PROVE CoreInv'
    <2>1. Retain(d) /\ IsDecision(d) /\ UNCHANGED <<limits, rules>> /\ rules # {}
      BY <1>4 DEF CommitsPacket, Commits, Acceptable, HasValue
    <2>2. IsSeq(decisions') /\ IsSeq(events')
      BY <2>1, Retained DEF CoreInv
    <2>3. WellTypedRuntime(runtime') /\ \A rs \in rules : RuntimeOf(runtime', rs)
      BY <1>4, CommittedRuntime DEF CoreInv, RuntimeOf
    <2>4. IsSeq(reports')
      BY <1>4, Appended DEF CommitsPacket, Commits, CoreInv
    <2>5. /\ sinks' \in [Interface -> {sinks'[i] : i \in Interface}]
          /\ \A i \in Interface : IsSeq(sinks'[i])
      <3>1. CASE UNCHANGED sinks
        BY <3>1 DEF CoreInv
      <3>2. CASE ~ UNCHANGED sinks
        <4>1. PICK to, left : Sends(p, to, left)
          BY <1>4, <3>2 DEF CommitsPacket, Commits
        <4>2. /\ sinks' = [sinks EXCEPT ![to] = Append(sinks[to], left)] /\ to \in Interface
              /\ IsSeq(Append(sinks[to], left))
          BY <4>1, Appended DEF Sends, CoreInv
        <4>3. /\ DOMAIN sinks' = Interface
              /\ \A i \in Interface :
                   sinks'[i] = IF i = to THEN Append(sinks[to], left) ELSE sinks[i]
          BY <4>2 DEF CoreInv
        <4>4. sinks' = [i \in Interface |-> sinks'[i]]
          BY <4>2 DEF CoreInv
        <4> QED BY <4>2, <4>3, <4>4 DEF CoreInv
      <3> QED BY <3>1, <3>2
    <2> QED BY <2>1, <2>2, <2>3, <2>4, <2>5 DEF CoreInv
  <1> QED BY <1>1, <1>2, <1>3, <1>4, Steps

-----------------------------------------------------------------------------
(* Events, and what a decision says.                                       *)

\* The events hold the first results of the decisions, up to the capacity.
EventsInv ==
  /\ EventsAccounted
  /\ droppedEvents \in UInt64
  /\ Len(events) <= limits.events
  /\ Len(events) < limits.events => Len(events) = Len(decisions)

DecisionsInv ==
  /\ \A i \in DOMAIN decisions :
       decisions[i].packet \in Packets /\ decisions[i].result \in TerminalResult
  /\ SelectedIsServed

\* A constructed pipeline has produced no event and no decision.
LEMMA InitEvents == Init => EventsInv /\ DecisionsInv
PROOF
  <1> SUFFICES ASSUME NEW l \in Limits, Constructed(l) PROVE EventsInv /\ DecisionsInv
    BY DEF Init
  <1>1. /\ limits \in [results : UInt64, reports : UInt64, events : UInt64, sinkPackets : UInt64]
        /\ decisions = <<>> /\ events = <<>> /\ droppedEvents = 0
    BY LimitsAssumption DEF Constructed
  <1>2. /\ limits.results \in UInt64 /\ limits.events \in UInt64
        /\ Len(decisions) = 0 /\ Len(events) = 0 /\ DOMAIN decisions = {}
        /\ UInt64Max \in Nat
    BY <1>1, EmptyIsSeq, UInt64MaxAssumption
  <1> QED BY <1>1, <1>2
          DEF EventsInv, EventsAccounted, DecisionsInv, SelectedIsServed, UInt64

\* retain keeps one event per decision, or counts it as dropped; its counter
\* cannot saturate, because the decisions themselves are bounded.
LEMMA RetainKeepsEvents ==
  ASSUME CoreInv, EventsInv, HasResultSpace, NEW d, IsDecision(d), Retain(d),
         UNCHANGED limits
  PROVE  EventsInv'
PROOF
  <1> DEFINE n == Len(decisions) + 1
             e == Len(events)
             l == limits.events
  <1>1. /\ n \in Nat /\ e \in Nat /\ l \in Nat /\ UInt64Max \in Nat
        /\ droppedEvents \in 0 .. UInt64Max
        /\ limits.results \in 0 .. UInt64Max
    BY CoreFacts, UInt64MaxAssumption, Appended DEF CoreInv, EventsInv, UInt64
  <1>2. /\ n - 1 < limits.results /\ e + droppedEvents = n - 1 /\ e <= l
        /\ e < l => e = n - 1
    <2>1. /\ Len(decisions) < limits.results /\ Len(events) + droppedEvents = Len(decisions)
      BY DEF HasResultSpace, EventsInv, EventsAccounted
    <2> QED BY <1>1, <2>1 DEF EventsInv
  <1>3. /\ DOMAIN decisions = 1 .. n - 1 /\ DOMAIN decisions' = 1 .. n
        /\ Len(decisions') = n
        /\ \A i \in DOMAIN decisions : decisions'[i] = decisions[i]
        /\ decisions'[n].result = d.result
        /\ decisions'[n].degraded = ~ (e < l)
    BY Retained DEF CoreInv
  <1>4. /\ DOMAIN events = 1 .. e
        /\ \A i \in 1 .. e : Append(events, d.result)[i] = events[i]
        /\ Append(events, d.result)[e + 1] = d.result
        /\ Len(Append(events, d.result)) = e + 1
    BY Appended DEF CoreInv
  <1>5. \A i \in 1 .. n - 1 :
          IF i <= l THEN /\ i <= e /\ events[i] = decisions[i].result
                         /\ ~ decisions[i].degraded
          ELSE decisions[i].degraded
    BY <1>3 DEF EventsInv, EventsAccounted
  <1>6. CASE e < l
    <2>1. events' = Append(events, d.result) /\ droppedEvents' = droppedEvents
      BY <1>6 DEF Retain
    <2>2. e = n - 1 /\ Len(events') = n
      <3>1. Len(events') = e + 1
        BY <1>4, <2>1
      <3> HIDE DEF n, e, l
      <3> QED BY <1>1, <1>2, <1>6, <3>1
    <2> HIDE DEF n, e
    <2>3. \A i \in 1 .. n - 1 : /\ i <= l /\ i <= n /\ events'[i] = decisions'[i].result
                                /\ ~ decisions'[i].degraded
      BY <1>1, <1>2, <1>3, <1>4, <1>5, <1>6, <2>1, <2>2
    <2>4. /\ n <= l /\ events'[n] = decisions'[n].result /\ ~ decisions'[n].degraded
      <3>1. ~ decisions'[n].degraded
        BY <1>3, <1>6
      <3>2. events'[n] = decisions'[n].result
        BY <1>1, <1>3, <1>4, <2>1, <2>2
      <3> HIDE DEF l
      <3>3. n <= l
        BY <1>1, <1>6, <2>2
      <3> QED BY <3>1, <3>2, <3>3
    <2>5. /\ n <= limits.results /\ n + droppedEvents' = n
      BY <1>1, <1>2, <2>1, <2>2
    <2>6. \A i \in 1 .. n : i \in 1 .. n - 1 \/ i = n
      BY <1>1
    <2>7. \A i \in 1 .. n : /\ i <= l /\ i <= n /\ events'[i] = decisions'[i].result
                            /\ ~ decisions'[i].degraded
      BY <1>1, <2>3, <2>4, <2>6
    <2>8. EventsAccounted'
      BY <1>3, <2>2, <2>5, <2>7 DEF EventsAccounted
    <2> QED BY <1>3, <2>1, <2>2, <2>4, <2>8 DEF EventsInv
  <1>7. CASE ~ (e < l)
    <2>1. droppedEvents # UInt64Max
      BY <1>1, <1>2
    <2>2. events' = events /\ droppedEvents' = droppedEvents + 1
      BY <1>7, <2>1 DEF Retain
    <2>3. e = l /\ n > l
      BY <1>1, <1>2, <1>7
    <2> HIDE DEF n, e, l
    <2>4. \A i \in 1 .. n - 1 :
            IF i <= l THEN /\ i <= e /\ events'[i] = decisions'[i].result
                           /\ ~ decisions'[i].degraded
            ELSE decisions'[i].degraded
      BY <1>3, <1>5, <2>2
    <2>5. \A i \in 1 .. n : i \in 1 .. n - 1 \/ i = n
      BY <1>1
    <2>6. \A i \in 1 .. n :
            IF i <= l THEN /\ i <= e /\ events'[i] = decisions'[i].result
                           /\ ~ decisions'[i].degraded
            ELSE decisions'[i].degraded
      <3>1. decisions'[n].degraded
        BY <1>3, <1>7
      <3>2. ~ (n <= l)
        BY <1>1, <2>3
      <3> QED BY <2>4, <2>5, <3>1, <3>2
    <2>7. /\ n <= limits.results /\ e + droppedEvents' = n
          /\ droppedEvents' \in 0 .. UInt64Max
      BY <1>1, <1>2, <2>1, <2>2
    <2>8. Len(events') = e /\ limits' = limits /\ limits.events = l
      BY <2>2 DEF e, l
    <2>9. EventsAccounted'
      BY <1>3, <2>6, <2>7, <2>8 DEF EventsAccounted
    <2>10. e <= l /\ ~ (e < l)
      BY <1>1, <2>3
    <2> QED BY <2>7, <2>8, <2>9, <2>10 DEF EventsInv, UInt64
  <1> QED BY <1>6, <1>7

\* Every call of process keeps the account of the events, and install
\* leaves it alone.
LEMMA StepKeepsEvents == CoreInv /\ EventsInv /\ [Next]_vars => EventsInv'
PROOF
  <1> SUFFICES ASSUME CoreInv, EventsInv, [Next]_vars PROVE EventsInv'
    OBVIOUS
  <1>1. CASE Stays
    BY <1>1 DEF Stays, EventsInv, EventsAccounted
  <1>2. ASSUME NEW rs, Installs(rs) PROVE EventsInv'
    BY <1>2 DEF Installs, EventsInv, EventsAccounted
  <1>3. ASSUME NEW p, NEW d, RefusesPacket(p, d) PROVE EventsInv'
    BY <1>3, RetainKeepsEvents DEF RefusesPacket, Refuses
  <1>4. ASSUME NEW pdr, NEW p, NEW d, CommitsPacket(pdr, p, d) PROVE EventsInv'
    BY <1>4, RetainKeepsEvents DEF CommitsPacket, Commits
  <1> QED BY <1>1, <1>2, <1>3, <1>4, Steps

\* A commit has one of the committed results, a policy outcome.
LEMMA CommittedResult ==
  ASSUME NEW pdr, NEW p, NEW d, Commits(pdr, p, d)
  PROVE  /\ d.result \in CommittedResults /\ d.result \in TerminalResult
         /\ d.result \notin {"NO_MATCH", "MALFORMED_PACKET"}
PROOF
  BY DEF Commits, CommittedResults, TerminalResult

\* No call retains a decision that names a rule and ends in a result the
\* validation excludes, and none changes a decision that was retained.
LEMMA StepKeepsDecisions == CoreInv /\ DecisionsInv /\ [Next]_vars => DecisionsInv'
PROOF
  <1> SUFFICES ASSUME CoreInv, DecisionsInv, [Next]_vars PROVE DecisionsInv'
    OBVIOUS
  <1>1. CASE Stays
    BY <1>1 DEF Stays, DecisionsInv, SelectedIsServed
  <1>2. ASSUME NEW rs, Installs(rs) PROVE DecisionsInv'
    BY <1>2 DEF Installs, DecisionsInv, SelectedIsServed
  <1>3. ASSUME NEW d, IsDecision(d), Retain(d), d.packet \in Packets,
               d.result \in TerminalResult,
               d.selected # {} => d.result \notin {"NO_MATCH", "MALFORMED_PACKET"}
        PROVE  DecisionsInv'
    <2> DEFINE n == Len(decisions) + 1
    <2>1. /\ n \in Nat /\ DOMAIN decisions = 1 .. n - 1 /\ DOMAIN decisions' = 1 .. n
          /\ \A i \in DOMAIN decisions : decisions'[i] = decisions[i]
          /\ decisions'[n].packet = d.packet /\ decisions'[n].selected = d.selected
          /\ decisions'[n].result = d.result
      BY <1>3, Retained DEF CoreInv
    <2> HIDE DEF n
    <2>2. \A i \in DOMAIN decisions' : i \in DOMAIN decisions \/ i = n
      BY <2>1
    <2> QED BY <1>3, <2>1, <2>2 DEF DecisionsInv, SelectedIsServed
  <1>4. ASSUME NEW p, NEW d, RefusesPacket(p, d) PROVE DecisionsInv'
    BY <1>3, <1>4 DEF RefusesPacket, Refuses
  <1>5. ASSUME NEW pdr, NEW p, NEW d, CommitsPacket(pdr, p, d) PROVE DecisionsInv'
    BY <1>3, <1>5, CommittedResult DEF CommitsPacket, Commits
  <1> QED BY <1>1, <1>2, <1>4, <1>5, Steps

-----------------------------------------------------------------------------
(* The sinks.                                                              *)

\* A constructed pipeline has sent no packet.
LEMMA InitSinks == Init => SinksAccounted
PROOF
  <1> SUFFICES ASSUME NEW l \in Limits, Constructed(l), NEW i \in Interface
               PROVE  /\ SentTo(i) = {} /\ Len(sinks[i]) = 0 /\ 0 <= limits.sinkPackets
                      /\ Cardinality(SentTo(i)) = 0
    BY DEF Init, SinksAccounted
  <1>1. /\ limits \in [results : UInt64, reports : UInt64, events : UInt64, sinkPackets : UInt64]
        /\ decisions = <<>> /\ sinks[i] = <<>>
    BY LimitsAssumption DEF Constructed
  <1>2. SentTo(i) = {}
    BY <1>1, EmptyIsSeq DEF SentTo
  <1>3. limits.sinkPackets \in UInt64 /\ UInt64Max \in Nat
    BY <1>1, UInt64MaxAssumption
  <1> QED BY <1>1, <1>2, <1>3, EmptyIsSeq, FS_EmptySet DEF UInt64

\* A decision that no sink is named by adds nothing.
LEMMA UnsentKeepsSinks ==
  ASSUME CoreInv, SinksAccounted, NEW d, IsDecision(d), Retain(d),
         d.result \notin {"FORWARDED_TO_N3", "FORWARDED_TO_N6"}, UNCHANGED <<limits, sinks>>
  PROVE  SinksAccounted'
PROOF
  <1> DEFINE n == Len(decisions) + 1
  <1>1. /\ n \in Nat /\ DOMAIN decisions = 1 .. n - 1 /\ DOMAIN decisions' = 1 .. n
        /\ \A i \in DOMAIN decisions : decisions'[i] = decisions[i]
        /\ decisions'[n].result = d.result
    BY Retained DEF CoreInv
  <1> HIDE DEF n
  <1>2. ASSUME NEW i \in Interface PROVE SentTo(i)' = SentTo(i)
    <2>1. \A k \in DOMAIN decisions' : k \in DOMAIN decisions \/ k = n
      BY <1>1
    <2>2. \A k \in SentTo(i)' : k \in SentTo(i)
      BY <1>1, <2>1 DEF SentTo
    <2>3. \A k \in SentTo(i) : k \in SentTo(i)'
      BY <1>1 DEF SentTo
    <2> QED BY <2>2, <2>3
  <1>3. ASSUME NEW i \in Interface, NEW k \in SentTo(i) PROVE decisions'[k] = decisions[k]
    BY <1>1 DEF SentTo
  <1>4. \A i \in Interface : \A k \in SentTo(i) : Rank(SentTo(i), k)' = Rank(SentTo(i), k)
    BY <1>2 DEF Rank
  <1> QED BY <1>2, <1>3, <1>4 DEF SinksAccounted

\* A packet sent takes the next place in its sink.
LEMMA SentKeepsSinks ==
  ASSUME CoreInv, SinksAccounted, NEW d, IsDecision(d), Retain(d), UNCHANGED limits,
         NEW p \in Packets, NEW to, NEW left, Sends(p, to, left), d.packet = p,
         d.transformed = {left},
         d.result = IF to = "N3" THEN "FORWARDED_TO_N3" ELSE "FORWARDED_TO_N6"
  PROVE  SinksAccounted'
PROOF
  <1> DEFINE n == Len(decisions) + 1
  <1>1. /\ n \in Nat /\ n - 1 \in Nat /\ n = (n - 1) + 1
        /\ DOMAIN decisions = 1 .. n - 1 /\ DOMAIN decisions' = 1 .. n
        /\ \A i \in DOMAIN decisions : decisions'[i] = decisions[i]
        /\ decisions'[n].result = d.result
        /\ decisions'[n].packet = p /\ decisions'[n].transformed = {left}
    BY Retained, Appended DEF CoreInv
  <1> HIDE DEF n
  <1>2. /\ to \in Interface /\ to # p.ingress /\ Len(sinks[to]) < limits.sinkPackets
        /\ sinks' = [sinks EXCEPT ![to] = Append(sinks[to], left)]
        /\ left = [p EXCEPT !.tunnel = left.tunnel]
        /\ to = "N3" => \E tunnel \in left.tunnel : TunnelValid(tunnel)
        /\ to = "N6" => left.tunnel = {}
    BY DEF Sends
  <1>3. \A k \in DOMAIN decisions' : k \in DOMAIN decisions \/ k = n
    BY <1>1
  <1>4. DOMAIN sinks = Interface
    BY DEF CoreInv
  <1>5. ASSUME NEW i \in Interface, i # to
        PROVE  SentTo(i)' = SentTo(i) /\ sinks'[i] = sinks[i]
    <2>1. d.result # IF i = "N3" THEN "FORWARDED_TO_N3" ELSE "FORWARDED_TO_N6"
      BY <1>2, <1>5 DEF Interface
    <2>2. SentTo(i)' = SentTo(i)
      <3>1. \A k \in SentTo(i)' : k \in SentTo(i)
        BY <1>1, <1>3, <2>1 DEF SentTo
      <3>2. \A k \in SentTo(i) : k \in SentTo(i)'
        BY <1>1 DEF SentTo
      <3> QED BY <3>1, <3>2
    <2>3. sinks'[i] = sinks[i]
      BY <1>2, <1>4, <1>5
    <2> QED BY <2>2, <2>3
  <1>6. /\ SentTo(to)' = SentTo(to) \cup {n}
        /\ sinks'[to] = Append(sinks[to], left)
    <2>1. n \in SentTo(to)'
      BY <1>1 DEF SentTo
    <2>2. \A k \in SentTo(to)' : k \in SentTo(to) \/ k = n
      BY <1>1, <1>3 DEF SentTo
    <2>3. \A k \in SentTo(to) : k \in SentTo(to)'
      BY <1>1 DEF SentTo
    <2> QED BY <1>2, <1>4, <2>1, <2>2, <2>3
  <1>7. ASSUME NEW i \in Interface
        PROVE  /\ SentTo(i) \in SUBSET (1 .. n - 1)
               /\ \A k \in SentTo(i) : decisions'[k] = decisions[k]
    BY <1>1 DEF SentTo
  <1> DEFINE S == SentTo(to)
             c == Cardinality(S)
  <1>8. /\ c \in Nat
        /\ Cardinality(S \cup {n}) = c + 1
        /\ Rank(S \cup {n}, n) = c + 1
        /\ \A k \in S : Rank(S, k) \in 1 .. c /\ Rank(S \cup {n}, k) = Rank(S, k)
    <2>1. n \in Nat \ {0} /\ S \in SUBSET (1 .. n - 1)
      BY <1>1, <1>2, <1>7
    <2> HIDE DEF S
    <2>2. ASSUME NEW k \in S
          PROVE  Rank(S, k) \in 1 .. c /\ Rank(S \cup {n}, k) = Rank(S, k)
      BY <2>1, EarlierRank
    <2> QED BY <2>1, <2>2, LastRank
  <1>9. /\ Len(sinks[to]) = c /\ IsSeq(sinks[to]) /\ c <= limits.sinkPackets
        /\ limits.sinkPackets \in Nat
    BY <1>2, CoreFacts, UInt64MaxAssumption DEF SinksAccounted, CoreInv, UInt64
  <1>10. /\ Len(sinks'[to]) = c + 1
         /\ \A k \in 1 .. c : sinks'[to][k] = sinks[to][k]
         /\ sinks'[to][c + 1] = left
    BY <1>6, <1>9, Appended
  <1>11. Len(sinks'[to]) <= limits.sinkPackets
    <2> HIDE DEF c
    <2> QED BY <1>2, <1>8, <1>9, <1>10
  <1>12. \A i \in Interface : \A k \in SentTo(i) : SentAs(i, decisions[k], sinks[i][Rank(SentTo(i), k)])
    BY DEF SinksAccounted
  <1>13. SentAs(to, decisions'[n], left)
    <2>1. /\ to = "N3" <=> \E tunnel \in left.tunnel : TunnelValid(tunnel)
          /\ to = "N6" <=> left.tunnel = {}
      BY <1>2 DEF Interface
    <2>2. decisions'[n].packet = p /\ decisions'[n].packet.ingress # to
      BY <1>1, <1>2
    <2>3. left = [decisions'[n].packet EXCEPT !.tunnel = left.tunnel]
      BY <1>2, <2>2, Zenon
    <2> QED BY <1>1, <2>1, <2>2, <2>3, Zenon DEF SentAs
  <1>14. ASSUME NEW k \in SentTo(to)'
         PROVE  SentAs(to, decisions'[k], sinks'[to][Rank(SentTo(to)', k)])
    <2>1. CASE k = n
      BY <1>6, <1>8, <1>10, <1>13, <2>1
    <2>2. CASE k \in S
      <3>1. Rank(SentTo(to)', k) = Rank(S, k) /\ Rank(S, k) \in 1 .. c
        BY <1>6, <1>8, <2>2
      <3>2. sinks'[to][Rank(SentTo(to)', k)] = sinks[to][Rank(S, k)]
        BY <1>10, <3>1
      <3>3. SentAs(to, decisions[k], sinks[to][Rank(S, k)])
        BY <1>2, <1>12, <2>2
      <3>4. decisions'[k] = decisions[k]
        BY <1>2, <1>7, <2>2
      <3> QED BY <3>2, <3>3, <3>4
    <2> QED BY <1>6, <2>1, <2>2
  <1>15. ASSUME NEW i \in Interface, i # to, NEW k \in SentTo(i)'
         PROVE  SentAs(i, decisions'[k], sinks'[i][Rank(SentTo(i)', k)])
    <2>1. SentTo(i)' = SentTo(i) /\ sinks'[i] = sinks[i] /\ decisions'[k] = decisions[k]
      BY <1>5, <1>7, <1>15
    <2>2. SentAs(i, decisions[k], sinks[i][Rank(SentTo(i), k)])
      BY <1>12, <1>15, <2>1
    <2> QED BY <2>1, <2>2
  <1>16. ASSUME NEW i \in Interface
         PROVE  /\ Len(sinks'[i]) = Cardinality(SentTo(i)') /\ Len(sinks'[i]) <= limits.sinkPackets
                /\ \A k \in SentTo(i)' : SentAs(i, decisions'[k], sinks'[i][Rank(SentTo(i)', k)])
    <2>1. CASE i = to
      <3>1. Len(sinks'[to]) = Cardinality(SentTo(to)')
        BY <1>6, <1>8, <1>10
      <3> QED BY <1>11, <1>14, <2>1, <3>1
    <2>2. CASE i # to
      <3>1. /\ Len(sinks[i]) = Cardinality(SentTo(i)) /\ Len(sinks[i]) <= limits.sinkPackets
        BY DEF SinksAccounted
      <3>2. SentTo(i)' = SentTo(i) /\ sinks'[i] = sinks[i]
        BY <1>5, <2>2
      <3>3. \A k \in SentTo(i)' : SentAs(i, decisions'[k], sinks'[i][Rank(SentTo(i)', k)])
        BY <1>15, <2>2
      <3> QED BY <3>1, <3>2, <3>3
    <2> QED BY <2>1, <2>2
  <1>17. \A i \in Interface : \A k \in SentTo(i)' : Rank(SentTo(i)', k) = Rank(SentTo(i), k)'
    BY DEF Rank
  <1> QED BY <1>16, <1>17 DEF SinksAccounted

\* Every call keeps the account of the sinks: a commit that forwards adds the
\* same packet to its sink and to the decisions, and nothing else adds to either.
LEMMA StepKeepsSinks == CoreInv /\ SinksAccounted /\ [Next]_vars => SinksAccounted'
PROOF
  <1> SUFFICES ASSUME CoreInv, SinksAccounted, [Next]_vars PROVE SinksAccounted'
    OBVIOUS
  <1>1. CASE UNCHANGED <<limits, sinks, decisions>>
    BY <1>1 DEF SinksAccounted, SentTo, Rank
  <1>2. ASSUME NEW p, NEW d, RefusesPacket(p, d) PROVE SinksAccounted'
    <2>1. d.result \notin {"FORWARDED_TO_N3", "FORWARDED_TO_N6"}
      BY <1>2 DEF RefusesPacket, Refuses, CommittedResults
    <2> QED BY <1>2, <2>1, UnsentKeepsSinks DEF RefusesPacket, Refuses
  <1>3. ASSUME NEW pdr, NEW p, NEW d, CommitsPacket(pdr, p, d) PROVE SinksAccounted'
    <2>1. CASE d.result = "FAR_DROPPED" /\ UNCHANGED sinks
      BY <1>3, <2>1, UnsentKeepsSinks DEF CommitsPacket, Commits
    <2>2. ASSUME NEW to, NEW left, Sends(p, to, left), d.transformed = {left},
                 d.result = IF to = "N3" THEN "FORWARDED_TO_N3" ELSE "FORWARDED_TO_N6"
          PROVE  SinksAccounted'
      BY <1>3, <2>2, SentKeepsSinks DEF CommitsPacket, Commits
    <2> QED BY <1>3, <2>1, <2>2 DEF CommitsPacket, Commits
  <1> QED BY <1>1, <1>2, <1>3, Steps DEF Stays, Installs

-----------------------------------------------------------------------------
(* The reports.                                                            *)

\* A new pipeline has no report and no decision that made one.
LEMMA InitReports == Init => ReportsAccounted
PROOF
  <1> SUFFICES ASSUME NEW l \in Limits, Constructed(l) PROVE ReportsAccounted
    BY DEF Init
  <1>1. /\ limits \in [results : UInt64, reports : UInt64, events : UInt64, sinkPackets : UInt64]
        /\ decisions = <<>> /\ reports = <<>>
    BY LimitsAssumption DEF Constructed
  <1>2. Reporting = {}
    BY <1>1, EmptyIsSeq DEF Reporting
  <1>3. limits.reports \in UInt64 /\ UInt64Max \in Nat
    BY <1>1, UInt64MaxAssumption
  <1> QED BY <1>1, <1>2, <1>3, EmptyIsSeq, FS_EmptySet DEF UInt64, ReportsAccounted

\* A retained decision is one of those that made a report when it is a commit
\* with one.
LEMMA ReportingGrows ==
  ASSUME CoreInv, NEW d, IsDecision(d), Retain(d)
  PROVE  LET n == Len(decisions) + 1
             reports_d == d.result \in CommittedResults /\ \E u \in d.urr : u.reportId # {}
         IN  /\ n \in Nat /\ Reporting \in SUBSET (1 .. n - 1)
             /\ Reporting' = IF reports_d THEN Reporting \cup {n} ELSE Reporting
             /\ decisions'[n].urr = d.urr
             /\ \A i \in Reporting : decisions'[i] = decisions[i]
PROOF
  <1> DEFINE n == Len(decisions) + 1
             reports_d == d.result \in CommittedResults /\ \E u \in d.urr : u.reportId # {}
  <1>1. /\ n \in Nat /\ DOMAIN decisions = 1 .. n - 1 /\ DOMAIN decisions' = 1 .. n
        /\ \A i \in DOMAIN decisions : decisions'[i] = decisions[i]
        /\ decisions'[n].result = d.result /\ decisions'[n].urr = d.urr /\ n \in 1 .. n
    BY Retained, Appended DEF CoreInv
  <1> HIDE DEF n
  <1>2. \A i \in DOMAIN decisions' : i \in DOMAIN decisions \/ i = n
    BY <1>1
  <1>3. \A i \in Reporting' : i \in Reporting \/ (i = n /\ reports_d)
    BY <1>1, <1>2 DEF Reporting
  <1>4. \A i \in Reporting : i \in Reporting' /\ i \in DOMAIN decisions
    BY <1>1 DEF Reporting
  <1>5. reports_d => n \in Reporting'
    BY <1>1 DEF Reporting
  <1> HIDE DEF reports_d
  <1>6. Reporting' = IF reports_d THEN Reporting \cup {n} ELSE Reporting
    BY <1>3, <1>4, <1>5
  <1> QED BY <1>1, <1>4, <1>6 DEF n, reports_d

\* A step keeps the reports in step with the decisions that made them.
LEMMA StepKeepsReports == CoreInv /\ ReportsAccounted /\ [Next]_vars => ReportsAccounted'
PROOF
  <1> SUFFICES ASSUME CoreInv, ReportsAccounted, [Next]_vars PROVE ReportsAccounted'
    OBVIOUS
  <1>1. CASE UNCHANGED <<limits, reports, decisions>>
    BY <1>1 DEF ReportsAccounted, Reporting, Rank
  <1>2. ASSUME NEW d, IsDecision(d), Retain(d), UNCHANGED <<limits, reports>>,
               d.result \notin CommittedResults \/ \A u \in d.urr : u.reportId = {}
        PROVE  ReportsAccounted'
    <2>1. /\ Reporting' = Reporting
          /\ \A i \in Reporting : decisions'[i] = decisions[i]
      BY <1>2, ReportingGrows
    <2>2. \A i \in Reporting : Rank(Reporting, i)' = Rank(Reporting, i)
      BY <2>1 DEF Rank
    <2> QED BY <1>2, <2>1, <2>2 DEF ReportsAccounted
  <1>3. ASSUME NEW p, NEW d, RefusesPacket(p, d) PROVE ReportsAccounted'
    BY <1>2, <1>3 DEF RefusesPacket, Refuses
  <1>4. ASSUME NEW pdr, NEW p, NEW d, CommitsPacket(pdr, p, d) PROVE ReportsAccounted'
    <2>1. /\ Retain(d) /\ IsDecision(d) /\ UNCHANGED limits
          /\ d.result \in CommittedResults /\ d.urr = UrrDecisions(pdr, p)
      BY <1>4, CommittedResult DEF CommitsPacket, Commits
    <2> DEFINE new == NewReports(pdr, p)
    <2>2. new = UNION {u.reportId : u \in d.urr}
      BY <2>1 DEF NewReports
    <2>3. (\E u \in d.urr : u.reportId # {}) <=> new # {}
      BY <2>2
    <2>4. /\ new # {} => Len(reports) < limits.reports
          /\ reports' = IF new = {} THEN reports ELSE Append(reports, Value(new))
      BY <1>4 DEF CommitsPacket, Commits
    <2> HIDE DEF new
    <2>5. CASE new = {}
      BY <1>2, <2>1, <2>3, <2>4, <2>5
    <2>6. CASE new # {}
      <3> DEFINE n == Len(decisions) + 1
                 S == Reporting
                 c == Cardinality(S)
      <3>1. /\ n \in Nat /\ S \in SUBSET (1 .. n - 1) /\ S' = S \cup {n}
            /\ decisions'[n].urr = d.urr
            /\ \A i \in S : decisions'[i] = decisions[i]
        BY <2>1, <2>3, <2>6, ReportingGrows
      <3>2. n - 1 \in Nat /\ n = (n - 1) + 1
        BY Appended DEF CoreInv
      <3>3. /\ c \in Nat /\ Cardinality(S \cup {n}) = c + 1 /\ Rank(S \cup {n}, n) = c + 1
            /\ \A i \in S : Rank(S, i) \in 1 .. c /\ Rank(S \cup {n}, i) = Rank(S, i)
        <4>1. n \in Nat \ {0}
          BY <3>1, <3>2
        <4> HIDE DEF n
        <4>2. ASSUME NEW i \in S
              PROVE  Rank(S, i) \in 1 .. c /\ Rank(S \cup {n}, i) = Rank(S, i)
          BY <3>1, <4>1, EarlierRank
        <4> QED BY <3>1, <4>1, <4>2, LastRank
      <3>4. /\ Len(reports) = c /\ IsSeq(reports) /\ limits.reports \in Nat
        BY CoreFacts, UInt64MaxAssumption DEF ReportsAccounted, CoreInv, UInt64
      <3>5. /\ Len(reports') = c + 1
            /\ \A k \in 1 .. c : reports'[k] = reports[k]
            /\ reports'[c + 1] = Value(new)
        BY <2>4, <2>6, <3>4, Appended
      <3>6. Len(reports') <= limits.reports
        <4> HIDE DEF c
        <4> QED BY <2>4, <2>6, <3>3, <3>4, <3>5
      <3> HIDE DEF n
      <3>7. ASSUME NEW i \in S'
            PROVE  reports'[Rank(S', i)] = Value(UNION {u.reportId : u \in decisions'[i].urr})
        <4>1. CASE i = n
          BY <2>2, <3>1, <3>3, <3>5, <4>1
        <4>2. CASE i \in S
          <5>1. Rank(S', i) = Rank(S, i) /\ Rank(S, i) \in 1 .. c /\ decisions'[i] = decisions[i]
            BY <3>1, <3>3, <4>2
          <5>2. reports[Rank(S, i)] = Value(UNION {u.reportId : u \in decisions[i].urr})
            BY <4>2 DEF ReportsAccounted
          <5> QED BY <3>5, <5>1, <5>2
        <4> QED BY <3>1, <4>1, <4>2
      <3>8. \A i \in S' : Rank(S', i) = Rank(S, i)'
        BY DEF Rank
      <3>9. Len(reports') = Cardinality(S') /\ limits' = limits
        BY <2>1, <3>1, <3>3, <3>5
      <3> QED BY <3>6, <3>7, <3>8, <3>9 DEF ReportsAccounted
    <2> QED BY <2>5, <2>6
  <1> QED BY <1>1, <1>3, <1>4, Steps DEF Stays, Installs

-----------------------------------------------------------------------------
(* Usage.                                                                  *)

\* The counters account for what was counted since they were created.
UsageInv ==
  /\ UsageAccounted
  /\ \A rs \in rules : DOMAIN since = Ids(rs.urrs)
  /\ \A id \in DOMAIN since : since[id] \in 0 .. Len(decisions)

\* A new pipeline has no counter.
LEMMA InitUsage == Init => UsageInv
PROOF
  <1> SUFFICES ASSUME NEW l \in Limits, Constructed(l) PROVE UsageInv
    BY DEF Init
  <1>1. DOMAIN runtime.urrs = {} /\ DOMAIN since = {} /\ rules = {}
    BY DEF Constructed, NoRuntime
  <1> QED BY <1>1 DEF UsageInv, UsageAccounted

\* An account depends on the decisions, the counter and when it was created.
LEMMA AccountUnchanged ==
  ASSUME NEW id, Accounted(id), UNCHANGED decisions,
         since'[id] = since[id], runtime'.urrs[id] = runtime.urrs[id]
  PROVE  Accounted(id)'
PROOF
  <1>1. Counting(id)' = Counting(id) /\ Reporting' = Reporting
    BY DEF Counting, Reporting
  <1>2. ASSUME NEW i
        PROVE  /\ UsageOf(id, i)' = UsageOf(id, i)
               /\ PayloadBefore(id, i)' = PayloadBefore(id, i)
               /\ PayloadAfter(id, i)' = PayloadAfter(id, i)
               /\ Rank(Counting(id), i)' = Rank(Counting(id), i)
    BY <1>1 DEF UsageOf, PayloadBefore, PayloadAfter, Rank
  <1> QED BY <1>1, <1>2 DEF Accounted

\* A decision that does not count for a URR leaves its account alone.
LEMMA AccountKept ==
  ASSUME CoreInv, NEW id, Accounted(id),
         NEW d, IsDecision(d), Retain(d),
         since'[id] = since[id], runtime'.urrs[id] = runtime.urrs[id],
         d.result \notin CommittedResults \/ \A u \in d.urr : u.urrId # id
  PROVE  Accounted(id)'
PROOF
  <1> DEFINE n == Len(decisions) + 1
             S == Counting(id)
  <1>1. /\ n \in Nat /\ n - 1 \in Nat /\ n \notin DOMAIN decisions
        /\ DOMAIN decisions = 1 .. n - 1 /\ DOMAIN decisions' = 1 .. n
        /\ Len(decisions') = n /\ n \in 1 .. n
        /\ \A i \in DOMAIN decisions : decisions'[i] = decisions[i]
        /\ decisions'[n].result = d.result /\ decisions'[n].urr = d.urr
    BY Retained, Appended DEF CoreInv
  <1>2. Reporting' \subseteq Reporting \cup {n} /\ Reporting \subseteq Reporting'
    BY ReportingGrows
  <1>3. Len(decisions) + 1 = n
    OBVIOUS
  <1> HIDE DEF n
  <1>4. S' = S
    <2>1. \A i \in DOMAIN decisions' : i \in DOMAIN decisions \/ i = n
      BY <1>1
    <2>2. \A i \in S' : i \in S
      BY <1>1, <2>1 DEF Counting
    <2>3. \A i \in S : i \in S'
      BY <1>1 DEF Counting
    <2> QED BY <2>2, <2>3
  <1>5. S \subseteq 1 .. n - 1
    BY <1>1 DEF Counting
  <1>6. \A i \in S : decisions'[i] = decisions[i] /\ UsageOf(id, i)' = UsageOf(id, i)
    BY <1>1, <1>5 DEF UsageOf
  <1>7. S \cap Reporting' = S \cap Reporting
    BY <1>1, <1>2, <1>5
  <1>8. \A i \in S : Rank(Counting(id), i)' = Rank(Counting(id), i)
    BY <1>4 DEF Rank
  <1>9. \A j \in S : PayloadBefore(id, j)' = PayloadBefore(id, j)
    BY <1>1, <1>5, <1>6 DEF PayloadBefore
  <1>10. \A i \in S \cup {0} : PayloadAfter(id, i)' = PayloadAfter(id, i)
    BY <1>6 DEF PayloadAfter
  <1>11. \A j : j = n + 1 => PayloadBefore(id, j)' = PayloadBefore(id, n)
    BY <1>1 DEF PayloadBefore
  <1>12. ASSUME NEW i \in S \cup {0}, NEW j \in S \cup {n + 1},
                i < j, \A k \in S : k <= i \/ k >= j
         PROVE  PayloadBefore(id, j)' = PayloadAfter(id, i)'
    <2>1. CASE j \in S
      <3>1. PayloadBefore(id, j) = PayloadAfter(id, i)
        BY <1>12, <2>1 DEF Accounted
      <3> QED BY <1>9, <1>10, <2>1, <3>1
    <2>2. CASE j = n + 1
      <3>1. i < n /\ \A k \in S : k <= i \/ k >= n
        BY <1>1, <1>5, <1>12, <2>2
      <3>2. PayloadBefore(id, n) = PayloadAfter(id, i)
        BY <1>3, <3>1 DEF Accounted
      <3> QED BY <1>10, <1>11, <2>2, <3>2
    <2> QED BY <2>1, <2>2
  <1>13. /\ runtime'.urrs[id].packets = Cardinality(S')
         /\ Cardinality(S' \cap Reporting') = IF runtime'.urrs[id].reportEmitted THEN 1 ELSE 0
    BY <1>4, <1>7 DEF Accounted
  <1>14. \A i \in S' :
           /\ UsageOf(id, i)'.packetsAfter = Rank(Counting(id), i)'
           /\ UsageOf(id, i)'.bytesAfter =
                UsageOf(id, i)'.bytesBefore + decisions'[i].packet.payloadBytes
    BY <1>4, <1>6, <1>8 DEF Accounted
  <1>15. \A i \in S' \cup {0}, j \in S' \cup {Len(decisions') + 1} :
           (i < j /\ \A k \in S' : k <= i \/ k >= j)
             => PayloadBefore(id, j)' = PayloadAfter(id, i)'
    BY <1>1, <1>4, <1>12
  <1> QED BY <1>13, <1>14, <1>15 DEF Accounted

\* The ranks among the decisions that counted for a URR, and one more.
LEMMA CountingRanks ==
  ASSUME CoreInv, NEW id, NEW n, n = Len(decisions) + 1
  PROVE  LET S == Counting(id)
             c == Cardinality(S)
             R == S \cap Reporting
         IN  /\ n \in Nat \ {0} /\ S \in SUBSET (1 .. n - 1) /\ R \in SUBSET (1 .. n - 1)
             /\ c \in Nat /\ Cardinality(S \cup {n}) = c + 1 /\ Rank(S \cup {n}, n) = c + 1
             /\ n \notin S /\ n \notin Reporting
             /\ Cardinality(R \cup {n}) = Cardinality(R) + 1
PROOF
  <1>1. n \in Nat \ {0} /\ DOMAIN decisions = 1 .. n - 1
    BY Appended DEF CoreInv
  <1>2. /\ Counting(id) \in SUBSET (1 .. n - 1)
        /\ Counting(id) \cap Reporting \in SUBSET (1 .. n - 1) /\ n \notin Reporting
    BY <1>1 DEF Counting, Reporting
  <1>3. ASSUME NEW S \in SUBSET (1 .. n - 1)
        PROVE  /\ Cardinality(S) \in Nat /\ n \notin S
               /\ Cardinality(S \cup {n}) = Cardinality(S) + 1
               /\ Rank(S \cup {n}, n) = Cardinality(S) + 1
    <2>1. n \in Nat \ {0}
      BY <1>1
    <2> QED BY <2>1, LastRank
  <1> QED BY <1>1, <1>2, <1>3

\* The evaluation u of URR id counted a packet with that payload.
CountsFor(u, id, bytes) ==
  LET usage == runtime.urrs[id]
      next  == runtime'.urrs[id]
  IN  /\ usage \in UsageCounterState /\ u.urrId = id
      /\ u.packetsAfter = usage.packets + 1 /\ next.packets = usage.packets + 1
      /\ u.bytesBefore = usage.payloadBytes
      /\ u.bytesAfter = usage.payloadBytes + bytes
      /\ next.payloadBytes = usage.payloadBytes + bytes
      /\ usage.reportEmitted => u.reportId = {} /\ next.reportEmitted
      /\ ~ usage.reportEmitted => (next.reportEmitted <=> u.reportId # {})

\* A decision that counts for a URR adds one packet, its payload, and its
\* report when it is the first to reach the threshold.
LEMMA AccountGrows ==
  ASSUME CoreInv, NEW id, Accounted(id), since[id] \in 0 .. Len(decisions),
         NEW d, IsDecision(d), Retain(d), d.result \in CommittedResults,
         NEW u, d.urr = {u}, CountsFor(u, id, d.packet.payloadBytes),
         since'[id] = since[id]
  PROVE  Accounted(id)'
PROOF
  <1> SUFFICES ASSUME NEW usage \in UsageCounterState, usage = runtime.urrs[id],
                      NEW next, next = runtime'.urrs[id], u.urrId = id,
                      u.packetsAfter = usage.packets + 1, next.packets = usage.packets + 1,
                      u.bytesBefore = usage.payloadBytes,
                      u.bytesAfter = usage.payloadBytes + d.packet.payloadBytes,
                      next.payloadBytes = usage.payloadBytes + d.packet.payloadBytes,
                      usage.reportEmitted => u.reportId = {} /\ next.reportEmitted,
                      ~ usage.reportEmitted => (next.reportEmitted <=> u.reportId # {})
               PROVE  Accounted(id)'
    BY DEF CountsFor
  <1> DEFINE n == Len(decisions) + 1
             S == Counting(id)
             c == Cardinality(S)
  <1>1. /\ n \in Nat \ {0} /\ n - 1 \in Nat /\ n \notin DOMAIN decisions /\ n - 1 = Len(decisions)
        /\ DOMAIN decisions = 1 .. n - 1 /\ DOMAIN decisions' = 1 .. n
        /\ Len(decisions') = n /\ n \in 1 .. n
        /\ \A i \in DOMAIN decisions : decisions'[i] = decisions[i]
        /\ decisions'[n].result = d.result /\ decisions'[n].urr = d.urr
        /\ decisions'[n].packet = d.packet
    BY Retained, Appended DEF CoreInv
  <1>2. Reporting' = IF u.reportId # {} THEN Reporting \cup {n} ELSE Reporting
    BY ReportingGrows
  <1>3. Len(decisions) + 1 = n
    OBVIOUS
  <1> HIDE DEF n
  <1>0. /\ n \in Nat \ {0} /\ S \in SUBSET (1 .. n - 1) /\ S \cap Reporting \in SUBSET (1 .. n - 1)
        /\ c \in Nat /\ Cardinality(S \cup {n}) = c + 1 /\ Rank(S \cup {n}, n) = c + 1
        /\ n \notin S /\ n \notin Reporting
        /\ Cardinality((S \cap Reporting) \cup {n}) = Cardinality(S \cap Reporting) + 1
    BY <1>3, CountingRanks
  <1>4. S' = S \cup {n}
    <2>1. \A i \in DOMAIN decisions' : i \in DOMAIN decisions \/ i = n
      BY <1>1
    <2>2. \A i \in S' : i \in S \/ i = n
      BY <1>1, <2>1 DEF Counting
    <2>3. \A i \in S : i \in S'
      BY <1>1 DEF Counting
    <2>4. n > since[id]
      BY <1>1
    <2>5. n \in S'
      BY <1>1, <2>4 DEF Counting
    <2> QED BY <2>2, <2>3, <2>5
  <1>6. /\ c \in Nat /\ Cardinality(S') = c + 1 /\ n \notin S
        /\ \A j : j = n => Rank(Counting(id), j)' = c + 1
        /\ \A i \in S : Rank(Counting(id), i)' = Rank(Counting(id), i)
    <2>1. \A j : Rank(Counting(id), j)' = Rank(S \cup {n}, j)
      BY <1>4 DEF Rank
    <2>2. ASSUME NEW i \in S PROVE Rank(S \cup {n}, i) = Rank(S, i)
      BY <1>0, EarlierRank
    <2> QED BY <1>0, <1>4, <2>1, <2>2
  <1>7. \A i \in S : /\ decisions'[i] = decisions[i] /\ UsageOf(id, i)' = UsageOf(id, i)
                     /\ i \in DOMAIN decisions /\ i \in DOMAIN decisions' /\ i # 0 /\ i < n
    <2>1. ASSUME NEW i \in S
          PROVE  i \in DOMAIN decisions /\ i \in DOMAIN decisions' /\ i # 0 /\ i < n
      BY <1>0, <1>1
    <2>2. \A i \in S : decisions'[i] = decisions[i]
      BY <1>1, <2>1
    <2>3. \A i \in S : UsageOf(id, i)' = UsageOf(id, i)
      BY <2>2 DEF UsageOf
    <2> QED BY <2>1, <2>2, <2>3
  <1>8. \A j : j = n => UsageOf(id, j)' = u
    <2> SUFFICES ASSUME NEW j, j = n PROVE UsageOf(id, j)' = u
      OBVIOUS
    <2>1. decisions'[j].urr = {u}
      BY <1>1
    <2>2. {v \in decisions'[j].urr : v.urrId = id} = {u}
      BY <2>1
    <2> QED BY <2>2, ValueOfSingleton DEF UsageOf
  <1>9. /\ \A i \in S : /\ PayloadBefore(id, i)' = PayloadBefore(id, i)
                        /\ PayloadAfter(id, i)' = PayloadAfter(id, i)
        /\ \A j : j = 0 => PayloadAfter(id, j)' = PayloadAfter(id, j)
    BY <1>7 DEF PayloadBefore, PayloadAfter
  <1>10. /\ PayloadBefore(id, n) = usage.payloadBytes
         /\ \A j : j = n => /\ PayloadBefore(id, j)' = usage.payloadBytes
                            /\ PayloadAfter(id, j)' = u.bytesAfter
    BY <1>1, <1>8 DEF PayloadBefore, PayloadAfter
  <1>11. \A j : j = n + 1 => PayloadBefore(id, j)' = u.bytesAfter
    BY <1>1 DEF PayloadBefore
  <1>12. ASSUME NEW i \in S \cup {n, 0}, NEW j \in S \cup {n, n + 1},
                i < j, \A k \in S \cup {n} : k <= i \/ k >= j
         PROVE  PayloadBefore(id, j)' = PayloadAfter(id, i)'
    <2>1. CASE j \in S
      <3>1. i \in S \cup {0}
        BY <1>1, <1>7, <1>12, <2>1
      <3>2. PayloadBefore(id, j) = PayloadAfter(id, i)
        BY <1>12, <2>1, <3>1 DEF Accounted
      <3> QED BY <1>9, <2>1, <3>1, <3>2
    <2>2. CASE j = n
      <3>1. i \in S \cup {0}
        BY <1>1, <1>12, <2>2
      <3>2. PayloadBefore(id, n) = PayloadAfter(id, i)
        BY <1>3, <1>12, <2>2, <3>1 DEF Accounted
      <3> QED BY <1>9, <1>10, <2>2, <3>1, <3>2
    <2>3. CASE j = n + 1
      <3>1. i = n
        <4>1. n \in Nat \ {0}
          BY <1>0
        <4>2. n <= i
          <5>1. n <= i \/ n >= j
            BY <1>12
          <5> QED BY <2>3, <4>1, <5>1
        <4>3. i # 0
          BY <4>1, <4>2
        <4>4. i \notin S
          <5>1. i \in S => i < n /\ i \in Nat
            BY <1>0
          <5> QED BY <4>1, <4>2, <5>1
        <4> QED BY <1>12, <4>3, <4>4
      <3> QED BY <1>10, <1>11, <2>3, <3>1
    <2> QED BY <1>12, <2>1, <2>2, <2>3
  <1>13. runtime'.urrs[id].packets = Cardinality(S')
    BY <1>6 DEF Accounted
  <1>14. Cardinality(S' \cap Reporting') = IF runtime'.urrs[id].reportEmitted THEN 1 ELSE 0
    <2> DEFINE R == S \cap Reporting
    <2>1. Cardinality(R) = IF usage.reportEmitted THEN 1 ELSE 0
      BY DEF Accounted
    <2>3. Cardinality(R \cup {n}) = Cardinality(R) + 1
      BY <1>0
    <2>5. S' \cap Reporting' = IF u.reportId # {} THEN R \cup {n} ELSE R
      BY <1>0, <1>2, <1>4
    <2> HIDE DEF R
    <2>6. usage.reportEmitted \in BOOLEAN
      BY DEF UsageCounterState
    <2>7. CASE usage.reportEmitted
      BY <2>1, <2>5, <2>7
    <2>8. CASE ~ usage.reportEmitted
      <3>1. CASE u.reportId # {}
        <4>1. next.reportEmitted
          BY <2>8, <3>1
        <4>2. Cardinality(S' \cap Reporting') = 1
          <5>1. Cardinality(R) = 0
            BY <2>1, <2>8
          <5>2. S' \cap Reporting' = R \cup {n}
            BY <2>5, <3>1
          <5>3. Cardinality(R \cup {n}) = 1
            BY <2>3, <5>1
          <5> QED BY <5>2, <5>3, Zenon
        <4> QED BY <4>1, <4>2
      <3>2. CASE u.reportId = {}
        BY <2>1, <2>5, <2>8, <3>2
      <3> QED BY <3>1, <3>2
    <2> QED BY <2>7, <2>8
  <1>15. \A i \in S' :
           /\ UsageOf(id, i)'.packetsAfter = Rank(Counting(id), i)'
           /\ UsageOf(id, i)'.bytesAfter =
                UsageOf(id, i)'.bytesBefore + decisions'[i].packet.payloadBytes
    <2>1. ASSUME NEW i \in S
          PROVE  /\ UsageOf(id, i)'.packetsAfter = Rank(Counting(id), i)'
                 /\ UsageOf(id, i)'.bytesAfter =
                      UsageOf(id, i)'.bytesBefore + decisions'[i].packet.payloadBytes
      BY <1>6, <1>7 DEF Accounted
    <2>2. ASSUME NEW i, i = n
          PROVE  /\ UsageOf(id, i)'.packetsAfter = Rank(Counting(id), i)'
                 /\ UsageOf(id, i)'.bytesAfter =
                      UsageOf(id, i)'.bytesBefore + decisions'[i].packet.payloadBytes
      <3>1. usage.packets = c
        BY DEF Accounted
      <3>2. UsageOf(id, i)' = u /\ Rank(Counting(id), i)' = c + 1 /\ decisions'[i].packet = d.packet
        BY <1>1, <1>6, <1>8, <2>2
      <3> QED BY <3>1, <3>2
    <2> QED BY <1>4, <2>1, <2>2
  <1>16. \A i \in S' \cup {0}, j \in S' \cup {Len(decisions') + 1} :
           (i < j /\ \A k \in S' : k <= i \/ k >= j)
             => PayloadBefore(id, j)' = PayloadAfter(id, i)'
    BY <1>1, <1>4, <1>12
  <1> QED BY <1>13, <1>14, <1>15, <1>16 DEF Accounted

\* The counter of a URR that was not there before starts with nothing.
LEMMA AccountStarts ==
  ASSUME CoreInv, NEW id, UNCHANGED decisions,
         since'[id] = Len(decisions), runtime'.urrs[id] = FreshUsage
  PROVE  Accounted(id)'
PROOF
  <1> DEFINE n == Len(decisions) + 1
  <1>1. n \in Nat \ {0} /\ n - 1 = Len(decisions) /\ DOMAIN decisions = 1 .. n - 1
    BY Appended DEF CoreInv
  <1>2. Counting(id)' = {}
    <2>1. \A i \in 1 .. n - 1 : ~ (i > n - 1)
      BY <1>1
    <2> QED BY <1>1, <2>1 DEF Counting
  <1>3. /\ runtime'.urrs[id].packets = 0 /\ runtime'.urrs[id].payloadBytes = 0
        /\ runtime'.urrs[id].reportEmitted = FALSE
    BY DEF FreshUsage
  <1>4. \A j : j = n => PayloadBefore(id, j)' = 0
    BY <1>1, <1>3 DEF PayloadBefore
  <1>5. \A i : i = 0 => PayloadAfter(id, i)' = 0
    BY DEF PayloadAfter
  <1>6. Cardinality({}) = 0 /\ {} \cap Reporting' = {}
    BY FS_EmptySet
  <1>7. \A i \in {} \cup {0}, j \in {} \cup {Len(decisions') + 1} :
          PayloadBefore(id, j)' = PayloadAfter(id, i)'
    BY <1>4, <1>5
  <1> HIDE DEF n
  <1> QED BY <1>2, <1>3, <1>6, <1>7 DEF Accounted

\* A URR was in the ruleset before, with this generation, exactly when its
\* counter survives the installation.
LEMMA SameGenerationSurvives ==
  ASSUME CoreInv, NEW rs, WellTypedRuleSet(rs), ValidateRuleSet(rs), NEW id \in Ids(rs.urrs)
  PROVE  SameGeneration(rs, id) <=>
           Survives(runtime.urrs, runtime.urrGenerations, RuleOf(rs.urrs, id))
PROOF
  <1>1. RuleOf(rs.urrs, id).id = id
    BY RuleOfId, ValidListsAreUnique DEF WellTypedRuleSet
  <1>2. CASE rules = {}
    <2>1. DOMAIN runtime.urrs = {}
      BY <1>2 DEF CoreInv, NoRuntime
    <2> QED BY <1>1, <1>2, <2>1 DEF SameGeneration, Survives
  <1>3. ASSUME NEW old \in rules
        PROVE  SameGeneration(rs, id) <=>
                 Survives(runtime.urrs, runtime.urrGenerations, RuleOf(rs.urrs, id))
    <2>1. /\ rules = {old} /\ WellTypedRuleSet(old) /\ ValidateRuleSet(old)
          /\ RuntimeOf(runtime, old)
      BY CoreFacts
    <2>2. Survives(runtime.urrs, runtime.urrGenerations, RuleOf(rs.urrs, id)) <=>
            /\ id \in Ids(old.urrs)
            /\ RuleOf(old.urrs, id).generation = RuleOf(rs.urrs, id).generation
      BY <1>1, <2>1, SurvivesInRuntime
    <2>3. CASE id \in Ids(old.urrs)
      <3>1. FindRule(old.urrs, id) = {RuleOf(old.urrs, id)}
        BY <2>1, <2>3, RuleOfId, ValidListsAreUnique DEF WellTypedRuleSet
      <3> QED BY <2>1, <2>2, <2>3, <3>1 DEF SameGeneration
    <2>4. CASE id \notin Ids(old.urrs)
      <3>1. FindRule(old.urrs, id) = {}
        BY <2>4, FoundIsListed
      <3> QED BY <2>1, <2>2, <2>4, <3>1 DEF SameGeneration
    <2> QED BY <2>3, <2>4
  <1> QED BY <1>2, <1>3

\* install starts the account of a new counter and keeps that of a surviving
\* one.
LEMMA InstallKeepsUsage ==
  ASSUME CoreInv, UsageInv, NEW rs, Installs(rs)
  PROVE  UsageInv'
PROOF
  <1>1. /\ WellTypedRuleSet(rs) /\ ValidateRuleSet(rs) /\ rules' = {rs}
        /\ runtime' = Migrated(runtime, rs) /\ UNCHANGED decisions
        /\ since' = [id \in Ids(rs.urrs) |->
                       IF SameGeneration(rs, id) THEN since[id] ELSE Len(decisions)]
    BY RuleSetsAssumption DEF Installs, Install
  <1>2. DOMAIN since' = Ids(rs.urrs) /\ DOMAIN runtime'.urrs = Ids(rs.urrs)
    BY <1>1 DEF Migrated
  <1>3. Len(decisions) \in Nat
    BY Appended DEF CoreInv
  <1>4. ASSUME NEW id \in Ids(rs.urrs)
        PROVE  Accounted(id)' /\ since'[id] \in 0 .. Len(decisions)
    <2> DEFINE rule == RuleOf(rs.urrs, id)
    <2>1. SameGeneration(rs, id) <=> Survives(runtime.urrs, runtime.urrGenerations, rule)
      BY <1>1, SameGenerationSurvives
    <2>2. runtime'.urrs[id] = IF Survives(runtime.urrs, runtime.urrGenerations, rule)
                              THEN runtime.urrs[id] ELSE FreshUsage
      BY <1>1 DEF Migrated
    <2>3. since'[id] = IF SameGeneration(rs, id) THEN since[id] ELSE Len(decisions)
      BY <1>1
    <2>4. CASE SameGeneration(rs, id)
      <3>1. rule.id = id
        BY <1>1, RuleOfId, ValidListsAreUnique DEF WellTypedRuleSet
      <3>2. id \in DOMAIN runtime.urrs
        BY <2>1, <2>4, <3>1 DEF Survives
      <3>3. id \in DOMAIN since
        <4>1. PICK old \in rules : TRUE
          BY <2>4 DEF SameGeneration
        <4> QED BY <3>2, <4>1, CoreFacts DEF UsageInv, RuntimeOf
      <3>4. Accounted(id) /\ since[id] \in 0 .. Len(decisions)
        BY <3>2, <3>3 DEF UsageInv, UsageAccounted
      <3>5. runtime'.urrs[id] = runtime.urrs[id] /\ since'[id] = since[id]
        BY <2>1, <2>2, <2>3, <2>4
      <3>6. Accounted(id)'
        BY <1>1, <3>4, <3>5, AccountUnchanged
      <3> QED BY <3>4, <3>5, <3>6
    <2>5. CASE ~ SameGeneration(rs, id)
      BY <1>1, <1>3, <2>1, <2>2, <2>3, <2>5, AccountStarts
    <2> QED BY <2>4, <2>5
  <1>5. Len(decisions') = Len(decisions)
    BY <1>1
  <1> QED BY <1>1, <1>2, <1>4, <1>5 DEF UsageInv, UsageAccounted

\* Every step keeps the accounts.
LEMMA StepKeepsUsage == CoreInv /\ UsageInv /\ [Next]_vars => UsageInv'
PROOF
  <1> SUFFICES ASSUME CoreInv, UsageInv, [Next]_vars PROVE UsageInv'
    OBVIOUS
  <1>1. CASE Stays
    <2>1. UNCHANGED <<rules, runtime, decisions, since>>
      BY <1>1 DEF Stays
    <2>2. ASSUME NEW id \in DOMAIN runtime.urrs PROVE Accounted(id)'
      BY <2>1, AccountUnchanged DEF UsageInv, UsageAccounted
    <2> QED BY <2>1, <2>2 DEF UsageInv, UsageAccounted
  <1>2. ASSUME NEW rs, Installs(rs) PROVE UsageInv'
    BY <1>2, InstallKeepsUsage
  <1>3. ASSUME NEW d, IsDecision(d), Retain(d), UNCHANGED <<rules, since>>,
               DOMAIN runtime'.urrs = DOMAIN runtime.urrs,
               \A id \in DOMAIN runtime.urrs : Accounted(id)'
        PROVE  UsageInv'
    <2>1. Len(decisions') = Len(decisions) + 1 /\ Len(decisions) \in Nat
      BY <1>3, Retained, Appended DEF CoreInv
    <2>2. ASSUME NEW id \in DOMAIN since PROVE since'[id] \in 0 .. Len(decisions')
      <3>1. since[id] \in 0 .. Len(decisions) /\ since'[id] = since[id]
        BY <1>3 DEF UsageInv
      <3> QED BY <2>1, <3>1
    <2>3. UsageAccounted'
      BY <1>3 DEF UsageAccounted
    <2> QED BY <1>3, <2>2, <2>3 DEF UsageInv
  <1>4. ASSUME NEW p, NEW d, RefusesPacket(p, d) PROVE UsageInv'
    <2>1. /\ IsDecision(d) /\ Retain(d) /\ UNCHANGED <<rules, since>>
          /\ d.result \notin CommittedResults
      BY <1>4 DEF RefusesPacket, Refuses
    <2>2. runtime'.urrs = runtime.urrs
      BY <1>4, RefusedRuntime
    <2>3. ASSUME NEW id \in DOMAIN runtime.urrs PROVE Accounted(id)'
      BY <2>1, <2>2, AccountKept DEF UsageInv, UsageAccounted
    <2> QED BY <1>3, <2>1, <2>2, <2>3
  <1>5. ASSUME NEW pdr, NEW p, NEW d, CommitsPacket(pdr, p, d) PROVE UsageInv'
    <2>1. /\ IsDecision(d) /\ Retain(d) /\ UNCHANGED <<rules, since>>
          /\ d.result \in CommittedResults /\ d.urr = UrrDecisions(pdr, p) /\ d.packet = p
          /\ p \in Packets /\ Acceptable(p) /\ pdr \in Winner(Active, p)
          /\ PlanFailures(pdr, p) = {}
      BY <1>5, CommittedResult DEF CommitsPacket, Commits
    <2>2. runtime'.urrs = CountedUrrs(pdr, p) /\ DOMAIN runtime'.urrs = DOMAIN runtime.urrs
      BY <1>5, CommittedRuntime
    <2>3. CASE UrrDecisions(pdr, p) = {} /\ runtime'.urrs = runtime.urrs
      <3>1. ASSUME NEW id \in DOMAIN runtime.urrs PROVE Accounted(id)'
        BY <2>1, <2>3, AccountKept DEF UsageInv, UsageAccounted
      <3> QED BY <1>3, <2>1, <2>2, <3>1
    <2>4. ASSUME NEW rs \in rules, NEW u, NEW usage, NEW next, NEW ud,
                 usage = runtime.urrs[u.id], usage \in UsageCounterState,
                 u.id \in DOMAIN runtime.urrs,
                 ~ UrrOverflows(usage, p.payloadBytes),
                 ud = UrrDecision(u, usage, p.payloadBytes, rs.sessionId, rs.version),
                 UrrDecisions(pdr, p) = {ud},
                 next = runtime'.urrs[u.id],
                 next = UrrNext(u, usage, p.payloadBytes),
                 \A id \in DOMAIN runtime.urrs :
                   id # u.id => runtime'.urrs[id] = runtime.urrs[id]
          PROVE  UsageInv'
      <3>1. /\ ud.urrId = u.id
            /\ ud.packetsAfter = usage.packets + 1 /\ ud.bytesBefore = usage.payloadBytes
            /\ ud.bytesAfter = usage.payloadBytes + p.payloadBytes
            /\ ud.reportId # {} <=> UrrReports(u, usage, p.payloadBytes)
        BY <2>4 DEF UrrDecision
      <3>2. p.payloadBytes \in UInt64
        BY <2>1, PacketsAssumption DEF WellTypedPacket
      <3>3. /\ next.packets = usage.packets + 1
            /\ next.payloadBytes = usage.payloadBytes + p.payloadBytes
            /\ next.reportEmitted =
                 (usage.reportEmitted \/ UrrReports(u, usage, p.payloadBytes))
        BY <2>4, <3>2, UrrNextInRange
      <3>4. usage.reportEmitted => ~ UrrReports(u, usage, p.payloadBytes)
        BY DEF UrrReports
      <3>5. /\ usage.reportEmitted => ud.reportId = {} /\ next.reportEmitted
            /\ ~ usage.reportEmitted => (next.reportEmitted <=> ud.reportId # {})
        BY <3>1, <3>3, <3>4
      <3>6. ASSUME NEW id \in DOMAIN runtime.urrs PROVE Accounted(id)'
        <4>1. Accounted(id) /\ since'[id] = since[id]
          BY <2>1 DEF UsageInv, UsageAccounted
        <4>2. CASE id # u.id
          BY <2>1, <2>4, <3>1, <4>1, <4>2, AccountKept
        <4>3. CASE id = u.id
          <5>1. since[id] \in 0 .. Len(decisions)
            BY <2>4, CoreFacts DEF UsageInv, RuntimeOf
          <5>2. CountsFor(ud, id, d.packet.payloadBytes) /\ d.urr = {ud}
            BY <2>1, <2>4, <3>1, <3>3, <3>5, <4>3 DEF CountsFor
          <5> QED BY <2>1, <4>1, <4>3, <5>1, <5>2, AccountGrows
        <4> QED BY <4>2, <4>3
      <3> QED BY <1>3, <2>1, <2>2, <3>6
    <2> QED BY <2>1, <2>2, <2>3, <2>4, Counted
  <1> QED BY <1>1, <1>2, <1>4, <1>5, Steps

-----------------------------------------------------------------------------
(* The limits of a rule.                                                   *)

\* Bucket and counter stay within what the rule says; a counter that counted
\* nothing holds nothing.
BucketWithin(qer) == runtime.qers[qer.id].tokensBytes <= qer.burstBytes

CounterWithin(urr) ==
  LET usage == runtime.urrs[urr.id]
  IN  /\ usage.packets > 0 =>
           (usage.reportEmitted <=> usage.payloadBytes >= urr.volumeThresholdBytes)
      /\ usage.packets = 0 => ~ usage.reportEmitted

LimitsInv ==
  ParametersFollowGenerations =>
    \A rs \in rules : /\ \A i \in DOMAIN rs.qers : BucketWithin(rs.qers[i])
                      /\ \A i \in DOMAIN rs.urrs : CounterWithin(rs.urrs[i])

\* The invariant is stronger than the property, and a new pipeline has it.
LEMMA LimitsFollow == (LimitsInv => LimitsEnforced) /\ (Init => LimitsInv)
PROOF
  <1>1. LimitsInv => LimitsEnforced
    BY DEF LimitsInv, LimitsEnforced, BucketWithin, CounterWithin
  <1>2. Init => LimitsInv
    BY DEF Init, Constructed, LimitsInv
  <1> QED BY <1>1, <1>2

\* install: a surviving bucket or counter meets a rule with the parameters of
\* the one it was kept for.
LEMMA InstallKeepsLimits ==
  ASSUME CoreInv, LimitsInv, NEW rs, Installs(rs)
  PROVE  LimitsInv'
PROOF
  <1>1. /\ rs \in RuleSets /\ WellTypedRuleSet(rs) /\ ValidateRuleSet(rs) /\ rules' = {rs}
        /\ runtime' = Migrated(runtime, rs)
    BY RuleSetsAssumption DEF Installs, Install
  <1>2. /\ UniqueIds(rs.qers) /\ UniqueIds(rs.urrs) /\ IsVector(rs.qers) /\ IsVector(rs.urrs)
    BY <1>1, ValidListsAreUnique DEF WellTypedRuleSet
  <1> SUFFICES ASSUME ParametersFollowGenerations
               PROVE  /\ \A i \in DOMAIN rs.qers : BucketWithin(rs.qers[i])'
                      /\ \A i \in DOMAIN rs.urrs : CounterWithin(rs.urrs[i])'
    BY <1>1 DEF LimitsInv, ParametersFollowGenerations
  <1>3. ASSUME NEW i \in DOMAIN rs.qers PROVE BucketWithin(rs.qers[i])'
    <2> DEFINE q == rs.qers[i]
    <2>1. q.id \in Ids(rs.qers) /\ RuleOf(rs.qers, q.id) = q
      BY <1>2, RuleIsFound DEF Ids
    <2>2. runtime'.qers[q.id] = IF Survives(runtime.qers, runtime.qerGenerations, q)
                                THEN runtime.qers[q.id] ELSE FreshBucket(q)
      BY <1>1, <2>1 DEF Migrated
    <2>3. CASE Survives(runtime.qers, runtime.qerGenerations, q)
      <3>1. PICK old \in rules : TRUE
        BY <2>3 DEF CoreInv, NoRuntime, Survives
      <3>2. /\ old \in RuleSets /\ WellTypedRuleSet(old) /\ ValidateRuleSet(old)
            /\ RuntimeOf(runtime, old)
        BY CoreFacts
      <3>3. q.id \in Ids(old.qers) /\ RuleOf(old.qers, q.id).generation = q.generation
        BY <2>3, <3>2, SurvivesInRuntime
      <3>4. PICK j \in DOMAIN old.qers : RuleOf(old.qers, q.id) = old.qers[j]
        BY <3>2, <3>3, RuleOfId, ValidListsAreUnique DEF WellTypedRuleSet
      <3>5. old.qers[j].id = q.id /\ old.qers[j].generation = q.generation
        BY <3>2, <3>3, <3>4, RuleOfId, ValidListsAreUnique DEF WellTypedRuleSet
      <3>6. old.qers[j].burstBytes = q.burstBytes
        BY <1>1, <3>2, <3>5 DEF ParametersFollowGenerations
      <3>7. BucketWithin(old.qers[j])
        BY DEF LimitsInv
      <3> QED BY <2>2, <2>3, <3>5, <3>6, <3>7 DEF BucketWithin
    <2>4. CASE ~ Survives(runtime.qers, runtime.qerGenerations, q)
      <3>1. q.burstBytes \in Int
        BY <1>1, UInt64MaxAssumption DEF WellTypedRuleSet, WellTypedQer, UInt64
      <3> QED BY <2>2, <2>4, <3>1 DEF BucketWithin, FreshBucket
    <2> QED BY <2>3, <2>4
  <1>4. ASSUME NEW i \in DOMAIN rs.urrs PROVE CounterWithin(rs.urrs[i])'
    <2> DEFINE u == rs.urrs[i]
    <2>1. u.id \in Ids(rs.urrs) /\ RuleOf(rs.urrs, u.id) = u
      BY <1>2, RuleIsFound DEF Ids
    <2>2. runtime'.urrs[u.id] = IF Survives(runtime.urrs, runtime.urrGenerations, u)
                                THEN runtime.urrs[u.id] ELSE FreshUsage
      BY <1>1, <2>1 DEF Migrated
    <2>3. CASE Survives(runtime.urrs, runtime.urrGenerations, u)
      <3>1. PICK old \in rules : TRUE
        BY <2>3 DEF CoreInv, NoRuntime, Survives
      <3>2. /\ old \in RuleSets /\ WellTypedRuleSet(old) /\ ValidateRuleSet(old)
            /\ RuntimeOf(runtime, old)
        BY CoreFacts
      <3>3. u.id \in Ids(old.urrs) /\ RuleOf(old.urrs, u.id).generation = u.generation
        BY <2>3, <3>2, SurvivesInRuntime
      <3>4. PICK j \in DOMAIN old.urrs : RuleOf(old.urrs, u.id) = old.urrs[j]
        BY <3>2, <3>3, RuleOfId, ValidListsAreUnique DEF WellTypedRuleSet
      <3>5. old.urrs[j].id = u.id /\ old.urrs[j].generation = u.generation
        BY <3>2, <3>3, <3>4, RuleOfId, ValidListsAreUnique DEF WellTypedRuleSet
      <3>6. old.urrs[j].volumeThresholdBytes = u.volumeThresholdBytes
        BY <1>1, <3>2, <3>5 DEF ParametersFollowGenerations
      <3>7. CounterWithin(old.urrs[j])
        BY DEF LimitsInv
      <3> QED BY <2>2, <2>3, <3>5, <3>6, <3>7 DEF CounterWithin
    <2>4. CASE ~ Survives(runtime.urrs, runtime.urrGenerations, u)
      BY <2>2, <2>4 DEF CounterWithin, FreshUsage
    <2> QED BY <2>3, <2>4
  <1> QED BY <1>3, <1>4

\* Every step keeps the limits.
LEMMA StepKeepsLimits == CoreInv /\ LimitsInv /\ [Next]_vars => LimitsInv'
PROOF
  <1> SUFFICES ASSUME CoreInv, LimitsInv, [Next]_vars PROVE LimitsInv'
    OBVIOUS
  <1>1. CASE Stays
    BY <1>1 DEF Stays, LimitsInv, ParametersFollowGenerations, BucketWithin, CounterWithin
  <1>2. ASSUME NEW rs, Installs(rs) PROVE LimitsInv'
    BY <1>2, InstallKeepsLimits
  <1>3. ASSUME UNCHANGED rules, ParametersFollowGenerations,
               NEW rs \in rules, NEW i \in DOMAIN rs.qers, WellTypedRuntime(runtime'),
               DOMAIN runtime'.qers = DOMAIN runtime.qers,
               \A id \in DOMAIN runtime.qers :
                 \/ runtime'.qers[id].tokensBytes <= RuleOf(rs.qers, id).burstBytes
                 \/ runtime'.qers[id].tokensBytes <= runtime.qers[id].tokensBytes
        PROVE  BucketWithin(rs.qers[i])'
    <2> DEFINE q == rs.qers[i]
    <2>1. WellTypedRuleSet(rs) /\ ValidateRuleSet(rs) /\ RuntimeOf(runtime, rs)
      BY CoreFacts
    <2>2. q.id \in DOMAIN runtime.qers /\ RuleOf(rs.qers, q.id) = q
      BY <2>1, RuleIsFound, ValidListsAreUnique DEF RuntimeOf, Ids, WellTypedRuleSet
    <2>3. runtime.qers[q.id].tokensBytes <= q.burstBytes
      BY <1>3 DEF LimitsInv, BucketWithin
    <2>4. /\ runtime'.qers[q.id].tokensBytes \in Int /\ runtime.qers[q.id].tokensBytes \in Int
          /\ q.burstBytes \in Int
      BY <1>3, <2>1, <2>2, UInt64MaxAssumption
      DEF CoreInv, WellTypedRuntime, TokenBucketState, UInt64, WellTypedRuleSet, WellTypedQer
    <2> QED BY <1>3, <2>2, <2>3, <2>4 DEF BucketWithin
  <1>4. ASSUME NEW p, NEW d, RefusesPacket(p, d) PROVE LimitsInv'
    <2> SUFFICES ASSUME ParametersFollowGenerations, NEW rs \in rules
                 PROVE  /\ \A i \in DOMAIN rs.qers : BucketWithin(rs.qers[i])'
                        /\ \A i \in DOMAIN rs.urrs : CounterWithin(rs.urrs[i])'
      BY <1>4 DEF LimitsInv, RefusesPacket, ParametersFollowGenerations
    <2>1. UNCHANGED rules
      BY <1>4 DEF RefusesPacket
    <2>2. \A i \in DOMAIN rs.qers : BucketWithin(rs.qers[i])'
      BY <1>3, <1>4, <2>1, RefusedRuntime
    <2>3. \A i \in DOMAIN rs.urrs : CounterWithin(rs.urrs[i])'
      <3>1. runtime'.urrs = runtime.urrs
        BY <1>4, RefusedRuntime
      <3> QED BY <3>1 DEF LimitsInv, CounterWithin
    <2> QED BY <2>2, <2>3
  <1>5. ASSUME NEW pdr, NEW p, NEW d, CommitsPacket(pdr, p, d) PROVE LimitsInv'
    <2> SUFFICES ASSUME ParametersFollowGenerations, NEW rs \in rules
                 PROVE  /\ \A i \in DOMAIN rs.qers : BucketWithin(rs.qers[i])'
                        /\ \A i \in DOMAIN rs.urrs : CounterWithin(rs.urrs[i])'
      BY <1>5 DEF LimitsInv, CommitsPacket, ParametersFollowGenerations
    <2>1. /\ UNCHANGED rules /\ p \in Packets /\ Acceptable(p) /\ pdr \in Winner(Active, p)
          /\ PlanFailures(pdr, p) = {}
      BY <1>5 DEF CommitsPacket, Commits
    <2>2. \A i \in DOMAIN rs.qers : BucketWithin(rs.qers[i])'
      BY <1>3, <1>5, <2>1, CommittedRuntime
    <2>3. ASSUME NEW i \in DOMAIN rs.urrs PROVE CounterWithin(rs.urrs[i])'
      <3> DEFINE r == rs.urrs[i]
      <3>1. runtime'.urrs = CountedUrrs(pdr, p)
        BY <1>5, CommittedRuntime
      <3>2. CounterWithin(r)
        BY DEF LimitsInv
      <3>3. /\ rules = {rs} /\ r.id \in DOMAIN runtime.urrs /\ RuleOf(rs.urrs, r.id) = r
            /\ WellTypedUrr(r)
        BY CoreFacts, RuleIsFound, ValidListsAreUnique DEF RuntimeOf, Ids, WellTypedRuleSet
      <3>4. CASE runtime'.urrs[r.id] = runtime.urrs[r.id]
        BY <3>2, <3>4 DEF CounterWithin
      <3>5. CASE runtime'.urrs[r.id] # runtime.urrs[r.id]
        <4>1. PICK u \in UrrsOf(pdr) :
                /\ u = RuleOf(rs.urrs, u.id) /\ u.id = r.id
                /\ runtime.urrs[u.id] \in UsageCounterState
                /\ ~ UrrOverflows(runtime.urrs[u.id], p.payloadBytes)
                /\ runtime'.urrs[u.id] = UrrNext(u, runtime.urrs[u.id], p.payloadBytes)
          BY <2>1, <3>1, <3>3, <3>5, Counted
        <4> DEFINE usage == runtime.urrs[r.id]
                   next == runtime'.urrs[r.id]
                   bytes == p.payloadBytes
        <4>2. /\ u = r /\ usage \in UsageCounterState /\ ~ UrrOverflows(usage, bytes)
              /\ next = UrrNext(r, usage, bytes)
          BY <3>3, <4>1
        <4>3. bytes \in UInt64
          BY <2>1, PacketsAssumption DEF WellTypedPacket
        <4>4. /\ next.packets = usage.packets + 1
              /\ next.payloadBytes = usage.payloadBytes + bytes
              /\ next.reportEmitted = (usage.reportEmitted \/ UrrReports(r, usage, bytes))
          BY <4>2, <4>3, UrrNextInRange
        <4> HIDE DEF r, usage, next, bytes
        <4>5. /\ usage.packets \in Nat /\ usage.payloadBytes \in Nat /\ bytes \in Nat
              /\ r.volumeThresholdBytes \in Nat
          BY <3>3, <4>2, <4>3, UInt64MaxAssumption DEF UsageCounterState, UInt64, WellTypedUrr
        <4>6. /\ usage.packets > 0 =>
                   (usage.reportEmitted <=> usage.payloadBytes >= r.volumeThresholdBytes)
              /\ usage.packets = 0 => ~ usage.reportEmitted
          BY <3>2 DEF CounterWithin, usage
        <4>7. UrrReports(r, usage, bytes) <=>
                /\ ~ usage.reportEmitted
                /\ next.payloadBytes >= r.volumeThresholdBytes
          BY <4>2, <4>4 DEF UrrReports
        <4>8. usage.reportEmitted => next.payloadBytes >= r.volumeThresholdBytes
          BY <4>4, <4>5, <4>6
        <4>9. next.reportEmitted <=> next.payloadBytes >= r.volumeThresholdBytes
          BY <4>4, <4>7, <4>8
        <4>10. next.packets # 0
          BY <4>4, <4>5
        <4> QED BY <4>9, <4>10 DEF CounterWithin, next, r
      <3> QED BY <3>4, <3>5
    <2> QED BY <2>2, <2>3
  <1> QED BY <1>1, <1>2, <1>4, <1>5, Steps

-----------------------------------------------------------------------------
(* What a step does, and the ports the pipeline implements.                *)

\* A refused packet leaves behind nothing, or the refill of its own bucket.
LEMMA StepRefuses == CoreInv /\ [Next]_vars => RefusalChangesNothing
PROOF
  <1> SUFFICES ASSUME CoreInv, [Next]_vars PROVE RefusalChangesNothing
    OBVIOUS
  <1>1. \A id \in DOMAIN runtime.qers : runtime.qers[id].tokensBytes \in Int
    BY UInt64MaxAssumption DEF CoreInv, WellTypedRuntime, TokenBucketState, UInt64
  <1>2. CASE UNCHANGED <<sinks, reports, runtime>>
    BY <1>1, <1>2 DEF RefusalChangesNothing
  <1>3. ASSUME NEW rs, Installs(rs) PROVE RefusalChangesNothing
    <2> SUFFICES ASSUME rules' = rules PROVE RefusalChangesNothing
      BY DEF RefusalChangesNothing
    <2>1. /\ runtime' = Migrated(runtime, rs) /\ rs \in rules
          /\ UNCHANGED <<sinks, reports>>
      BY <1>3 DEF Installs, Install
    <2>2. runtime' = runtime
      BY <2>1, CoreFacts, MigratedAgain DEF CoreInv
    <2> QED BY <1>2, <2>1, <2>2
  <1>4. ASSUME NEW p, NEW d, RefusesPacket(p, d) PROVE RefusalChangesNothing
    <2>1. /\ IsDecision(d) /\ Retain(d) /\ UNCHANGED <<rules, sinks, reports>>
          /\ runtime' = runtime \/ d.result = "RATE_LIMITED"
      BY <1>4 DEF RefusesPacket, Refuses
    <2>2. returned' = {d.result} /\ decisions'[Len(decisions')].qer = d.qer
      BY <2>1, Retained DEF CoreInv
    <2>3. runtime'.urrs = runtime.urrs
      BY <1>4, RefusedRuntime
    <2>4. ASSUME NEW id \in DOMAIN runtime.qers
          PROVE  /\ runtime'.qers[id].tokensBytes >= runtime.qers[id].tokensBytes
                 /\ \/ runtime'.qers[id] = runtime.qers[id]
                    \/ \E q \in d.qer : q.qerId = id
      <3>1. PICK rs \in rules : TRUE
        BY <2>4 DEF CoreInv, NoRuntime
      <3> QED BY <1>4, <3>1, RefusedRuntime
    <2> QED BY <2>1, <2>2, <2>3, <2>4 DEF RefusalChangesNothing
  <1>5. ASSUME NEW pdr, NEW p, NEW d, CommitsPacket(pdr, p, d) PROVE RefusalChangesNothing
    <2>1. Commits(pdr, p, d) /\ Retain(d) /\ IsDecision(d)
      BY <1>5 DEF CommitsPacket, Commits
    <2>2. returned' = {d.result}
      BY <2>1, Retained DEF CoreInv
    <2>3. d.result \in CommittedResults
      BY <2>1, CommittedResult
    <2> QED BY <2>2, <2>3 DEF RefusalChangesNothing
  <1> QED BY <1>2, <1>3, <1>4, <1>5, Steps DEF Stays

\* A constructed pipeline is an empty event sink.
LEMMA InitEventSink == Init => EventSink!Init
PROOF
  <1> SUFFICES ASSUME NEW l \in Limits, Constructed(l) PROVE EventSink!Init
    BY DEF Init
  <1>1. limits \in [results : UInt64, reports : UInt64, events : UInt64, sinkPackets : UInt64]
    BY LimitsAssumption DEF Constructed
  <1> QED BY <1>1, UInt64MaxAssumption DEF EventSink!Init, Constructed, UInt64

\* Each decision retained is one event kept or one event dropped.
LEMMA StepEventSink == CoreInv /\ [Next]_vars => [EventSink!Next]_(EventSink!vars)
PROOF
  <1> SUFFICES ASSUME CoreInv, [Next]_vars PROVE [EventSink!Next]_(EventSink!vars)
    OBVIOUS
  <1>1. CASE UNCHANGED <<limits, events, droppedEvents>>
    BY <1>1 DEF EventSink!vars
  <1>2. ASSUME NEW d, Retain(d), d.result \in TerminalResult, UNCHANGED limits
        PROVE  EventSink!Next
    <2>1. CASE Len(events) < limits.events
      <3>1. EventSink!Keep(d.result)
        BY <1>2, <2>1 DEF Retain, EventSink!Keep
      <3> QED BY <1>2, <3>1 DEF EventSink!Next
    <2>2. CASE ~ (Len(events) < limits.events)
      <3>1. Len(events) \in Nat /\ limits.events \in Nat
        BY CoreFacts, Appended, UInt64MaxAssumption DEF CoreInv, UInt64
      <3>2. Len(events) >= limits.events
        BY <2>2, <3>1
      <3>3. EventSink!Drop
        BY <1>2, <2>2, <3>2 DEF Retain, EventSink!Drop
      <3> QED BY <3>3 DEF EventSink!Next
    <2> QED BY <2>1, <2>2
  <1>3. ASSUME NEW p, NEW d, RefusesPacket(p, d) PROVE EventSink!Next
    BY <1>2, <1>3 DEF RefusesPacket, Refuses
  <1>4. ASSUME NEW pdr, NEW p, NEW d, CommitsPacket(pdr, p, d) PROVE EventSink!Next
    BY <1>2, <1>4, CommittedResult DEF CommitsPacket, Commits
  <1> QED BY <1>1, <1>3, <1>4, Steps DEF Stays, Installs

\* A constructed pipeline has two empty packet sinks.
LEMMA InitPacketSinks == Init => N3Sink!Init /\ N6Sink!Init
PROOF
  <1> SUFFICES ASSUME NEW l \in Limits, Constructed(l) PROVE N3Sink!Init /\ N6Sink!Init
    BY DEF Init
  <1>1. limits \in [results : UInt64, reports : UInt64, events : UInt64, sinkPackets : UInt64]
    BY LimitsAssumption DEF Constructed
  <1> QED BY <1>1, UInt64MaxAssumption
          DEF N3Sink!Init, N6Sink!Init, Constructed, UInt64, Interface

\* Each packet forwarded is one the sink of its interface takes in, while it
\* has space; the other sink stays as it is.
LEMMA StepPacketSinks ==
  CoreInv /\ [Next]_vars => [N3Sink!Next]_(N3Sink!vars) /\ [N6Sink!Next]_(N6Sink!vars)
PROOF
  <1> SUFFICES ASSUME CoreInv, [Next]_vars
               PROVE  [N3Sink!Next]_(N3Sink!vars) /\ [N6Sink!Next]_(N6Sink!vars)
    OBVIOUS
  <1>1. CASE UNCHANGED <<limits, sinks>>
    BY <1>1 DEF N3Sink!vars, N6Sink!vars
  <1>2. ASSUME NEW p \in Packets, NEW to, NEW left, Sends(p, to, left), UNCHANGED limits
        PROVE  [N3Sink!Next]_(N3Sink!vars) /\ [N6Sink!Next]_(N6Sink!vars)
    <2>1. /\ to \in Interface /\ Len(sinks[to]) < limits.sinkPackets
          /\ sinks' = [sinks EXCEPT ![to] = Append(sinks[to], left)]
          /\ left = [p EXCEPT !.tunnel = left.tunnel]
          /\ \/ left.tunnel = {}
             \/ \E rs \in rules : \E i \in DOMAIN rs.fars : left.tunnel = rs.fars[i].tunnel
      BY <1>2 DEF Sends, Interface
    <2>2. left \in LeavingPackets
      <3>1. left.tunnel \in LeavingTunnels
        <4>1. \A rs \in rules : rs \in RuleSets
          BY CoreFacts
        <4> QED BY <2>1, <4>1 DEF LeavingTunnels
      <3>2. left = Through(p, left.tunnel)
        BY <2>1, Zenon DEF Through
      <3> QED BY <3>1, <3>2 DEF LeavingPackets
    <2>3. /\ DOMAIN sinks = Interface
          /\ sinks'[to] = Append(sinks[to], left)
          /\ \A i \in Interface \ {to} : sinks'[i] = sinks[i]
      BY <2>1 DEF CoreInv
    <2>4. CASE to = "N3"
      <3>1. N3Sink!Accept(left) /\ UNCHANGED sinks["N6"]
        BY <1>2, <2>1, <2>3, <2>4 DEF N3Sink!Accept, Interface
      <3> QED BY <1>2, <2>2, <3>1 DEF N3Sink!Next, N6Sink!vars
    <2>5. CASE to = "N6"
      <3>1. N6Sink!Accept(left) /\ UNCHANGED sinks["N3"]
        BY <1>2, <2>1, <2>3, <2>5 DEF N6Sink!Accept, Interface
      <3> QED BY <1>2, <2>2, <3>1 DEF N6Sink!Next, N3Sink!vars
    <2> QED BY <2>1, <2>4, <2>5 DEF Interface
  <1>3. ASSUME NEW pdr, NEW p, NEW d, CommitsPacket(pdr, p, d)
        PROVE  [N3Sink!Next]_(N3Sink!vars) /\ [N6Sink!Next]_(N6Sink!vars)
    BY <1>1, <1>2, <1>3 DEF CommitsPacket, Commits
  <1> QED BY <1>1, <1>3, Steps DEF Stays, Installs, RefusesPacket, Refuses

-----------------------------------------------------------------------------
(* The theorems.                                                           *)

IInv ==
  /\ CoreInv
  /\ EventsInv /\ DecisionsInv
  /\ SinksAccounted /\ ReportsAccounted
  /\ UsageInv /\ LimitsInv

\* The inductive invariant of the pipeline: the constructor establishes it,
\* every call of install and process keeps it.
THEOREM PipelineInvariant == Spec => []IInv
PROOF
  <1>1. Init => IInv
    BY InitCore, InitEvents, InitSinks, InitReports, InitUsage, LimitsFollow DEF IInv
  <1>2. IInv /\ [Next]_vars => IInv'
    BY StepKeepsCore, StepKeepsEvents, StepKeepsDecisions, StepKeepsSinks, StepKeepsReports,
       StepKeepsUsage, StepKeepsLimits DEF IInv
  <1> QED BY <1>1, <1>2, PTL DEF Spec

\* Every state is well typed: no bucket, counter or drop count leaves its 64
\* bits (checkedAdd, checkedMultiply and the saturating counter of retain).
THEOREM PipelineIsTyped == Spec => []TypeOK
PROOF
  <1>1. IInv => TypeOK
    BY DEF IInv, CoreInv, WellTypedRuntime, EventsInv, DecisionsInv, TypeOK
  <1> QED BY <1>1, PipelineInvariant, PTL

\* After every install there is one bucket or counter of the right generation
\* for each QER and URR of a valid ruleset.
THEOREM InstallsTogether == Spec => []RuntimeFollowsRules
PROOF
  <1>1. IInv => RuntimeFollowsRules
    BY DEF IInv, CoreInv, RuntimeOf, RuntimeFollowsRules
  <1> QED BY <1>1, PipelineInvariant, PTL

\* A packet whose PDR was selected ends in a policy outcome or a lack of
\* space or range: no FAR, QER or URR it needs is missing or misfit.
THEOREM ValidationSuffices == Spec => []SelectedIsServed
PROOF
  <1>1. IInv => SelectedIsServed
    BY DEF IInv, DecisionsInv
  <1> QED BY <1>1, PipelineInvariant, PTL

\* The counter of a URR is the running total of the packets committed under
\* it since its generation was installed.
THEOREM UsageIsExact == Spec => []UsageAccounted
PROOF
  <1>1. IInv => UsageAccounted
    BY DEF IInv, UsageInv
  <1> QED BY <1>1, PipelineInvariant, PTL

\* The usage reports are those of the committed decisions, in their order.
THEOREM ReportsAreExact == Spec => []ReportsAccounted
PROOF
  <1>1. IInv => ReportsAccounted
    BY DEF IInv
  <1> QED BY <1>1, PipelineInvariant, PTL

\* Each sink holds the packets the decisions forwarded to it, in their order.
THEOREM SinksAreExact == Spec => []SinksAccounted
PROOF
  <1>1. IInv => SinksAccounted
    BY DEF IInv
  <1> QED BY <1>1, PipelineInvariant, PTL

\* Each retained decision has its event, or is degraded and counted.
THEOREM EventsAreExact == Spec => []EventsAccounted
PROOF
  <1>1. IInv => EventsAccounted
    BY DEF IInv, EventsInv
  <1> QED BY <1>1, PipelineInvariant, PTL

\* No bucket exceeds its burst, and no threshold is passed without a report.
THEOREM LimitsHold == Spec => []LimitsEnforced
PROOF
  <1>1. IInv => LimitsEnforced
    BY LimitsFollow DEF IInv
  <1> QED BY <1>1, PipelineInvariant, PTL

\* What is not committed changes nothing, except for the refill of the
\* rate-limited packet's own bucket.
THEOREM RefusalIsPreflighted == Spec => RefusedChangesNothing
PROOF
  <1>1. IInv /\ [Next]_vars => RefusalChangesNothing
    BY StepRefuses DEF IInv
  <1> QED BY <1>1, PipelineInvariant, PTL DEF Spec, RefusedChangesNothing

\* The event list of the pipeline implements the event sink port.
THEOREM EventsImplementPort == Spec => EventsAreASink
PROOF
  <1>1. IInv /\ [Next]_vars => [EventSink!Next]_(EventSink!vars)
    BY StepEventSink DEF IInv
  <1> QED BY <1>1, InitEventSink, PipelineInvariant, PTL DEF Spec, EventsAreASink, EventSink!Spec

\* Both sinks of the pipeline implement the packet sink port.
THEOREM SinksImplementPort == Spec => SinksArePorts
PROOF
  <1>1. IInv /\ [Next]_vars => [N3Sink!Next]_(N3Sink!vars) /\ [N6Sink!Next]_(N6Sink!vars)
    BY StepPacketSinks DEF IInv
  <1> QED BY <1>1, InitPacketSinks, PipelineInvariant, PTL
          DEF Spec, SinksArePorts, N3Sink!Spec, N6Sink!Spec

-----------------------------------------------------------------------------
(* When the statements of the documents hold that not every input obeys.   *)

\* A ruleset's version names its QERs.
VersionsNameQers == \A a, b \in RuleSets : a.version = b.version => a.qers = b.qers

\* No packet larger than the burst of its QER was committed.
BurstsKept ==
  \A i \in DOMAIN decisions : \A q \in decisions[i].qer, rs \in RuleSets :
    decisions[i].version = rs.version /\ decisions[i].result \in CommittedResults =>
      decisions[i].packet.payloadBytes <= RuleOf(rs.qers, q.qerId).burstBytes

\* A bucket that holds no more than its burst lets no larger packet pass.
LEMMA CommitWithinBurst ==
  ASSUME CoreInv, NEW pdr, NEW p, NEW d, CommitsPacket(pdr, p, d), NEW q \in d.qer,
         \A id \in DOMAIN runtime.qers :
           runtime.qers[id].tokensBytes <= RuleOf(Active.qers, id).burstBytes
  PROVE  p.payloadBytes <= RuleOf(Active.qers, q.qerId).burstBytes
PROOF
  <1>1. /\ p \in Packets /\ Acceptable(p) /\ pdr \in Winner(Active, p) /\ QerFailures(pdr, p) = {}
        /\ d.qer = QerDecisions(pdr, p)
    BY DEF CommitsPacket, Commits
  <1>2. PICK active \in rules :
           \/ QersOf(pdr) = {}
           \/ \E r : /\ QersOf(pdr) = {r} /\ r = RuleOf(active.qers, r.id)
                     /\ r.id \in DOMAIN runtime.qers /\ WellTypedQer(r)
    BY <1>1, SelectedRules
  <1>3. PICK r : /\ QersOf(pdr) = {r} /\ r = RuleOf(active.qers, r.id)
                 /\ r.id \in DOMAIN runtime.qers /\ WellTypedQer(r)
    BY <1>1, <1>2 DEF QerDecisions
  <1> DEFINE b == runtime.qers[r.id]
             bytes == p.payloadBytes
             now == p.arrivalTimeMicros
  <1>4. q = QerDecision(r, b, bytes, now)
    BY <1>1, <1>3 DEF QerDecisions
  <1>5. q.qerId = r.id /\ q.outcome = QerOutcome(r, b, bytes, now)
    BY <1>4 DEF QerDecision
  <1>6. q.outcome = "ALLOW"
    BY <1>1 DEF QerFailures
  <1>7. Active = active
    BY CoreFacts
  <1>8. b \in TokenBucketState /\ bytes \in UInt64 /\ now \in UInt64
    BY <1>1, <1>3, PacketsAssumption DEF CoreInv, WellTypedRuntime, WellTypedPacket
  <1>9. b.tokensBytes <= r.burstBytes
    BY <1>3, <1>7
  <1> HIDE DEF b, bytes, now
  <1>10. bytes <= r.burstBytes
    BY <1>3, <1>5, <1>6, <1>8, <1>9, AllowedFits
  <1> QED BY <1>3, <1>5, <1>7, <1>10 DEF bytes

\* A commit within the burst of the ruleset it names.
LEMMA CommitKeepsBurst ==
  ASSUME ParametersFollowGenerations, VersionsNameQers, CoreInv, LimitsInv,
         NEW pdr, NEW p, NEW d, CommitsPacket(pdr, p, d),
         NEW q \in d.qer, NEW rs \in RuleSets, d.version = rs.version
  PROVE  p.payloadBytes <= RuleOf(rs.qers, q.qerId).burstBytes
PROOF
  <1>1. Acceptable(p) /\ d.version = Active.version
    BY DEF CommitsPacket, Commits
  <1>2. PICK active \in rules : active = Active
    BY <1>1, CoreFacts DEF Acceptable, HasValue
  <1>3. /\ active \in RuleSets /\ WellTypedRuleSet(active) /\ ValidateRuleSet(active)
        /\ RuntimeOf(runtime, active)
    BY CoreFacts
  <1>4. active.qers = rs.qers
    BY <1>1, <1>2, <1>3 DEF VersionsNameQers
  <1>5. ASSUME NEW id \in DOMAIN runtime.qers
        PROVE  runtime.qers[id].tokensBytes <= RuleOf(Active.qers, id).burstBytes
    <2>1. id \in Ids(active.qers)
      BY <1>3 DEF RuntimeOf
    <2>2. PICK i \in DOMAIN active.qers : active.qers[i] = RuleOf(active.qers, id)
      BY <1>3, <2>1, RuleOfId, ValidListsAreUnique DEF WellTypedRuleSet
    <2>3. active.qers[i].id = id
      BY <1>3, <2>1, <2>2, RuleOfId, ValidListsAreUnique DEF WellTypedRuleSet
    <2>4. BucketWithin(active.qers[i])
      BY DEF LimitsInv
    <2> QED BY <1>2, <2>2, <2>3, <2>4 DEF BucketWithin
  <1>6. p.payloadBytes <= RuleOf(Active.qers, q.qerId).burstBytes
    BY <1>5, CommitWithinBurst
  <1> QED BY <1>2, <1>4, <1>6

\* No step commits more than the burst.
LEMMA StepKeepsBursts ==
  ASSUME ParametersFollowGenerations, VersionsNameQers
  PROVE  CoreInv /\ LimitsInv /\ BurstsKept /\ [Next]_vars => BurstsKept'
PROOF
  <1> SUFFICES ASSUME CoreInv, LimitsInv, BurstsKept, [Next]_vars PROVE BurstsKept'
    OBVIOUS
  <1>1. CASE UNCHANGED decisions
    BY <1>1 DEF BurstsKept
  <1>2. ASSUME NEW d, IsDecision(d), Retain(d),
               \A q \in d.qer, rs \in RuleSets :
                 d.version = rs.version /\ d.result \in CommittedResults =>
                   d.packet.payloadBytes <= RuleOf(rs.qers, q.qerId).burstBytes
        PROVE  BurstsKept'
    <2> DEFINE n == Len(decisions) + 1
    <2>1. /\ n \in Nat /\ DOMAIN decisions = 1 .. n - 1 /\ DOMAIN decisions' = 1 .. n
          /\ \A i \in DOMAIN decisions : decisions'[i] = decisions[i]
          /\ decisions'[n].packet = d.packet /\ decisions'[n].qer = d.qer
          /\ decisions'[n].result = d.result /\ decisions'[n].version = d.version
      BY <1>2, Retained DEF CoreInv
    <2> HIDE DEF n
    <2>2. \A i \in DOMAIN decisions' : i \in DOMAIN decisions \/ i = n
      BY <2>1
    <2> QED BY <1>2, <2>1, <2>2 DEF BurstsKept
  <1>3. ASSUME NEW p, NEW d, RefusesPacket(p, d) PROVE BurstsKept'
    BY <1>2, <1>3 DEF RefusesPacket, Refuses
  <1>4. ASSUME NEW pdr, NEW p, NEW d, CommitsPacket(pdr, p, d) PROVE BurstsKept'
    <2>1. IsDecision(d) /\ Retain(d) /\ d.packet = p
      BY <1>4 DEF CommitsPacket, Commits
    <2> QED BY <1>2, <1>4, <2>1, CommitKeepsBurst
  <1> QED BY <1>1, <1>3, <1>4, Steps DEF Stays, Installs

\* README.md's "zero burst permits none" holds where a QER that changes its
\* burst changes its generation, and a version names its QERs (install,
\* evaluateQer).
THEOREM ZeroBurstHolds ==
  ASSUME ParametersFollowGenerations, VersionsNameQers
  PROVE  Spec => []ZeroBurstPermitsNone
PROOF
  <1>1. Init => BurstsKept
    BY EmptyIsSeq DEF Init, Constructed, BurstsKept
  <1>2. IInv /\ BurstsKept /\ [Next]_vars => BurstsKept'
    BY StepKeepsBursts DEF IInv
  <1>3. IInv /\ BurstsKept => ZeroBurstPermitsNone
    <2> SUFFICES ASSUME IInv, BurstsKept, NEW i \in DOMAIN decisions,
                        NEW q \in decisions[i].qer, NEW rs \in RuleSets,
                        decisions[i].version = rs.version,
                        RuleOf(rs.qers, q.qerId).burstBytes = 0,
                        decisions[i].packet.payloadBytes > 0,
                        decisions[i].result \in CommittedResults
                 PROVE  FALSE
      BY DEF ZeroBurstPermitsNone
    <2>1. decisions[i].packet.payloadBytes \in Nat
      BY PacketsAssumption, UInt64MaxAssumption DEF IInv, DecisionsInv, WellTypedPacket, UInt64
    <2>2. decisions[i].packet.payloadBytes <= 0
      BY DEF BurstsKept
    <2> QED BY <2>1, <2>2
  <1> QED BY <1>1, <1>2, <1>3, PipelineInvariant, PTL DEF Spec

\* The reports that name URR u in its generation.
ReportsNaming(u) == {k \in DOMAIN reports : reports[k][2] = u.id /\ reports[k][3] = u.generation}

\* No URR starts anew in a generation that has reported before.
FreshGenerations ==
  \A rs \in rules' : \A i \in DOMAIN rs.urrs :
    Survives(runtime.urrs, runtime.urrGenerations, rs.urrs[i]) \/ ReportsNaming(rs.urrs[i]) = {}

\* A URR that has reported in its generation is marked so, and there is no
\* other report of that generation.
ReportedInv ==
  /\ \A rs \in rules : \A i \in DOMAIN rs.urrs :
       ReportsNaming(rs.urrs[i]) # {} => runtime.urrs[rs.urrs[i].id].reportEmitted
  /\ \A j, k \in DOMAIN reports :
       reports[j][2] = reports[k][2] /\ reports[j][3] = reports[k][3] => j = k

\* install: a URR keeps its flag, or starts in a generation without a report.
LEMMA InstallKeepsReported ==
  ASSUME CoreInv, ReportedInv, FreshGenerations, NEW rs, Installs(rs)
  PROVE  ReportedInv'
PROOF
  <1>1. /\ rs \in RuleSets /\ WellTypedRuleSet(rs) /\ ValidateRuleSet(rs) /\ rules' = {rs}
        /\ runtime' = Migrated(runtime, rs) /\ reports' = reports
    BY RuleSetsAssumption DEF Installs, Install
  <1>2. UniqueIds(rs.urrs) /\ IsVector(rs.urrs)
    BY <1>1, ValidListsAreUnique DEF WellTypedRuleSet
  <1>3. ASSUME NEW i \in DOMAIN rs.urrs, ReportsNaming(rs.urrs[i]) # {}
        PROVE  runtime'.urrs[rs.urrs[i].id].reportEmitted
    <2> DEFINE u == rs.urrs[i]
    <2>1. u.id \in Ids(rs.urrs) /\ RuleOf(rs.urrs, u.id) = u
      BY <1>2, RuleIsFound DEF Ids
    <2>2. Survives(runtime.urrs, runtime.urrGenerations, u)
      BY <1>1, <1>3 DEF FreshGenerations
    <2>3. runtime'.urrs[u.id] = runtime.urrs[u.id]
      BY <1>1, <2>1, <2>2 DEF Migrated
    <2>4. PICK old \in rules : TRUE
      BY <2>2 DEF CoreInv, NoRuntime, Survives
    <2>5. /\ old \in RuleSets /\ WellTypedRuleSet(old) /\ ValidateRuleSet(old)
          /\ RuntimeOf(runtime, old)
      BY CoreFacts
    <2>6. u.id \in Ids(old.urrs) /\ RuleOf(old.urrs, u.id).generation = u.generation
      BY <2>2, <2>5, SurvivesInRuntime
    <2>7. PICK j \in DOMAIN old.urrs : RuleOf(old.urrs, u.id) = old.urrs[j]
      BY <2>5, <2>6, RuleOfId, ValidListsAreUnique DEF WellTypedRuleSet
    <2>8. old.urrs[j].id = u.id /\ old.urrs[j].generation = u.generation
      BY <2>5, <2>6, <2>7, RuleOfId, ValidListsAreUnique DEF WellTypedRuleSet
    <2>9. ReportsNaming(old.urrs[j]) # {}
      BY <1>3, <2>8 DEF ReportsNaming
    <2> QED BY <2>3, <2>8, <2>9 DEF ReportedInv
  <1>4. \A i \in DOMAIN rs.urrs : ReportsNaming(rs.urrs[i])' = ReportsNaming(rs.urrs[i])
    BY <1>1 DEF ReportsNaming
  <1> QED BY <1>1, <1>3, <1>4 DEF ReportedInv

\* process: a URR reports when it is not marked, and marks itself.
LEMMA CommitKeepsReported ==
  ASSUME CoreInv, ReportedInv, NEW pdr, NEW p, NEW d, CommitsPacket(pdr, p, d)
  PROVE  ReportedInv'
PROOF
  <1>1. /\ p \in Packets /\ Acceptable(p) /\ pdr \in Winner(Active, p)
        /\ PlanFailures(pdr, p) = {} /\ rules' = rules
        /\ reports' = IF NewReports(pdr, p) = {} THEN reports
                      ELSE Append(reports, Value(NewReports(pdr, p)))
    BY DEF CommitsPacket, Commits
  <1>2. PICK rs \in rules : rules = {rs} /\ WellTypedRuleSet(rs) /\ ValidateRuleSet(rs)
                            /\ RuntimeOf(runtime, rs)
    BY <1>1, CoreFacts DEF Acceptable, HasValue
  <1>3. UniqueIds(rs.urrs) /\ IsVector(rs.urrs) /\ DOMAIN runtime.urrs = Ids(rs.urrs)
    BY <1>2, ValidListsAreUnique DEF WellTypedRuleSet, RuntimeOf
  <1>4. runtime'.urrs = CountedUrrs(pdr, p)
    BY CommittedRuntime
  <1> DEFINE c == CountedUrrs(pdr, p)
  <1>5. CASE UrrsOf(pdr) = {}
    <2>1. c = runtime.urrs /\ NewReports(pdr, p) = {}
      BY <1>1, <1>5, Counted
    <2> QED BY <1>1, <1>4, <2>1 DEF ReportedInv, ReportsNaming
  <1>6. ASSUME NEW u \in UrrsOf(pdr) PROVE ReportedInv'
    <2> DEFINE usage(w) == runtime.urrs[w.id]
               fires(w) == UrrReports(w, usage(w), p.payloadBytes)
    <2>1. PICK w : /\ w = RuleOf(rs.urrs, w.id) /\ WellTypedUrr(w)
                   /\ w.id \in DOMAIN runtime.urrs /\ usage(w) \in UsageCounterState
                   /\ ~ UrrOverflows(usage(w), p.payloadBytes)
                   /\ NewReports(pdr, p) = IF fires(w) THEN {ReportId(w, rs.sessionId, rs.version)}
                                           ELSE {}
                   /\ c[w.id] = UrrNext(w, usage(w), p.payloadBytes)
                   /\ \A id \in DOMAIN runtime.urrs : id # w.id => c[id] = runtime.urrs[id]
      BY <1>1, <1>2, <1>6, Counted
    <2>2. p.payloadBytes \in UInt64
      BY <1>1, PacketsAssumption DEF WellTypedPacket
    <2>3. c[w.id].reportEmitted = (usage(w).reportEmitted \/ fires(w))
      BY <2>1, <2>2, UrrNextInRange
    <2>4. PICK i \in DOMAIN rs.urrs : rs.urrs[i] = w
      BY <1>3, <2>1, RuleOfId
    <2> HIDE DEF c
    <2>5. \A id \in DOMAIN runtime.urrs : runtime.urrs[id].reportEmitted => c[id].reportEmitted
      BY <2>1, <2>3
    <2>6. \A k \in DOMAIN rs.urrs : rs.urrs[k].id \in DOMAIN runtime.urrs
      BY <1>3 DEF Ids
    <2>7. CASE ~ fires(w)
      <3>1. reports' = reports
        BY <1>1, <2>1, <2>7
      <3>2. ASSUME NEW k \in DOMAIN rs.urrs, ReportsNaming(rs.urrs[k])' # {}
            PROVE  runtime'.urrs[rs.urrs[k].id].reportEmitted
        <4>1. ReportsNaming(rs.urrs[k]) # {}
          BY <3>1, <3>2 DEF ReportsNaming
        <4>2. runtime.urrs[rs.urrs[k].id].reportEmitted
          BY <4>1 DEF ReportedInv
        <4> QED BY <1>4, <2>5, <2>6, <4>2 DEF c
      <3> QED BY <1>1, <1>2, <3>1, <3>2 DEF ReportedInv
    <2>8. CASE fires(w)
      <3> DEFINE id == ReportId(w, rs.sessionId, rs.version)
                 n == Len(reports) + 1
      <3>1. id[2] = w.id /\ id[3] = w.generation
        BY DEF ReportId
      <3>2. NewReports(pdr, p) = {id} /\ Value({id}) = id /\ {id} # {}
        BY <2>1, <2>8, ValueOfSingleton
      <3> HIDE DEF id
      <3>3. reports' = Append(reports, id)
        BY <1>1, <3>2
      <3>4. /\ DOMAIN reports' = 1 .. n /\ DOMAIN reports = 1 .. n - 1 /\ n \in Nat
            /\ \A k \in DOMAIN reports : reports'[k] = reports[k]
            /\ reports'[n] = id
        BY <3>3, Appended DEF CoreInv
      <3> HIDE DEF n
      <3>5. ReportsNaming(w) = {}
        <4>1. ~ usage(w).reportEmitted
          BY <2>8 DEF UrrReports
        <4> QED BY <2>4, <4>1 DEF ReportedInv
      <3>6. ASSUME NEW k \in DOMAIN rs.urrs, ReportsNaming(rs.urrs[k])' # {}
            PROVE  runtime'.urrs[rs.urrs[k].id].reportEmitted
        <4>1. CASE rs.urrs[k].id = w.id
          BY <1>4, <2>3, <2>8, <4>1 DEF c
        <4>2. CASE rs.urrs[k].id # w.id
          <5>1. PICK m \in DOMAIN reports' : reports'[m][2] = rs.urrs[k].id
                                            /\ reports'[m][3] = rs.urrs[k].generation
            BY <3>6 DEF ReportsNaming
          <5>2. m # n
            BY <3>1, <3>4, <4>2, <5>1
          <5>3. m \in DOMAIN reports
            BY <3>4, <5>2
          <5>4. ReportsNaming(rs.urrs[k]) # {}
            BY <3>4, <5>1, <5>3 DEF ReportsNaming
          <5>5. runtime.urrs[rs.urrs[k].id].reportEmitted
            BY <5>4 DEF ReportedInv
          <5> QED BY <1>4, <2>5, <2>6, <5>5 DEF c
        <4> QED BY <4>1, <4>2
      <3>7. ASSUME NEW j \in DOMAIN reports', NEW k \in DOMAIN reports',
                   reports'[j][2] = reports'[k][2], reports'[j][3] = reports'[k][3]
            PROVE  j = k
        <4>1. ASSUME NEW m \in DOMAIN reports PROVE ~ (reports[m][2] = id[2] /\ reports[m][3] = id[3])
          BY <3>1, <3>5 DEF ReportsNaming
        <4>2. \A m \in DOMAIN reports' : m \in DOMAIN reports \/ m = n
          BY <3>4
        <4> QED BY <3>4, <3>7, <4>1, <4>2 DEF ReportedInv
      <3> QED BY <1>1, <1>2, <3>6, <3>7 DEF ReportedInv
    <2> QED BY <2>7, <2>8
  <1> QED BY <1>5, <1>6

\* README.md's "one threshold report per generation" holds where a URR does
\* not come back in a generation that has reported (install, evaluateUrr).
THEOREM OneReportHolds == Spec /\ [][FreshGenerations]_vars => []OneReportPerGeneration
PROOF
  <1>1. Init => ReportedInv
    BY EmptyIsSeq DEF Init, Constructed, ReportedInv
  <1>2. IInv /\ ReportedInv /\ [Next]_vars /\ [FreshGenerations]_vars => ReportedInv'
    <2> SUFFICES ASSUME CoreInv, ReportedInv, [Next]_vars, [FreshGenerations]_vars
                 PROVE  ReportedInv'
      BY DEF IInv
    <2>1. CASE UNCHANGED vars
      BY <2>1 DEF vars, ReportedInv, ReportsNaming
    <2>2. CASE Stays
      BY <2>2 DEF Stays, ReportedInv, ReportsNaming
    <2>3. ASSUME NEW rs, Installs(rs) PROVE ReportedInv'
      BY <2>1, <2>3, InstallKeepsReported
    <2>4. ASSUME NEW p, NEW d, RefusesPacket(p, d) PROVE ReportedInv'
      <3>1. runtime'.urrs = runtime.urrs /\ reports' = reports /\ rules' = rules
        BY <2>4, RefusedRuntime DEF RefusesPacket, Refuses
      <3> QED BY <3>1 DEF ReportedInv, ReportsNaming
    <2>5. ASSUME NEW pdr, NEW p, NEW d, CommitsPacket(pdr, p, d) PROVE ReportedInv'
      BY <2>5, CommitKeepsReported
    <2> QED BY <2>2, <2>3, <2>4, <2>5, Steps
  <1>3. ReportedInv => OneReportPerGeneration
    <2> SUFFICES ASSUME ReportedInv, NEW j \in DOMAIN reports, NEW k \in DOMAIN reports,
                        SubSeq(reports[j], 1, 3) = SubSeq(reports[k], 1, 3)
                 PROVE  j = k
      BY DEF OneReportPerGeneration
    <2>1. \A x : SubSeq(x, 1, 3)[2] = x[2] /\ SubSeq(x, 1, 3)[3] = x[3]
      BY DEF SubSeq
    <2>2. reports[j][2] = reports[k][2] /\ reports[j][3] = reports[k][3]
      BY <2>1
    <2> QED BY <2>2 DEF ReportedInv
  <1> QED BY <1>1, <1>2, <1>3, PipelineInvariant, PTL DEF Spec

=============================================================================
