--------------------------- MODULE PacketPipeline ---------------------------
(***************************************************************************)
(* The packet pipeline (include/upf/application/packet_pipeline.hpp,       *)
(* src/application/packet_pipeline.cpp): a ruleset, the runtime state of   *)
(* its rules, the packet sinks, and what has been decided so far.          *)
(*                                                                         *)
(* The class is not thread-safe and is called from one thread: an action   *)
(* is one whole call of install or process, and the behaviours are the     *)
(* sequences of calls.  The ids runId and scenarioId are copied from input *)
(* to output only, and are left out.                                       *)
(***************************************************************************)
EXTENDS Matcher, Runtime, FiniteSets

CONSTANTS RuleSets,   \* the rulesets install may be called with
          Packets,    \* the packets process may be called with
          Limits      \* the capacity limits a pipeline may be built with

ASSUME RuleSetsAssumption == \A rs \in RuleSets : WellTypedRuleSet(rs)
ASSUME PacketsAssumption == \A p \in Packets : WellTypedPacket(p)
ASSUME LimitsAssumption ==
  Limits \subseteq [results : UInt64, reports : UInt64, events : UInt64, sinkPackets : UInt64]

VARIABLES
  limits,          \* limits_: CapacityLimits of this pipeline
  rules,           \* rules_: the active ruleset, Optional
  runtime,         \* runtime_: buckets, counters and their generations, by id
  sinks,           \* n3Sink_ and n6Sink_
  reports,         \* reports_: ids of the usage reports produced
  decisions,       \* decisions_
  events,          \* events_
  droppedEvents,   \* droppedEvents_
  returned,        \* the result of the decision process returned last, Optional
  since            \* history: Len(decisions) when a URR's counter was created

vars == <<limits, rules, runtime, sinks, reports, decisions, events, droppedEvents,
          returned, since>>

\* A pipeline as its constructor leaves it.
Constructed(l) ==
  /\ limits = l
  /\ rules = {} /\ runtime = NoRuntime
  /\ sinks = [i \in Interface |-> <<>>]
  /\ reports = <<>> /\ decisions = <<>> /\ events = <<>> /\ droppedEvents = 0
  /\ returned = {} /\ since = <<>>

Init == \E l \in Limits : Constructed(l)

-----------------------------------------------------------------------------
(* install                                                                 *)

\* History only: the URR was in the ruleset before, with this generation.
SameGeneration(rs, id) ==
  \E old \in rules : \E urr \in FindRule(old.urrs, id) :
    urr.generation = RuleOf(rs.urrs, id).generation

\* Mutant: the ruleset is activated although its validation failed.
InstallUnchecked(rs) ==
  /\ rules' = {rs}
  /\ runtime' = Migrated(runtime, rs)
  /\ since' = [id \in Ids(rs.urrs) |->
                 IF SameGeneration(rs, id) THEN since[id] ELSE Len(decisions)]

Install(rs) ==
  /\ ValidateRuleSet(rs)
  /\ rules' = {rs}
  /\ runtime' = Migrated(runtime, rs)
  /\ since' = [id \in Ids(rs.urrs) |->
                 IF SameGeneration(rs, id) THEN since[id] ELSE Len(decisions)]

\* An invalid ruleset is refused before anything is touched.
RefuseInstall(rs) ==
  /\ ~ ValidateRuleSet(rs)
  /\ UNCHANGED <<rules, runtime, since>>

-----------------------------------------------------------------------------
(* process: the rules a packet meets, and the decision it builds up.       *)

Active == Value(rules)

QersOf(pdr) == UNION {FindRule(Active.qers, id) : id \in pdr.qerId}
UrrsOf(pdr) == UNION {FindRule(Active.urrs, id) : id \in pdr.urrId}
FarOf(pdr)  == RuleOf(Active.fars, pdr.farId)

QerDecisions(pdr, p) ==
  {QerDecision(q, runtime.qers[q.id], p.payloadBytes, p.arrivalTimeMicros) : q \in QersOf(pdr)}

QerFailures(pdr, p) == {d.outcome : d \in QerDecisions(pdr, p)} \ {"ALLOW"}

\* Mutant: the packet is charged to every bucket.
ChargedQersAll(pdr, p) ==
  [id \in DOMAIN runtime.qers |->
     QerNext(RuleOf(Active.qers, id), runtime.qers[id], p.payloadBytes, p.arrivalTimeMicros)]

\* runtime_.qers with the bucket the packet's QER computed.
ChargedQers(pdr, p) ==
  [id \in DOMAIN runtime.qers |->
     IF \E q \in QersOf(pdr) : q.id = id
     THEN QerNext(RuleOf(Active.qers, id), runtime.qers[id], p.payloadBytes, p.arrivalTimeMicros)
     ELSE runtime.qers[id]]

UrrDecisions(pdr, p) ==
  {UrrDecision(u, runtime.urrs[u.id], p.payloadBytes, Active.sessionId, Active.version) :
     u \in UrrsOf(pdr)}

CountedUrrs(pdr, p) ==
  [id \in DOMAIN runtime.urrs |->
     IF \E u \in UrrsOf(pdr) : u.id = id
     THEN UrrNext(RuleOf(Active.urrs, id), runtime.urrs[id], p.payloadBytes)
     ELSE runtime.urrs[id]]

NewReports(pdr, p) == UNION {d.reportId : d \in UrrDecisions(pdr, p)}

\* Mutant: a sink takes one packet more than it may hold.
PlanFailuresLate(pdr, p) ==
  IF ~ FarValid(FarOf(pdr), p) THEN {"MALFORMED_PACKET"}
  ELSE IF \E u \in UrrsOf(pdr) : UrrOverflows(runtime.urrs[u.id], p.payloadBytes)
  THEN {"ARITHMETIC_ERROR"}
  ELSE IF \/ NewReports(pdr, p) # {} /\ Len(reports) >= limits.reports
          \/ /\ FarForwards(FarOf(pdr), p)
             /\ Len(sinks[FarDestination(FarOf(pdr))]) > limits.sinkPackets
  THEN {"CAPACITY_ERROR"}
  ELSE {}

\* The first failure after the QER allowed the packet: FAR, URR, then space
\* for the report and for the packet.
PlanFailures(pdr, p) ==
  IF ~ FarValid(FarOf(pdr), p) THEN {"MALFORMED_PACKET"}
  ELSE IF \E u \in UrrsOf(pdr) : UrrOverflows(runtime.urrs[u.id], p.payloadBytes)
  THEN {"ARITHMETIC_ERROR"}
  ELSE IF \/ NewReports(pdr, p) # {} /\ Len(reports) >= limits.reports
          \/ /\ FarForwards(FarOf(pdr), p)
             /\ Len(sinks[FarDestination(FarOf(pdr))]) >= limits.sinkPackets
  THEN {"CAPACITY_ERROR"}
  ELSE {}

\* The decision with the identity of the packet only.
Received(p) ==
  [packet      |-> p,
   version     |-> IF HasValue(rules) THEN Active.version ELSE 0,
   candidates  |-> <<>>,
   selected    |-> {},
   qer         |-> {},
   far         |-> {},
   urr         |-> {},
   transformed |-> {},
   result      |-> "NO_MATCH",
   degraded    |-> FALSE]

Matched(p) == [Received(p) EXCEPT !.candidates = Candidates(Active, p)]

Selected(pdr, p) ==
  [Matched(p) EXCEPT !.selected = {pdr.id}, !.qer = QerDecisions(pdr, p)]

FarDecisions(pdr, p) ==
  {[farId |-> f.id, action |-> f.action, before |-> p.tunnel,
    after |-> FarPacket(f, p).tunnel, destination |-> FarDestination(f)] : f \in {FarOf(pdr)}}

\* The plan is written into the decision before the space checks, so that a
\* packet refused by them carries it too.
Planned(pdr, p) ==
  IF FarValid(FarOf(pdr), p)
  THEN [Selected(pdr, p) EXCEPT !.far = FarDecisions(pdr, p), !.urr = UrrDecisions(pdr, p)]
  ELSE Selected(pdr, p)

Forwarded(pdr, p) ==
  [Planned(pdr, p) EXCEPT
     !.transformed = {FarPacket(FarOf(pdr), p)},
     !.result = IF FarDestination(FarOf(pdr)) = "N3" THEN "FORWARDED_TO_N3" ELSE "FORWARDED_TO_N6"]

With(decision, result) == [decision EXCEPT !.result = result]

-----------------------------------------------------------------------------
(* process: its ways out.                                                  *)

\* Mutant: one event too many is kept.
RetainOneMore(decision) ==
  LET hasSpace == Len(events) <= limits.events
      final    == [decision EXCEPT !.degraded = ~ hasSpace]
  IN  /\ events' = IF hasSpace THEN Append(events, decision.result) ELSE events
      /\ droppedEvents' = IF ~ hasSpace THEN droppedEvents + 1 ELSE droppedEvents
      /\ decisions' = Append(decisions, final)
      /\ returned' = {final.result}

\* retain: an event while there is space for one, a degraded decision after.
Retain(decision) ==
  LET hasSpace == Len(events) < limits.events
      final    == [decision EXCEPT !.degraded = ~ hasSpace]
  IN  /\ events' = IF hasSpace THEN Append(events, decision.result) ELSE events
      /\ droppedEvents' = IF ~ hasSpace /\ droppedEvents # UInt64Max
                          THEN droppedEvents + 1 ELSE droppedEvents
      /\ decisions' = Append(decisions, final)
      /\ returned' = {final.result}

HasResultSpace == Len(decisions) < limits.results

Acceptable(p) == HasValue(rules) /\ ValidPacket(p) /\ p.sessionId = Active.sessionId

\* The decisions are full: the answer is returned and not retained.
Refused(p) == With(Received(p), "CAPACITY_ERROR")

RejectFull(p) ==
  /\ ~ HasResultSpace
  /\ returned' = {Refused(p).result}
  /\ UNCHANGED <<runtime, sinks, reports, decisions, events, droppedEvents>>

RejectUnacceptable(p) ==
  /\ HasResultSpace /\ ~ Acceptable(p)
  /\ Retain(With(Received(p), IF HasValue(rules) THEN "MALFORMED_PACKET" ELSE "NO_MATCH"))
  /\ UNCHANGED <<runtime, sinks, reports>>

RejectUnmatched(p) ==
  /\ HasResultSpace /\ Acceptable(p) /\ Winner(Active, p) = {}
  /\ Retain(With(Matched(p), "NO_MATCH"))
  /\ UNCHANGED <<runtime, sinks, reports>>

\* Mutant: a rate-limited packet leaves nothing behind.
RejectByQerForgetful(p) ==
  /\ HasResultSpace /\ Acceptable(p)
  /\ \E pdr \in Winner(Active, p) : \E failure \in QerFailures(pdr, p) :
       Retain(With(Selected(pdr, p), failure))
  /\ UNCHANGED <<runtime, sinks, reports>>

\* A rate-limited packet leaves the refill behind; the other refusals of the
\* QER leave nothing.
RejectByQer(p) ==
  /\ HasResultSpace /\ Acceptable(p)
  /\ \E pdr \in Winner(Active, p) : \E failure \in QerFailures(pdr, p) :
       /\ Retain(With(Selected(pdr, p), failure))
       /\ runtime' = IF failure = "RATE_LIMITED"
                     THEN [runtime EXCEPT !.qers = ChargedQers(pdr, p)] ELSE runtime
  /\ UNCHANGED <<sinks, reports>>

\* Mutant: the report is produced before the space is checked.
RejectByPlanReported(p) ==
  /\ HasResultSpace /\ Acceptable(p)
  /\ \E pdr \in Winner(Active, p) :
       /\ QerFailures(pdr, p) = {}
       /\ \E failure \in PlanFailures(pdr, p) : Retain(With(Planned(pdr, p), failure))
       /\ reports' = IF NewReports(pdr, p) = {} THEN reports
                     ELSE Append(reports, Value(NewReports(pdr, p)))
  /\ UNCHANGED <<runtime, sinks>>

\* Mutant: the tokens are charged before the space is checked.
RejectByPlanCharged(p) ==
  /\ HasResultSpace /\ Acceptable(p)
  /\ \E pdr \in Winner(Active, p) :
       /\ QerFailures(pdr, p) = {}
       /\ \E failure \in PlanFailures(pdr, p) : Retain(With(Planned(pdr, p), failure))
       /\ runtime' = [runtime EXCEPT !.qers = ChargedQers(pdr, p)]
  /\ UNCHANGED <<sinks, reports>>

RejectByPlan(p) ==
  /\ HasResultSpace /\ Acceptable(p)
  /\ \E pdr \in Winner(Active, p) :
       /\ QerFailures(pdr, p) = {}
       /\ \E failure \in PlanFailures(pdr, p) : Retain(With(Planned(pdr, p), failure))
  /\ UNCHANGED <<runtime, sinks, reports>>

\* Tokens, usage, report, sink and decision change together.
Commit(pdr, p) ==
  /\ runtime' = [runtime EXCEPT !.qers = ChargedQers(pdr, p), !.urrs = CountedUrrs(pdr, p)]
  /\ reports' = IF NewReports(pdr, p) = {} THEN reports
                ELSE Append(reports, Value(NewReports(pdr, p)))
  /\ IF FarOf(pdr).action = "DROP"
     THEN /\ Retain(With(Planned(pdr, p), "FAR_DROPPED"))
          /\ UNCHANGED sinks
     ELSE /\ sinks' = [sinks EXCEPT ![FarDestination(FarOf(pdr))] =
                         Append(@, FarPacket(FarOf(pdr), p))]
          /\ Retain(Forwarded(pdr, p))

Accept(p) ==
  /\ HasResultSpace /\ Acceptable(p)
  /\ \E pdr \in Winner(Active, p) :
       /\ QerFailures(pdr, p) = {} /\ PlanFailures(pdr, p) = {}
       /\ Commit(pdr, p)

Process(p) ==
  \/ RejectFull(p)
  \/ RejectUnacceptable(p)
  \/ RejectUnmatched(p)
  \/ RejectByQer(p)
  \/ RejectByPlan(p)
  \/ Accept(p)

\* install touches nothing that was decided, process no rule.
Next ==
  \/ /\ UNCHANGED <<limits, sinks, reports, decisions, events, droppedEvents, returned>>
     /\ \E rs \in RuleSets : Install(rs) \/ RefuseInstall(rs)
  \/ /\ UNCHANGED <<limits, rules, since>>
     /\ \E p \in Packets : Process(p)

Spec == Init /\ [][Next]_vars
-----------------------------------------------------------------------------
(* Properties.                                                             *)

CommittedResults == {"FORWARDED_TO_N3", "FORWARDED_TO_N6", "FAR_DROPPED"}

\* Every state has the shape its declaration gives it, and no counter or
\* bucket leaves its 64 bits.
TypeOK ==
  /\ rules \in Optional(RuleSets)
  /\ \A id \in DOMAIN runtime.qers : runtime.qers[id] \in TokenBucketState
  /\ \A id \in DOMAIN runtime.urrs : runtime.urrs[id] \in UsageCounterState
  /\ DOMAIN sinks = Interface
  /\ \A i \in DOMAIN decisions :
       decisions[i].packet \in Packets /\ decisions[i].result \in TerminalResult
  /\ droppedEvents \in UInt64

\* install swaps the ruleset and its runtime state together: the active
\* ruleset has passed validation, and process finds exactly one bucket or
\* counter, of the right generation, for every QER and URR of it.
RuntimeFollowsRules ==
  \A rs \in rules :
    /\ ValidateRuleSet(rs)
    /\ DOMAIN runtime.qers = Ids(rs.qers) /\ runtime.qerGenerations = Generations(rs.qers)
    /\ DOMAIN runtime.urrs = Ids(rs.urrs) /\ runtime.urrGenerations = Generations(rs.urrs)

\* Once a PDR is selected, process ends in a policy outcome or in a lack of
\* space or range, never in MALFORMED_PACKET or NO_MATCH: validation left no
\* FAR that does not fit its PDR (packet_pipeline.cpp, the FAR branch), and
\* findQer, findFar and findUrr never return null to be dereferenced.
SelectedIsServed ==
  \A i \in DOMAIN decisions :
    decisions[i].selected # {} =>
      decisions[i].result \in TerminalResult \ {"NO_MATCH", "MALFORMED_PACKET"}

\* The position of i among the members of S.
Rank(S, i) == Cardinality({j \in S : j <= i})

\* The decisions since the counter of URR id was created that counted for it.
Counting(id) ==
  {i \in DOMAIN decisions :
     /\ i > since[id]
     /\ decisions[i].result \in CommittedResults
     /\ \E u \in decisions[i].urr : u.urrId = id}

\* The decisions that produced a report.
Reporting ==
  {i \in DOMAIN decisions :
     /\ decisions[i].result \in CommittedResults
     /\ \E u \in decisions[i].urr : u.reportId # {}}

UsageOf(id, i) == Value({u \in decisions[i].urr : u.urrId = id})

\* The payload counted on URR id when decision j was made, or now, and after
\* decision i, or at the start.
PayloadBefore(id, j) ==
  IF j \in DOMAIN decisions THEN UsageOf(id, j).bytesBefore ELSE runtime.urrs[id].payloadBytes
PayloadAfter(id, i) == IF i = 0 THEN 0 ELSE UsageOf(id, i).bytesAfter

\* The counter of URR id is a running total of the decisions that counted for
\* it: each takes it over from the one before and the counter from the last
\* one, and its report flag says whether one of them carried a report.
Accounted(id) ==
  /\ runtime.urrs[id].packets = Cardinality(Counting(id))
  /\ Cardinality(Counting(id) \cap Reporting) = IF runtime.urrs[id].reportEmitted THEN 1 ELSE 0
  /\ \A i \in Counting(id) :
       /\ UsageOf(id, i).packetsAfter = Rank(Counting(id), i)
       /\ UsageOf(id, i).bytesAfter = UsageOf(id, i).bytesBefore + decisions[i].packet.payloadBytes
  /\ \A i \in Counting(id) \cup {0}, j \in Counting(id) \cup {Len(decisions) + 1} :
       (i < j /\ \A k \in Counting(id) : k <= i \/ k >= j)
         => PayloadBefore(id, j) = PayloadAfter(id, i)

\* A usage counter holds the packets and the payload of exactly the packets
\* committed under it since its generation was installed, forwarded or
\* dropped by the FAR, and across reinstallations.  Its report flag is set
\* exactly when one of them, and only one, carried a report.
UsageAccounted == \A id \in DOMAIN runtime.urrs : Accounted(id)

\* The reports kept are those of the committed decisions, in order and within
\* the capacity: a packet refused for space leaves none, and no report is
\* lost by a later install.
ReportsAccounted ==
  /\ Len(reports) = Cardinality(Reporting) /\ Len(reports) <= limits.reports
  /\ \A i \in Reporting :
       reports[Rank(Reporting, i)] = Value(UNION {u.reportId : u \in decisions[i].urr})

SentTo(i) ==
  {k \in DOMAIN decisions :
     decisions[k].result = IF i = "N3" THEN "FORWARDED_TO_N3" ELSE "FORWARDED_TO_N6"}

\* Decision d sent the packet that left through the sink of interface i: it
\* crossed from the other interface and changed nothing but its tunnel, which
\* N3 always has and N6 never.
SentAs(i, d, left) ==
  /\ d.transformed = {left}
  /\ d.packet.ingress # i
  /\ left = [d.packet EXCEPT !.tunnel = left.tunnel]
  /\ i = "N3" <=> \E tunnel \in left.tunnel : TunnelValid(tunnel)
  /\ i = "N6" <=> left.tunnel = {}

\* Each sink holds the transformed packets of the decisions that name it, in
\* order, within its capacity, each sent as its interface asks.
SinksAccounted ==
  \A i \in Interface :
    /\ Len(sinks[i]) = Cardinality(SentTo(i)) /\ Len(sinks[i]) <= limits.sinkPackets
    /\ \A k \in SentTo(i) : SentAs(i, decisions[k], sinks[i][Rank(SentTo(i), k)])

\* Every retained decision has its event or is counted as dropped and marked
\* degraded, and the capacity for results bounds them all.
EventsAccounted ==
  /\ Len(decisions) <= limits.results
  /\ Len(events) + droppedEvents = Len(decisions)
  /\ \A i \in DOMAIN decisions :
       IF i <= limits.events THEN i <= Len(events) /\ events[i] = decisions[i].result
                                  /\ ~ decisions[i].degraded
       ELSE decisions[i].degraded

\* What a call that does not commit may change: nothing, except that a
\* rate-limited one refills the bucket of its own QER.
RefusalChangesNothing ==
  \A result \in returned' \ CommittedResults :
    rules' = rules =>
      /\ UNCHANGED <<sinks, reports, runtime.urrs>>
      /\ result # "RATE_LIMITED" => UNCHANGED runtime
      /\ \A id \in DOMAIN runtime.qers :
           /\ runtime'.qers[id].tokensBytes >= runtime.qers[id].tokensBytes
           /\ \/ runtime'.qers[id] = runtime.qers[id]
              \/ \E q \in decisions'[Len(decisions')].qer : q.qerId = id

\* Runtime changes, report and sink insertion are preflighted: a call that
\* ends in any result but a commit or RATE_LIMITED leaves all of them alone,
\* and one that is rate limited never spends a token of any bucket and
\* changes the bucket of its own QER only.
RefusedChangesNothing == [][RefusalChangesNothing]_vars

\* The rulesets an operator would write: a rule that changes its parameters
\* changes its generation.
ParametersFollowGenerations ==
  \A a, b \in RuleSets :
    /\ \A i \in DOMAIN a.qers, j \in DOMAIN b.qers :
         a.qers[i].id = b.qers[j].id /\ a.qers[i].generation = b.qers[j].generation =>
           a.qers[i].burstBytes = b.qers[j].burstBytes
    /\ \A i \in DOMAIN a.urrs, j \in DOMAIN b.urrs :
         a.urrs[i].id = b.urrs[j].id /\ a.urrs[i].generation = b.urrs[j].generation =>
           a.urrs[i].volumeThresholdBytes = b.urrs[j].volumeThresholdBytes

\* With such rulesets no bucket ever holds more than its burst, and a counter
\* that has counted up to its threshold has its report, also when the report
\* or sink space ran out on the way.
LimitsEnforced ==
  ParametersFollowGenerations =>
    \A rs \in rules :
      /\ \A i \in DOMAIN rs.qers :
           runtime.qers[rs.qers[i].id].tokensBytes <= rs.qers[i].burstBytes
      /\ \A i \in DOMAIN rs.urrs :
           LET usage == runtime.urrs[rs.urrs[i].id]
           IN  usage.packets > 0 =>
                 (usage.reportEmitted <=> usage.payloadBytes >= rs.urrs[i].volumeThresholdBytes)

\* The events the pipeline keeps for itself are kept as BoundedEventSink
\* keeps them: in order, up to the capacity, each further one counted.
EventSink == INSTANCE BoundedEventSink
               WITH Events <- TerminalResult, SizeMax <- UInt64Max,
                    capacity <- limits.events, kept <- events, dropped <- droppedEvents
EventsAreASink == EventSink!Spec

\* Packets as they leave the pipeline: with no tunnel, or with that of a FAR.
LeavingTunnels ==
  {{}} \cup UNION {{rs.fars[i].tunnel : i \in DOMAIN rs.fars} : rs \in RuleSets}
Through(p, tunnel) == [p EXCEPT !.tunnel = tunnel]
LeavingPackets == {Through(p, tunnel) : p \in Packets, tunnel \in LeavingTunnels}

\* Both packet sinks behave as InMemoryPacketSink: nothing is taken back,
\* reordered or taken in beyond the capacity, whatever else a call does.
N3Sink == INSTANCE InMemoryPacketSink
            WITH Packets <- LeavingPackets, capacity <- limits.sinkPackets, packets <- sinks["N3"]
N6Sink == INSTANCE InMemoryPacketSink
            WITH Packets <- LeavingPackets, capacity <- limits.sinkPackets, packets <- sinks["N6"]
SinksArePorts == N3Sink!Spec /\ N6Sink!Spec

-----------------------------------------------------------------------------
(* What the documentation says and the code does not do.                   *)

\* README.md: "zero burst permits none".
ZeroBurstPermitsNone ==
  \A i \in DOMAIN decisions : \A q \in decisions[i].qer, rs \in RuleSets :
    (/\ decisions[i].version = rs.version
     /\ RuleOf(rs.qers, q.qerId).burstBytes = 0 /\ decisions[i].packet.payloadBytes > 0)
      => decisions[i].result \notin CommittedResults

\* README.md: "one threshold report per generation".  A report names session,
\* URR, generation and ruleset version; the first three name the generation.
OneReportPerGeneration ==
  \A i, j \in DOMAIN reports :
    SubSeq(reports[i], 1, 3) = SubSeq(reports[j], 1, 3) => i = j
=============================================================================
