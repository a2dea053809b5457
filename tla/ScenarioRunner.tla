---------------------------- MODULE ScenarioRunner ----------------------------
(***************************************************************************)
(* ScenarioRunner::run (src/application/scenario_runner.cpp): ten built-in *)
(* scenarios, each a short list of calls to a pipeline of its own and, in  *)
(* two of them, to a rule service, an adapter and a reconciliation of its  *)
(* own.  The scenarios are the data below and the calls are the actions of *)
(* PacketPipeline and ControlPlane.  The numbers are the code's.           *)
(*                                                                         *)
(* The process may run scenarios one after another, as the tests do.       *)
(***************************************************************************)
EXTENDS PacketPipeline, Rendering

CONSTANTS ScenarioNames,   \* the scenarios that are run
          Garbage          \* what an uninitialized integer may hold

\* scenarioNames
BuiltInScenarios ==
  {"uplink-forward", "downlink-forward", "pdr-precedence", "qer-rate-limit", "urr-threshold",
   "adapter-failure", "queue-full", "overload", "recovery", "shutdown"}

ASSUME ScenarioNamesAssumption == ScenarioNames \subseteq BuiltInScenarios

\* The bytes of the scenarios fit the integers, and their PDRs the capacity.
ASSUME ScenarioSizesAssumption == UInt64Max >= 20000 /\ RulesPerType >= 2

VARIABLES
  scenario,   \* the name of the scenario that runs, "none" between two
  calls,      \* the calls it has still to make
  result,     \* RunResult
  printed,    \* history: the output of the first run of each scenario
  \* RuleService, SimulatedDataplane and the reconciliation
  intended, active, appliedVersion, latestUpdateId, serviceRuntime,
  outcomes, applied, delayed, loop, status, answer, accepted

pipelineVars == vars
controlVars  == <<intended, active, appliedVersion, latestUpdateId, serviceRuntime,
                  outcomes, applied, delayed, loop, status, answer, accepted>>
scenarioVars == <<pipelineVars, controlVars, scenario, calls, result, printed>>

\* "adapter-failure" and "recovery" script one transient failure and allow
\* three attempts.  No number of attempts comes near the bound of 100 here.
Script == <<"TRANSIENT_FAILURE", "SUCCESS">>
Control == INSTANCE ControlPlane
             WITH runtime <- serviceRuntime, UpdateIds <- {"update-3"}, RemoveVersions <- {},
                  Scripts <- {Script}, MaximumAttempts <- 3, UInt32Max <- 100, MaxUsage <- 0

-----------------------------------------------------------------------------
(* The rules and packets of the scenarios.                                 *)

\* IpAddress::parse of a dotted address: eight bits for each of its numbers.
Ipv4(numbers) ==
  [family |-> "IPV4",
   bits |-> [i \in 1 .. 32 |-> (numbers[(i + 7) \div 8] \div 2 ^ ((32 - i) % 8)) % 2]]

UePrefix == [network |-> Ipv4(<<10, 10, 0, 0>>), length |-> 24]
Port(n)  == {[first |-> n, last |-> n]}

UplinkPdr ==
  [id |-> 10, precedence |-> 100, sourceInterface |-> "N3", teid |-> {1001}, uePrefix |-> UePrefix,
   protocol |-> {"UDP"}, localPorts |-> Port(41000), remotePorts |-> Port(443), qfi |-> {9},
   farId |-> 20, qerId |-> {30}, urrId |-> {40}]

\* The generations are those the rules are built with.
RulesWith(pdrs, far, qerId, urrId) ==
  [sessionId |-> "session-1", version |-> 3, pdrs |-> pdrs, fars |-> <<far>>,
   qers |-> <<[id |-> qerId, gate |-> "OPEN", rateBitsPerSecond |-> 10000000, burstBytes |-> 20000,
               generation |-> 1]>>,
   urrs |-> <<[id |-> urrId, volumeThresholdBytes |-> 10000, generation |-> 1]>>]

ToN6 == [id |-> 20, action |-> "FORWARD", destination |-> {"N6"}, operation |-> "REMOVE", tunnel |-> {}]
ToN3 == [id |-> 21, action |-> "FORWARD", destination |-> {"N3"}, operation |-> "ADD",
         tunnel |-> {[teid |-> 2001, qfi |-> 9]}]

DownlinkPdr ==
  [UplinkPdr EXCEPT !.id = 11, !.sourceInterface = "N6", !.teid = {}, !.qfi = {},
                    !.farId = 21, !.qerId = {31}, !.urrId = {41}]
LowerPriority == [UplinkPdr EXCEPT !.id = 11, !.precedence = 200]

UplinkRules     == RulesWith(<<UplinkPdr>>, ToN6, 30, 40)
DownlinkRules   == RulesWith(<<DownlinkPdr>>, ToN3, 31, 41)
PrecedenceRules == RulesWith(<<UplinkPdr, LowerPriority>>, ToN6, 30, 40)

UeTunnel == [teid |-> 1001, qfi |-> 9]
UeIp     == Ipv4(<<10, 10, 0, 7>>)
RemoteIp == Ipv4(<<192, 0, 2, 20>>)

\* makeUplinkPacket, with the id and the size that some scenarios then set.
Sized(id, bytes) ==
  [packetId |-> id, sessionId |-> "session-1", ingress |-> "N3", tunnel |-> {UeTunnel},
   sourceIp |-> UeIp, destinationIp |-> RemoteIp, protocol |-> "UDP", sourcePort |-> 41000,
   destinationPort |-> 443, payloadBytes |-> bytes, arrivalTimeMicros |-> 0]
UplinkPacket == Sized("pkt-ul-001", 1200)
DownlinkPacket ==
  [UplinkPacket EXCEPT !.packetId = "pkt-dl-001", !.ingress = "N6", !.tunnel = {},
                       !.sourceIp = RemoteIp, !.destinationIp = UeIp,
                       !.sourcePort = 443, !.destinationPort = 41000, !.payloadBytes = 900]

DefaultLimits == [results |-> 2048, reports |-> 1024, events |-> 8192, sinkPackets |-> 2048]

-----------------------------------------------------------------------------
(* The calls of each scenario.                                             *)

UpdateCall      == [call |-> "update"]
ReconcileCall   == [call |-> "reconcile"]
ClassifyCall    == [call |-> "classify"]
InstallCall(rs) == [call |-> "install", rules |-> rs]
ProcessCall(p)  == [call |-> "process", packet |-> p]

ControlScenarios    == {"adapter-failure", "recovery"}
ClassifiedScenarios == {"queue-full", "shutdown"}

Calls(name) ==
  CASE name = "downlink-forward" -> <<InstallCall(DownlinkRules), ProcessCall(DownlinkPacket)>>
    [] name = "qer-rate-limit"   -> <<InstallCall(UplinkRules), ProcessCall(Sized("pkt-rate-001", 19000)),
                                      ProcessCall(Sized("pkt-rate-002", 2000))>>
    [] name = "urr-threshold"    -> <<InstallCall(UplinkRules), ProcessCall(Sized("pkt-urr-001", 10000))>>
    [] name = "pdr-precedence"   -> <<InstallCall(PrecedenceRules), ProcessCall(UplinkPacket)>>
    [] name \in ControlScenarios -> <<UpdateCall, ReconcileCall, InstallCall(UplinkRules),
                                      ProcessCall(UplinkPacket)>>
    [] name \in ClassifiedScenarios -> <<ClassifyCall>>
    [] OTHER                     -> <<InstallCall(UplinkRules), ProcessCall(UplinkPacket)>>

LimitsOf(name) == IF name = "overload" THEN [DefaultLimits EXCEPT !.events = 0] ELSE DefaultLimits

-----------------------------------------------------------------------------
NewControl ==
  /\ intended' = {} /\ active' = {} /\ appliedVersion' = 0 /\ latestUpdateId' = ""
  /\ serviceRuntime' = NoRuntime /\ outcomes' = Script /\ applied' = {} /\ delayed' = {}
  /\ loop' = Control!Idle /\ status' = Control!NewStatus /\ answer' = "NONE"
  /\ accepted' = [highest |-> 0, increasing |-> TRUE]

ScenarioInit ==
  /\ Constructed(DefaultLimits) /\ Control!Init
  /\ scenario = "none" /\ calls = <<>> /\ result = NewResult /\ printed = <<>>

Resting == calls = <<>> /\ ~ loop.running

\* The scenario has made its calls and not returned yet.
Returning == Resting /\ scenario # "none"

\* Mutant: the pipeline of the scenario before is used on.
BeginShared(name) ==
  /\ Resting /\ scenario = "none"
  /\ scenario' = name /\ calls' = Calls(name) /\ result' = NewResult
  /\ NewControl /\ UNCHANGED <<pipelineVars, printed>>

Begin(name) ==
  /\ Resting /\ scenario = "none"
  /\ scenario' = name /\ calls' = Calls(name) /\ result' = NewResult
  /\ limits' = LimitsOf(name) /\ rules' = {} /\ runtime' = NoRuntime
  /\ sinks' = [i \in Interface |-> <<>>]
  /\ reports' = <<>> /\ decisions' = <<>> /\ events' = <<>> /\ droppedEvents' = 0
  /\ returned' = {} /\ since' = <<>>
  /\ NewControl /\ UNCHANGED printed

Calling(call) ==
  /\ calls # <<>> /\ ~ loop.running /\ Head(calls).call = call
  /\ calls' = Tail(calls)
  /\ UNCHANGED <<scenario, printed>>

CallInstall ==
  /\ Calling("install")
  /\ Install(Head(calls).rules) \/ RefuseInstall(Head(calls).rules)
  /\ UNCHANGED <<limits, sinks, reports, decisions, events, droppedEvents, returned,
                 controlVars, result>>

CallProcess ==
  /\ Calling("process")
  /\ Process(Head(calls).packet)
  /\ result' = [result EXCEPT !.decisions =
                  Append(@, IF HasResultSpace THEN decisions'[Len(decisions')]
                            ELSE Refused(Head(calls).packet))]
  /\ UNCHANGED <<limits, rules, since, controlVars>>

CallUpdate ==
  /\ Calling("update")
  /\ Control!DoUpdate("update-3", UplinkRules) \/ Control!DoRefuseUpdate("update-3", UplinkRules)
  /\ UNCHANGED <<pipelineVars, result>>

CallReconcile ==
  /\ Calling("reconcile")
  /\ Control!ReconcileNothing \/ Control!ReconcileStart
  /\ UNCHANGED <<pipelineVars, result>>

Reconciling ==
  /\ Control!Attempt \/ Control!GiveUp
  /\ UNCHANGED <<pipelineVars, scenario, calls, result, printed>>

\* A PacketDecision that no pipeline made: arrivalTimeMicros is not set by its
\* constructor, and not set here.
Classified(name, time) ==
  [packet |-> [UplinkPacket EXCEPT !.arrivalTimeMicros = time], version |-> 3, candidates |-> <<>>,
   selected |-> {}, qer |-> {}, far |-> {}, urr |-> {}, transformed |-> {},
   result |-> IF name = "queue-full" THEN "PACKET_QUEUE_FULL" ELSE "SHUTDOWN_DEADLINE",
   degraded |-> FALSE]

CallClassify ==
  /\ Calling("classify")
  /\ \E time \in Garbage :
       result' = [result EXCEPT !.decisions = Append(@, Classified(scenario, time))]
  /\ UNCHANGED <<pipelineVars, controlVars>>

\* The RunResult that is returned, and then rendered.
Final ==
  LET controlled == scenario \in ControlScenarios
  IN  [result EXCEPT
         !.n3Sink = sinks["N3"], !.n6Sink = sinks["N6"], !.usageReports = reports,
         !.observabilityDegraded = droppedEvents # 0, !.droppedEvents = droppedEvents,
         !.intendedVersion = 3, !.activeVersion = 3,
         !.appliedVersion = IF controlled THEN appliedVersion ELSE 3,
         !.convergence = IF controlled /\ ~ status.converged THEN "DIVERGENT" ELSE "CONVERGED"]

\* History only: what the first run of name printed is kept.
Kept(name, json) ==
  [n \in DOMAIN printed \cup {name} |-> IF n \in DOMAIN printed THEN printed[n] ELSE json]

Return ==
  /\ Returning
  /\ scenario' = "none"
  /\ printed' = Kept(scenario, RenderJson(Final))
  /\ UNCHANGED <<pipelineVars, controlVars, calls, result>>

ScenarioNext ==
  \/ \E name \in ScenarioNames : Begin(name)
  \/ CallInstall \/ CallProcess \/ CallUpdate \/ CallReconcile \/ Reconciling
  \/ CallClassify \/ Return

ScenarioSpec == ScenarioInit /\ [][ScenarioNext]_scenarioVars
-----------------------------------------------------------------------------
(* Properties.                                                             *)

Results(json) == [i \in DOMAIN json.decisions |-> json.decisions[i].terminalResult]

\* What a scenario is there to show, by its name, in its printed output and
\* in the state behind it.
Demonstrates(name, json) ==
  LET last == json.decisions[Len(json.decisions)]
  IN  CASE name = "uplink-forward" ->
             Results(json) = <<"FORWARDED_TO_N6">> /\ Len(json.n6Sink) = 1 /\ json.n6Sink[1].tunnel = {}
        [] name = "downlink-forward" ->
             Results(json) = <<"FORWARDED_TO_N3">> /\ Len(json.n3Sink) = 1 /\ json.n3Sink[1].tunnel = ToN3.tunnel
        [] name = "pdr-precedence" -> last.selectedPdrId = {10} /\ last.candidates[10] /\ last.candidates[11]
        [] name = "qer-rate-limit" ->
             Results(json) = <<"FORWARDED_TO_N6", "RATE_LIMITED">> /\ runtime.urrs[40].packets = 1
        [] name = "urr-threshold" -> Len(json.usageReports) = 1 /\ json.usageReports[1].payloadBytes = 10000
        [] name \in ControlScenarios ->
             /\ status.attempts = 2 /\ json.state.convergence = "CONVERGED"
             /\ json.state.appliedVersion = {3} /\ applied = {<<"update-3", 3>>}
             /\ Results(json) = <<"FORWARDED_TO_N6">>
        [] name = "overload" ->
             /\ json.observabilityDegraded /\ json.droppedEventCount = 1 /\ last.observabilityDegraded
             /\ Results(json) = <<"FORWARDED_TO_N6">>
        [] name = "queue-full" -> Results(json) = <<"PACKET_QUEUE_FULL">> /\ json.n6Sink = <<>>
        [] name = "shutdown"   -> Results(json) = <<"SHUTDOWN_DEADLINE">> /\ json.n6Sink = <<>>

\* Each scenario shows the behaviour README.md and tests/scenario name it
\* for: the forwarding with its tunnel change, the winner of two matches, the
\* spent bucket, the report at the threshold, the convergence after a retried
\* failure, the packet forwarded although its event is dropped.  The printed
\* usage reports are the ones the pipeline made.
ScenariosDemonstrate ==
  Returning =>
    LET json == RenderJson(Final)
    IN  /\ Demonstrates(scenario, json)
        /\ [i \in DOMAIN json.usageReports |-> json.usageReports[i].reportId] = reports

Repeats(names) ==
  Returning /\ scenario \in names \cap DOMAIN printed => RenderJson(Final) = printed[scenario]

\* A scenario that a pipeline decides prints the same output whatever ran in
\* the process before it: no bucket, counter, sink or adapter is left over.
DecidedScenariosRepeat == Repeats(ScenarioNames \ ClassifiedScenarios)

\* README.md: "Same-input scenario output is identical across 1,000 runs", and
\* tests/property/scenario_repeatability_properties.cpp, for every scenario.
ScenariosRepeat == Repeats(ScenarioNames)
=============================================================================
