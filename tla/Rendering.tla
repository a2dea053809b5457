------------------------------ MODULE Rendering ------------------------------
(***************************************************************************)
(* The two renderers of a finished run (src/adapters/json_output.cpp,      *)
(* src/adapters/human_output.cpp) and the RunResult they are given         *)
(* (include/upf/application/scenario_runner.hpp).  A document is a record  *)
(* of the facts it states; null is the Optional without a value.  Wording, *)
(* key names and the ids of the run are left out.                          *)
(***************************************************************************)
EXTENDS UpfTypes, Sequences, FiniteSets

\* RunResult as its constructor leaves it.
NewResult ==
  [decisions |-> <<>>, usageReports |-> <<>>, n3Sink |-> <<>>, n6Sink |-> <<>>,
   intendedVersion |-> 0, appliedVersion |-> 0, activeVersion |-> 0, convergence |-> "EMPTY",
   observabilityDegraded |-> FALSE, droppedEvents |-> 0]

NullIfZero(n) == IF n = 0 THEN {} ELSE {n}

\* The facts of a decision part that does not apply are null, and its name
\* is NOT_APPLICABLE.
OutcomeJson(d) == IF d.qer = {} THEN "NOT_APPLICABLE" ELSE Value(d.qer).outcome

FarJson(d) ==
  IF d.far = {} THEN [farId |-> {}, action |-> "NOT_APPLICABLE", destination |-> "NOT_APPLICABLE",
                      before |-> {}, after |-> {}]
  ELSE LET far == Value(d.far)
       IN  [farId |-> {far.farId}, action |-> far.action,
            destination |-> IF far.action = "DROP" THEN "NONE" ELSE far.destination,
            before |-> far.before, after |-> far.after]

\* decision.sinkPresent and decision.sink
SinkJson(d) ==
  CASE d.result = "FORWARDED_TO_N3" -> "N3" [] d.result = "FORWARDED_TO_N6" -> "N6" [] OTHER -> "NONE"

\* decisionJson
DecisionJson(d) ==
  [packetId |-> d.packet.packetId, sessionId |-> d.packet.sessionId,
   arrivalTimeMicros |-> d.packet.arrivalTimeMicros, ingress |-> d.packet.ingress,
   rulesetVersion |-> d.version, candidates |-> d.candidates, selectedPdrId |-> d.selected,
   qer |-> d.qer, outcome |-> OutcomeJson(d), far |-> FarJson(d), urr |-> d.urr,
   terminalResult |-> d.result, sink |-> SinkJson(d), transformedPacket |-> d.transformed,
   observabilityDegraded |-> d.degraded]

\* One event per decision, numbered from one, also where the pipeline dropped
\* its own: the decisions are all renderJson looks at.
EventsJson(decisions) ==
  [i \in DOMAIN decisions |->
     [sequence |-> i, simulatedTimeMicros |-> decisions[i].packet.arrivalTimeMicros,
      packetId |-> decisions[i].packet.packetId, rulesetVersion |-> decisions[i].version,
      terminalResult |-> decisions[i].result]]

\* The k-th smallest number of S.
Nth(S, k) == CHOOSE i \in S : Cardinality({j \in S : j <= i}) = k

\* The usage reports, rebuilt from the decisions that carry a report id, in
\* their order; the generation is the literal 1 and the threshold is the count
\* that crossed it.
UsageReportsJson(decisions) ==
  LET reporting == {i \in DOMAIN decisions : \E u \in decisions[i].urr : u.reportId # {}}
  IN  [k \in 1 .. Cardinality(reporting) |->
         LET d == decisions[Nth(reporting, k)]
             u == Value(d.urr)
         IN  [reportId |-> Value(u.reportId), sessionId |-> d.packet.sessionId,
              urrId |-> u.urrId, generation |-> 1, rulesetVersion |-> d.version,
              packets |-> u.packetsAfter, payloadBytes |-> u.bytesAfter,
              thresholdBytes |-> u.bytesAfter]]

\* renderJson
RenderJson(result) ==
  [decisions    |-> [i \in DOMAIN result.decisions |-> DecisionJson(result.decisions[i])],
   events       |-> EventsJson(result.decisions),
   usageReports |-> UsageReportsJson(result.decisions),
   n3Sink       |-> result.n3Sink,
   n6Sink       |-> result.n6Sink,
   state        |-> [intendedVersion |-> NullIfZero(result.intendedVersion),
                     appliedVersion  |-> NullIfZero(result.appliedVersion),
                     activeVersion   |-> NullIfZero(result.activeVersion),
                     convergence     |-> result.convergence],
   observabilityDegraded |-> result.observabilityDegraded,
   droppedEventCount     |-> result.droppedEvents]

\* renderHuman: the decisions only, and of their parts less than the JSON.
\* The counters of a URR that does not apply are printed as zeros.
RenderHuman(result) ==
  [i \in DOMAIN result.decisions |->
     LET d == result.decisions[i]
     IN  [packetId |-> d.packet.packetId, time |-> d.packet.arrivalTimeMicros,
          version |-> d.version, candidates |-> d.candidates, pdr |-> d.selected,
          outcome |-> IF d.selected = {} THEN "" ELSE OutcomeJson(d),
          equation |-> {<<q.tokensBefore, q.refillBytes, q.packetChargeBytes, q.tokensAfter>> : q \in d.qer},
          far |-> FarJson(d).action,
          urr |-> IF d.urr = {} THEN <<0, 0, 0, 0>>
                  ELSE LET u == Value(d.urr)
                       IN  <<u.packetsBefore, u.packetsAfter, u.bytesBefore, u.bytesAfter>>,
          report |-> UNION {u.reportId : u \in d.urr}, sink |-> SinkJson(d), result |-> d.result]]
=============================================================================
