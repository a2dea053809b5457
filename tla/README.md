# A TLA+ model of the UPF policy engine

This directory holds a formal model of the policy engine in `src/`: a demo of
a 5G user plane function that matches packets against packet detection rules
(PDR), limits them with QoS rules (QER), forwards or drops them (FAR), counts
their usage (URR), and keeps the rules up to date against a simulated
dataplane. Every module is translated from the C++ source; TLC checks small
instances of it and TLAPS proves every safety property of the passing runs for
all values of the constants.

## 1. Inventory

| Component | Source | State | Operations | What makes it correct |
|---|---|---|---|---|
| Value types | `domain/types.hpp`, `packet.hpp`, `decision.hpp` | none | `Optional`, `checkedAdd`, `checkedMultiply`, enums | overflow is detected exactly |
| Addresses | `domain/address.*` | none | parse, `contains`, port ranges | containment is agreement on the prefix bits |
| Rules and validation | `domain/rules.hpp`, `validation.cpp` | none | `validateRuleSet`, `find*` | what passes never leads to a null pointer, a misfit FAR or an ambiguous match |
| Matching | `matcher.cpp`, loop in `packet_pipeline.cpp` | none | `evaluateCandidate`, candidate loop | one winner, independent of the order of rules |
| QER/FAR/URR | `qer.cpp`, `far.cpp`, `urr.cpp` | none (they compute the next state) | `evaluateQer`, `evaluateFar`, `evaluateUrr` | conformance of the bucket, 64-bit safety, one report per crossing |
| Packet pipeline | `packet_pipeline.*`, `runtime_state.hpp` | ruleset, buckets, counters, sinks, reports, decisions, events | `install`, `process` | all-or-nothing commit, exact accounting, state follows rules |
| Rule service | `rule_service.*` | intended, active, applied version, runtime state | `update`, `remove`, `convergence`, `markApplied` | CONVERGED only for what was applied |
| Reconciliation | `reconciliation.*` | none between calls | `reconcile` | bounded retries, truthful status, eventual convergence |
| Simulated dataplane | `dataplane_adapter.hpp`, `simulated_dataplane.cpp` | script, applied and delayed updates | `apply`, `completeDelayed` | stale work is never applied |
| Scheduler | `scheduler.*` | three queues, admission flag | `enqueue*`, `takeCycle`, `classifyRemainder`, `stopAdmission` | bounded, FIFO, fair, final shutdown |
| Scenario runner | `scenario_runner.*` | none | ten fixed scenarios | each shows what it is named for, whatever ran before it |
| Event sink, packet sink | `adapters/*_sink.cpp`, `ports/*` | small buffers | `emit`, `accept` | bounded, in order, nothing taken back; the pipeline's own buffers behave alike |
| JSON input | `json_input.cpp` | none | `runFiles`, `parseRules`, `parsePackets` | a file is run whole and as it reads, or not at all |
| JSON and human output | `json_output.cpp`, `human_output.cpp` | none | `renderJson`, `renderHuman` | what is printed is what happened, though it is rebuilt from the decisions |
| Command line | `cli/main.cpp` | options | argument loop, two input modes | the exit status tells what was done |

How they interact: `process` calls the matcher and the three evaluators on
the active ruleset and on the runtime state that `install` set up, and stores
what they computed only at its end. `reconcile` reads the rule service, calls
the adapter, and reports a success back with `markApplied`. The pipeline and
the rule service each own a `RuntimeState` and migrate it the same way; they
do not share it. `runFiles` and `ScenarioRunner` each build a pipeline (and,
for two scenarios, a service, an adapter and a controller), make a fixed list
of calls, and hand the decisions to a renderer; `main` chooses one of the two.
The scheduler stands alone. Everything runs on one thread,
nothing is persisted: there are no data races and no crash recovery. What is
hard is the *order* of calls: packets out of order, capacities that run out
between two steps of one call, rules that leave and return, answers of the
adapter that come late or twice, versions that are used again.

## 2. Modules

| Module | Models | Composes |
|---|---|---|
| `UpfTypes`, `Address` | value types; `Optional<T>` is a set of at most one element | |
| `Rules` | rulesets and `validateRuleSet` | `UpfTypes`, `Address` |
| `Matcher` | `evaluateCandidate`, `validPacket`, the winner in closed form | `Rules` |
| `Engine` | `evaluateQer`, `evaluateFar`, `evaluateUrr` | `UpfTypes` |
| `Runtime` | `RuntimeState` and its migration to a new ruleset | `Rules`, `Engine` |
| `PacketPipeline` | `install` and `process` | `Matcher`, `Runtime` |
| `MatchLoop` | the candidate loop, one PDR per step | `Matcher` |
| `TokenBucket` | the life of one bucket | `Engine` |
| `BoundedEventSink`, `InMemoryPacketSink` | the two sink ports | |
| `PipelineBuckets` | the pipeline, shown to implement `TokenBucket` for a QER | `PacketPipeline`, `TokenBucket` (INSTANCE) |
| `Rendering` | `RunResult`, `renderJson`, `renderHuman` | `UpfTypes` |
| `PrefixParser` | `IpPrefix::parse` and `contains` on bytes | `Address` |
| `FileRun` | `runFiles` with the parsing of both files | `PacketPipeline`, `PrefixParser`, `Rendering` |
| `CommandLine` | `main` | `FileRun` |
| `ScenarioRunner` | `ScenarioRunner::run` | `PacketPipeline`, `Rendering`, `ControlPlane` (INSTANCE) |
| `RuleService` | `RuleService` | `Runtime` |
| `SimulatedDataplane` | the adapter | |
| `ControlPlane` | operator, service, adapter and `reconcile` | `RuleService`, `SimulatedDataplane` |
| `FairFifo` | what a scheduler promises | |
| `Scheduler` | `Scheduler`, shown to implement `FairFifo` | `FairFifo` (INSTANCE) |
| `TokenBucket_proofs`, `MatchLoop_proofs`, `Scheduler_proofs` | theorems about the module they are named for | |
| `Runtime_proofs` | lemmas about rules, evaluators and the migration | `Runtime` |
| `PacketPipeline_proofs` | the pipeline's invariants and the two sink ports | `Runtime_proofs` |
| `Compositions_proofs` | a bucket of the pipeline is a `TokenBucket`; what the scenarios show and repeat | `PipelineBuckets`, `ScenarioRunner`, `PacketPipeline_proofs`, `TokenBucket_proofs` (INSTANCE) |
| `ControlPlane_proofs` | service, adapter and `reconcile` | `ControlPlane`, `Runtime_proofs` |
| `CommandLine_proofs` | the parser, `runFiles`, `main`; a run is a run of the pipeline | `CommandLine`, `PacketPipeline_proofs` |
| `MC*` | constants for TLC | |

**PacketPipeline.** One action per call. `Install`/`RefuseInstall` are
`install`. `process` is split by its ways out: `RejectFull` (no space for the
decision), `RejectUnacceptable` (no rules, malformed packet, other session),
`RejectUnmatched`, `RejectByQer`, `RejectByPlan` (FAR, URR overflow, report or
sink space) and `Accept` with `Commit`. The decision record is built up in the
order of the code (`Received`, `Matched`, `Selected`, `Planned`, `Forwarded`),
so a refused packet carries the same partial decision. `since` is a history
variable: where the counting of a URR began. The pipeline keeps its events and
its two sinks itself; `EventsAreASink` and `SinksArePorts` map them to the
ports `BoundedEventSink` and `InMemoryPacketSink`, whose classes it could hold
instead.

**TokenBucket.** The entry of one QER in `runtime_.qers`. A packet is
committed (`Admit`), allowed but refused later in `process` (`Abandon`), rate
limited (`Limit`), or refused by gate or arithmetic (`Refuse`); `Install`
exchanges the parameters. `spent` and `last` are history. `PipelineBuckets`
adds the same history to the pipeline and maps the entry of one QER to it:
`ImplementsTokenBucket`. While the active ruleset lacks the QER, the bucket is
that of a closed QER nobody can install.

**ControlPlane.** `reconcile` is one step per attempt; the operator acts only
between calls, because there is one thread. `LateCompletion` and `DoAccount`
are callers the repository offers an interface for (`completeDelayed`,
`runtime()`) and that only its tests contain; they are marked external.
`answer` and `accepted` are history.

**PrefixParser.** What `inet_pton` and `strtol` find in a text is its input;
the loop over the host bits and the comparison of bytes under a mask are the
code's. The other modules use the sets of bits of `Address`, which the run
`command_line` shows equal.

**FileRun.** A document is a record of raw fields. Reading a field succeeds,
throws (the file is refused) or, for a member missing in a constant object,
aborts in an assertion of the JSON library; the first field that fails decides.
Numbers are taken modulo their width and names that are not known become the
other or the absent value, as `get<>` and the comparisons do. `Read`,
`InstallRules`, `NameRun`, `ProcessPacket` and `Finish` are `runFiles` from top
to bottom; `ProcessPacket` is `process` of the pipeline, and keeps the decision
it returns whether the pipeline retained it or not. `DocumentsAssumption` says
which kinds of value the raw fields may be, and `InputsAssumption` that the
pipeline's constants cover what the files give it: no range is assumed of a
number.

**CommandLine.** One action per iteration of the argument loop and per way out
of `main`. A scenario is one step there, because it cannot fail; a file run is
`FileRun`, step by step, from every pair of files its two paths may hold.

**ScenarioRunner.** The scenarios are data, lists of calls with the rules,
packets and numbers of the code; `CallInstall`, `CallProcess`, `CallUpdate`,
`CallReconcile` and `Reconciling` are the actions of `PacketPipeline` and
`ControlPlane`. `CallClassify` builds the decision of `queue-full` and
`shutdown`, whose arrival time no code sets: any member of `Garbage`. `printed`
is history: the first output of each scenario in the process.

**Scheduler.** `takeCycle` and `classifyRemainder` both hand out a number of
items from the front of each queue. `left` is history: what has left each
queue. The order of the kinds inside one returned vector is fixed and left out.

Left out everywhere: error texts, display strings, `runId` and `scenarioId`
(but for how a file run ends when one of them is no text).
A report id is the tuple of the four values printed into it, the key of the
adapter the pair of the two values joined by its last colon; both conversions
are one-to-one.

## 3. Runs

Numbers are scaled down: `UInt64Max` stands for 2^64-1 and
`BitMicrosPerByte` for 8000000, both symbolic in the modules.

| Run | Checks | Shows |
|---|---|---|
| `pipeline` (`MCPipeline.cfg`) | `TypeOK`, `RuntimeFollowsRules`, `SelectedIsServed`, `UsageAccounted`, `ReportsAccounted`, `SinksAccounted`, `EventsAccounted`, `LimitsEnforced`, `RefusedChangesNothing`, `EventsAreASink`, `SinksArePorts`, `ImplementsTokenBucket` | exact accounting and all-or-nothing commits over every sequence of installs and packets; events, sinks and buckets implement their abstract specifications |
| `token_bucket` | `TypeOK`, `Conformance`, `WithinBurst`, `RefillMovesForward`, `OverflowIsPermanent` | what a bucket lets pass, with any arrival order and reconfiguration |
| `match_loop` | `WinnerIsUnique`, `LoopFindsWinner` | the loop ends at the unique best match of a validated ruleset |
| `control_plane` | `TypeOK`, `ConvergedIsApplied`, `StatusIsTruthful`, `StaleNeverApplied`, `CountersSurvive`, `ReconciliationConverges` | the service tells the truth about the dataplane, and gets there |
| `scheduler` | `QueuesBounded`, `ShutdownIsFinal`, `ImplementsFairFifo` | bounded fair FIFO with a final shutdown |
| `scenarios` (`MCScenarioRunner.cfg`) | `ScenariosDemonstrate`, `DecidedScenariosRepeat` | each scenario shows what it is for, in any order of scenarios in one process |
| `command_line` | `ExitTellsOutcome`, `OutputIsTruthful`, `OutputExplainsRun`, `AllOrNothing`, `AcceptsPrefixes`, `ContainsFirstBits`, `ProgramEnds` | every short command line and every kind of file: exit status, output and prefixes mean what they say |
| `zero_burst` | `ZeroBurstPermitsNone` (violated) | tokens outlive a burst lowered to zero |
| `second_report` | `OneReportPerGeneration` (violated) | a URR that returns reports again |
| `permanent_failure` | `PermanentFailureRemainsDivergent` (violated) | CONVERGED after a permanent failure of a version used again |
| `repeatability` | `ScenariosRepeat` (violated) | two runs of one scenario print different times |
| `input_contract` | `AcceptedAsWritten` (violated) | a PDR for an unknown protocol is installed and matches every protocol |

**Bounds and why they are enough.**
`pipeline`: five rulesets (first version; same rules with a dropping FAR;
renewed QER with closed gate and no URR; no QER and a renewed URR; an invalid
one) and seven packets that reach each way out; three decisions, two events,
one report and two packets per sink, so that each capacity is the first to run
out in some behaviour, and three packets are enough to cross a threshold, be
refused, and be counted again. The followed QER is kept, shared by both PDRs,
lowered in rate, renewed with a closed gate, dropped and brought back; the
other one must not touch it. `token_bucket`: times 0..12 and integers 0..31,
so refills are capped, truncated to partial bytes and overflow; two
configurations share a generation, and `spent` is finite because `Conformance`
bounds it. `match_loop`: all pairs of PDRs over four interface/TEID/QFI
combinations, four nested or disjoint prefixes, and overlapping, touching,
disjoint and reversed port ranges; ambiguity needs only two PDRs.
`control_plane`: three versions, two update ids, every script of at most two
outcomes, two attempts; one packet counted per URR tells a kept counter from a
new one. `scheduler`: capacities 1 and 2, `MaxAccepted` = 3 items per queue, so
each queue fills, empties and fills again; without that bound the history
would grow for ever. `scenarios`: the integers of the code, with 2^31-1 for
2^64-1, which no scenario comes near; `Garbage` has two values, enough for two
runs to differ. `command_line`: all lists of at most three of fifteen arguments
or option-value pairs, so that options repeat, contradict each other, lack
their value and take another option for it; and with both files named, every
list of up to five packets, one rules or packets file for each way to be odd or
broken, and every address with every length from -1 to one beyond the widest.
Integers of 8 and 16 bits are real, 32 and 64 become 20 and 24 bits; bytes have
three bits, an IPv4 address one byte and an IPv6 address two, so that a length
falls on, before and behind the border of a byte. The default limits are
divided by `LimitScale` = 512 and keep their proportions: 4 results, 2 reports,
16 events, 4 packets per sink; five packets overrun the results.

**Fairness.** `ControlPlane` assumes weak fairness of the steps inside
`reconcile` (`Attempt`, `GiveUp`): it is a loop on the caller's thread that
does nothing else. That the operator calls `reconcile` again is not assumed but
written as the hypothesis of `ReconciliationConverges`. `Scheduler` assumes
weak fairness of `TakeCycle`: its owner keeps asking for work, an assumption
about the caller. `CommandLine` assumes weak fairness of its next step: `main` is a straight
line of calls on one thread and runs until it returns; `ProgramEnds` then says
that none of its loops goes on for ever. `PacketPipeline`, `TokenBucket`,
`MatchLoop` and `ScenarioRunner` have no fairness and no liveness property.

`match_loop`, `command_line` and `input_contract` turn deadlock checking off: a
loop ends, and so does the process. All other models can always take a step.

## 4. Where code and documents disagree

1. *"zero burst permits none"* (`README.md:89`). `install` keeps the bucket of
   an unchanged generation without limiting it to the new burst
   (`packet_pipeline.cpp:27`).
2. *"one threshold report per generation"* (`README.md:20`). A URR left out by
   one `install` and brought back by another starts a new counter and reports
   again (`packet_pipeline.cpp:39`).
3. *"permanent failure remains divergent"*
   (`tests/state/reconciliation_tests.cpp:18`). `remove` forgets the active
   version and keeps `appliedVersion_` (`rule_service.cpp:56`). So `update`
   accepts any version next (`rule_service.cpp:9`), although
   `tests/state/snapshot_tests.cpp:14` says *"versions increase
   monotonically"*; and if it is the deleted one, the service is CONVERGED
   although the adapter has just failed for good.
4. *"Same-input scenario output is identical across 1,000 runs"*
   (`README.md:156`). `queue-full` and `shutdown` print the arrival time of a
   decision that nothing initialized (`scenario_runner.cpp:112`,
   `decision.hpp:69`).
5. *"Input rejects unknown fields, invalid ranges"* (`README.md:112`). An
   unknown protocol name leaves a PDR without a protocol
   (`json_input.cpp:41`), although `rules.schema.json:64` lists four; and a
   number beyond its range is taken modulo its width (`json_input.cpp:99`),
   which is the other half of `AcceptedAsWritten`.

Seen while modelling, without a run of its own, because the model states the
code's behaviour in one line:

- `main` returns 4 for an unreadable file and never 3 or 5 (`main.cpp:54`,
  against `README.md:120`); a `runId` that is no text ends the process in an
  uncaught exception, after everything was accepted (`NameRun`).
- The limits in a rules file, required by `rules.schema.json:6`, are never
  read; a run always has the default ones (`json_input.cpp:118`).
- A prefix without digits after its slash is one of length 0
  (`address.cpp:50`: `strtol` finds nothing and reports no error; `LengthOf`).
- The printed QER outcome may be `ARITHMETIC_ERROR`, for which a packet out of
  order is enough, and which `result.schema.json:79` does not list.
- A printed usage report says generation 1, whatever the generation was, and
  gives the bytes counted as the threshold (`json_output.cpp:89-91`).
- With `maximumAttempts_` = 2^32-1 the attempt counter wraps around and the
  loop of `reconcile` has no bound (`reconciliation.cpp:9`). `ControlPlane`
  models the wrap; TLC never ends there, since a run would need 2^32 failures,
  so `StatusIsTruthful` is checked, and proved, for smaller maxima.

`LimitsEnforced`, `ConvergedIsApplied` and one part of `StatusIsTruthful`
therefore carry the hypothesis that an operator can meet: parameters change
only with the generation, versions only increase. Under hypotheses of that kind
the five statements themselves hold, and that is proved: see "When the
statements of section 4 hold" in section 5.

## 5. Proofs

All proofs hold for every value of the constants under the named assumptions
of the modules, each of which TLC evaluates in the runs. They are of three
kinds: widths and sizes (`UInt64MaxAssumption`, `BitMicrosPerByteAssumption`,
`RulesPerTypeAssumption`, `WidthAssumption`, `ByteBitsAssumption`,
`ModulusAssumption`, `LimitScaleAssumption`, `CapacityAssumption`,
`AttemptsAssumption`, `MaxUsageAssumption`, and `ProportionsAssumption`: the
default report limit is no less than the rules of a type, as 1024 is to 256
in `types.hpp`); the declared C++ types of what
comes in (`RuleSetsAssumption`, `PacketsAssumption`, `LimitsAssumption`,
`LoopRuleSetsAssumption`, `LoopPacketsAssumption`, `QersAssumption`,
`ArrivalsAssumption`, `ScriptsAssumption`, `DocumentsAssumption`); and which
constants cover which inputs (`ConfiguredAssumption`, `InputsAssumption`,
`ScenarioNamesAssumption`, and `ScenarioSizesAssumption`: the largest number in
the text of the scenarios, 20000, is below 2^64, and their two PDRs below the
256 rules of a type). No ruleset is assumed valid: validation is part of the
models.

**One bucket** (`TokenBucket_proofs`).
`BucketConforms` is `Spec => []TypeOK /\ []WithinBurst /\ []Conformance`, with
`BucketIsTyped` and `BucketWithinBurst` as its parts. `Conformance` alone is
not inductive: that the added tokens stay in 64 bits needs `WithinBurst`, and
that a refill adds no more than elapsed time earned needs the remainder below
one byte from `TypeOK`. The invariant is the conjunction of the three.
`RefillBounds` carries the arithmetic (division with remainder, monotone
products), `ChargeConforms` the two steps that store a bucket, `FreshConforms`
the others. `BucketTimeMovesForward` and `StuckBucketStaysStuck` are
`RefillMovesForward` and `OverflowIsPermanent`. The second needs `LastFailed`,
which ties the last packet's failure to the bucket as it still is, and
`OverflowGrows`: a product or sum that overflows keeps overflowing when the
elapsed time grows. An install of the same QER cannot pretend to be such a
packet, because a refill after no time never overflows; this is where
`BitMicrosPerByte <= UInt64Max` is used.

**Matching** (`MatchLoop_proofs`). `MatchingIsDeterministic` is `Spec =>
[]LoopFindsWinner /\ []WinnerIsUnique`, and `LoopIsExact` its first half: the
closed form `Winner` that the pipeline's model uses is what the loop leaves.
The loop invariant says that `winner` is the best match among the PDRs seen so
far. Uniqueness is `MatchedOverlap`: two PDRs that match one packet have
overlapping match spaces, criterion by criterion (`NestedPrefixes`,
`CommonPort`, `CommonValue`), and validation refuses such a pair with equal
precedence.

**Scheduler** (`Scheduler_proofs`). `SchedulerBounded`, `SchedulerShutdown`,
`SchedulerRefinesFifo`: the queues are bounded, shutdown is final, and each
call is a step of `FairFifo`. All rest on `SplitQueue` (a queue is the items
taken and the rest) and on `SchedulerInv`: types and lengths.

**The pipeline** (`Runtime_proofs`, `PacketPipeline_proofs`). Every step is
one of four (`Steps`): it stays, installs, refuses a packet or commits one;
`ProcessOutcomes` reduces the ways out of `process` to the last two, saying of
each what it writes (`Refuses`, `Commits`, `Sends`), so that no later proof
looks at the actions again. `PipelineInvariant` proves the inductive invariant
`IInv`:

- `CoreInv`: the active ruleset is validated and the runtime state has exactly
  its entries and generations, in range. It is what makes the lookups of
  `process` defined: `MigratedFits` shows that `install` sets it up,
  `QerNextInRange` and `UrrNextInRange` that the evaluators keep the ranges,
  `SelectedRules` and `FittingFar` that a selected PDR of a validated ruleset
  leads to rules that exist and a FAR that fits. Everything else leans on it.
- `EventsInv`, `DecisionsInv`, `SinksAccounted`, `ReportsAccounted`,
  `UsageInv`, `LimitsInv`: each relates one output to the decisions.
  `SinksAccounted` and `ReportsAccounted` are inductive over `CoreInv`, because
  appending a decision leaves the ranks of the earlier ones alone
  (`EarlierRank`, `LastRank`). `UsageAccounted` is not: that a URR which is
  installed again goes on with the packets counted before needs `since`
  (`SameGenerationSurvives`, `AccountStarts`, `AccountGrows`), so `UsageInv`
  bounds it. `LimitsEnforced` needs the counters of a ruleset that is active
  now to have followed the parameters of all those before (`LimitsInv`).

From it follow `PipelineIsTyped`, `InstallsTogether`, `ValidationSuffices`,
`UsageIsExact`, `ReportsAreExact`, `SinksAreExact`, `EventsAreExact`,
`LimitsHold`, the action property `RefusalIsPreflighted`, and the refinements
`EventsImplementPort` and `SinksImplementPort`: every safety property of the
run `pipeline`, for all rulesets, packets and limits.

**Buckets inside the pipeline** (`Compositions_proofs`).
`PipelineImplementsBucket` is the refinement `ImplementsTokenBucket`: an install
changes the followed QER and its entry together (`InstallIsBuckets`), a packet
whose PDR names it is one arrival (`MetIsBuckets`), any other leaves its entry
alone (`UnmetKeepsEntry`). With `BucketConforms` of the abstract module this
gives `PipelineKeepsContract`: no QER of the pipeline lets more bytes pass than
its burst and rate allow.

**Scenarios** (`Compositions_proofs`). `ScenariosShow` and `ScenariosRepeatable`
are `ScenariosDemonstrate` and `DecidedScenariosRepeat`, for every sequence of
runs in one process. The invariant `RepeatInv` has two parts. `Staged` follows
a scenario call by call: which calls are left, and what the pipeline, the
service and the adapter hold before the next (`AtUpdate` to `AtClassified`, or
`Between` two scenarios, where nothing is said of what earlier ones left
behind). `PrintedIsFinal` says that what was printed is `RenderJson` of
`FinalOf(scenario)`, an expression without a state variable: that is why
nothing that ran before shows. The steps between the stages rest on what
`process` does to the traffic of the scenarios, worked out once for all of
them: the rules are valid (`RulesAreValid`), their first PDR matches and wins
(`FirstWins`), the first packet is charged, counted, reported, sent and retained
(`FirstServed`), and the second one of `qer-rate-limit` is limited
(`SecondLimited`).

**Control plane** (`ControlPlane_proofs`). `ControlPlaneInvariant` proves
`IntentInv` (what is intended is validated, and is what a running `reconcile`
took as its snapshot), `AdapterInv`, `CountersInv` and `VersionsInv`. The last
is why `ConvergedIsApplied` holds: with increasing versions no version in use
exceeds the highest accepted, so a version that was confirmed before cannot
come back for another update. From it follow `ControlPlaneIsTyped`,
`ConvergenceIsReal`, `StaleIsNeverApplied` and `CountersAreKept`.
`StatusTellsTheTruth` adds `AttemptsInv`, which ties the loop variable, the
status and the last answer together, and has the hypothesis `MaximumAttempts <
UInt32Max`: at that number the loop variable wraps (section 4), and the theorem
would be false.

**Files and the command line** (`CommandLine_proofs`).
`AcceptedAreTyped`: what `parseRules` and `parsePackets` accept has the ranges
of the declared types, whatever numbers and lists a file holds. The status of a
file is the first that is not OK (`LeastMember`, `AllAreOk`), so an accepted
file has only items that are OK (`BothAreOk`, `EachItem`), and each such item
converts to a typed rule or packet (`PdrRead`, `PacketRead`, ...).
`ProcessIsPipeline` is `CliSpec => Spec` with the `Spec` of the pipeline: the
executable makes only calls the pipeline was proved for, so `FileRunsAreExact`
gives its invariants to every run from files. `RunsAreAtomic` and
`ExitIsHonest` are `AllOrNothing` and `ExitTellsOutcome`, from `CliInv`: what
each place in `runFiles` has done so far, and that a run starts only in the
files mode and a process ends only outside of a run.
`OutputTellsTheTruth` is `OutputIsTruthful`, from two invariants.
`FilePipelineInv` says what is special about a pipeline that installs once: no
counter was ever started anew, and only committed decisions carry a report id.
For a URR that crosses its threshold there is always space for the report
(`ReportSpaceLeft`: the reports inject into the other URRs of the ruleset), and
for a forwarded packet there is space in its sink (`SinkSpaceLeft`), so no plan
with a report id is refused (`RefusedPlanReportsNothing`); no event is dropped
(`NoEventDropped`). `CopyInv` says that the result is what
the pipeline retained, followed by refused packets, which name no URR. Then the
reports are those of `ReportsAccounted`, in the order `Nth` finds them
(`ReportsRebuilt`: the rank of the k-th position is k).
`OutputTellsTheStory` is `OutputExplainsRun`. It rests on `ExplainInv`: each
bucket and counter of the runtime state is what the next decision about its
rule will start from, as a reader works it out from the decisions so far
(`TokensIn`, `UsageIn`). `DecisionTells` says of each way out of `process`
how the QER and URR parts of its decision relate the state before to the state
after (`QerStep`, `UrrStep`), `StoryGoesOn` that such a decision, retained or
only returned, keeps the invariant. That the printed equation adds up
(`EquationHolds`) needs that no bucket holds more than its burst, which is true
of a run from files because it installs once: with a second install that lowers
the burst under the same generation it would not be.
`ParseRefusesHostBits` and `ContainsComparesFirstBits` are `AcceptsPrefixes` and
`ContainsFirstBits`: what `IpPrefix` does with bytes, shifts and masks is what
`PrefixContains`, on which matching and validation rest, says of bits. A byte is
the last value of a recursive function over its bits and a shift divides by one
of `PowerOfTwo`; that such functions exist and what they compute is proved by
induction (`UpTo`, from the least number missing; `DoublingExists`,
`PowersOfTwo`, `ByteWeighs`). The bits before a position are the quotient of the
byte (`HighBits`), which gives the single bit (`BitSetIsBit`) and, since equal
quotients have equal bits (`SameWeight`), the masked comparison
(`ContainsIsExact`).

**When the statements of section 4 hold.** Each statement that the code
violates is a theorem under a hypothesis that names what the documents leave
unsaid; the run that violates it shows that the hypothesis is needed.

| Statement | Theorem | Hypothesis |
|---|---|---|
| zero burst permits none | `ZeroBurstHolds` | a QER that changes its burst changes its generation (`ParametersFollowGenerations`), and a version names its QERs (`VersionsNameQers`) |
| one report per generation | `OneReportHolds` | no URR comes back in a generation that has reported (`FreshGenerations`, of every install) |
| permanent failure remains divergent | `PermanentFailureDiverges` | the versions accepted so far only increased |
| same input, same output | `ScenariosRepeatButForTimes` | the time that nothing initialized always holds the same value |
| input rejects unknown names and ranges | `WithinSchemasAsWritten` | every accepted file keeps to the protocols of the schema and to sizes of 32 bits (`ProtocolsKnown`, `SizesFit`) |

`ZeroBurstHolds` proves more: no committed packet is larger than the burst of
its QER (`BurstsKept`). `LimitsInv` says that no active bucket holds more than
its burst, so none lets a larger packet pass (`CommitWithinBurst`), and the
version in a decision names the QERs it was made under. `OneReportHolds` needs
`ReportedInv`: a URR that has reported in its generation is marked so, which an
install keeps for the URRs that survive and the hypothesis grants for the
others. `PermanentFailureDiverges` needs `FailureInv`, that what has just failed
for good is still intended and not applied; it has no hypothesis on
`MaximumAttempts`.
`WithinSchemasAsWritten` needs `WrittenInv`: the active rules are those of the
file, and the k-th decision is about its k-th packet.

Two of these need no hypothesis for a run from files, which installs once:
`FileRunsReportOnce` (from `OneReportHolds`, whose hypothesis
`RunInstallsFresh` shows to hold) and `FileRunsKeepBursts` (since no bucket
holds more than its burst). A run from files cannot show the first two
disagreements of section 4; a program that embeds the pipeline and installs
twice can.

**Only model-checked.** Liveness: `ReconciliationConverges`, `ProgramEnds` and
the fairness part of `ImplementsFairFifo`. The prover has no rule for fairness
and ENABLED here.

## 6. Not modelled

- `SimulatedClock`: one number that only grows; nothing calls it, the pipeline
  takes time from the packet.
- The grammar of JSON, the text of addresses (`inet_pton`, `inet_ntop`) and of
  numbers, fractions and numbers of 2^64 and more: the work of libraries. What
  they find in a file is the input of `FileRun` and `PrefixParser`.
- The wording and layout of both outputs and of all error texts.
- A failed allocation, for instance inside `install`. A build without
  assertions, where a member missing in a constant JSON object is undefined
  instead of an abort.
- Build files and tests; the schemas are quoted where the code disagrees.

## 7. Plan

All components above are modelled, every safety property that a passing run
checks is proved, and so is every statement that a run refutes, under the
hypothesis it lacks. What could be added:

1. The liveness properties, with a prover that handles ENABLED.
2. `SimulatedClock`, once something in `src/` calls it.
