------------------------------- MODULE FileRun -------------------------------
(***************************************************************************)
(* A run from two files: runFiles with readJson, parseRules and            *)
(* parsePackets (src/adapters/json_input.cpp) around one PacketPipeline    *)
(* with the default limits (include/upf/domain/types.hpp).  CommandLine    *)
(* starts it.                                                              *)
(*                                                                         *)
(* A file is Optional: without a value when it cannot be read or is not    *)
(* JSON.  A document is a record of raw fields: a number, a text, a list,  *)
(* a pair for an object of two numbers, Missing when the document lacks    *)
(* the field, or Mistyped when it holds something of another kind, or text *)
(* that is no address.  Fields that the code never reads, known or         *)
(* unknown, are left out.                                                  *)
(***************************************************************************)
EXTENDS PacketPipeline, PrefixParser, Rendering, FiniteSetsExt

CONSTANTS RulesAt, PacketsAt,  \* by path, the files that may be found there
          Missing, Mistyped,
          Modulus,             \* 2^N of an unsigned integer of N bits
          LimitScale           \* the default limits are divided by this

ASSUME ModulusAssumption ==
  /\ Modulus \in [{8, 16, 32, 64} -> Nat \ {0}] /\ Modulus[64] = UInt64Max + 1
  /\ \A width \in {8, 16, 32} : Modulus[width] <= Modulus[64]
ASSUME LimitScaleAssumption == LimitScale \in Nat \ {0}

\* What the fields that are read as numbers, prefixes or lists may hold.
IsNumber(raw) == raw \in {Missing, Mistyped} \/ raw \in Int
IsPair(raw)   == raw \in {Missing, Mistyped} \/ \A k \in 1 .. 2 : IsNumber(raw[k])
IsText(raw)   == raw \in {Missing, Mistyped} \/ raw.address \subseteq IpAddress
IsList(raw, IsItem(_)) ==
  raw \in {Missing, Mistyped} \/ (IsVector(raw) /\ \A k \in DOMAIN raw : IsItem(raw[k]))

IsPdrItem(item) ==
  /\ IsNumber(item.precedence) /\ IsText(item.uePrefix)
  /\ IsPair(item.localPorts) /\ IsPair(item.remotePorts)
IsFarItem(item) == IsPair(item.tunnel)
IsQerItem(item) ==
  IsNumber(item.rateBitsPerSecond) /\ IsNumber(item.burstBytes) /\ IsNumber(item.generation)
IsUrrItem(item) == IsNumber(item.volumeThresholdBytes) /\ IsNumber(item.generation)
IsPacketItem(item) ==
  /\ IsPair(item.tunnel) /\ IsNumber(item.sourcePort) /\ IsNumber(item.destinationPort)
  /\ IsNumber(item.payloadBytes) /\ IsNumber(item.arrivalTimeMicros)

IsRulesDoc(doc) ==
  /\ IsNumber(doc.rulesetVersion)
  /\ IsList(doc.pdrs, IsPdrItem) /\ IsList(doc.fars, IsFarItem)
  /\ IsList(doc.qers, IsQerItem) /\ IsList(doc.urrs, IsUrrItem)
IsPacketsDoc(doc) == IsList(doc.packets, IsPacketItem)

\* The documents that may be found at some path.
DocumentsAt(filesAt) == UNION UNION {filesAt[path] : path \in DOMAIN filesAt}

ASSUME DocumentsAssumption ==
  /\ \A doc \in DocumentsAt(RulesAt) : IsRulesDoc(doc)
  /\ \A doc \in DocumentsAt(PacketsAt) : IsPacketsDoc(doc)

VARIABLES rulesFile, packetsFile,   \* the two files
          pc,                       \* what runFiles does next, or how it ended
          result                    \* RunResult

runVars == <<vars, rulesFile, packetsFile, pc, result>>

\* Mutant: fewer events than results.
FewEvents == [results |-> 2048 \div LimitScale, reports |-> 1024 \div LimitScale,
              events |-> 1024 \div LimitScale, sinkPackets |-> 2048 \div LimitScale]

\* The limits of CapacityLimits that a pipeline looks at.
DefaultLimits ==
  [results |-> 2048 \div LimitScale, reports |-> 1024 \div LimitScale,
   events |-> 8192 \div LimitScale, sinkPackets |-> 2048 \div LimitScale]

\* The default reports outnumber the rules of a type, as 1024 do 256.
ASSUME ProportionsAssumption == RulesPerType <= DefaultLimits.reports

RunInit ==
  /\ Constructed(DefaultLimits) /\ rulesFile = {} /\ packetsFile = {}
  /\ pc = "idle" /\ result = NewResult

\* The files that may be found at a path; where there is none, nothing can
\* be read.
Found(filesAt, path) == IF path \in DOMAIN filesAt THEN filesAt[path] ELSE {{}}

Start(rulesPath, packetsPath) ==
  /\ pc = "idle" /\ pc' = "read"
  /\ rulesFile' \in Found(RulesAt, rulesPath) /\ packetsFile' \in Found(PacketsAt, packetsPath)
  /\ UNCHANGED <<vars, result>>

-----------------------------------------------------------------------------
(* Reading a field: it succeeds, throws an exception of the JSON library,  *)
(* which ends in failure, or aborts the process.                           *)

Need(raw)    == IF raw \in {Missing, Mistyped} THEN "FAILED" ELSE "OK"
May(raw)     == IF raw = Mistyped THEN "FAILED" ELSE "OK"
Present(raw) == IF raw = Missing THEN "FAILED" ELSE "OK"

\* An object of two numbers.  A member that is not there is looked up in a
\* constant object, which the library asserts against.
MayPair(raw) ==
  IF raw = Missing THEN "OK"
  ELSE IF raw = Mistyped THEN "FAILED"
  ELSE IF \E k \in 1 .. 2 : raw[k] = Missing THEN "ABORTED"
  ELSE IF \E k \in 1 .. 2 : raw[k] = Mistyped THEN "FAILED" ELSE "OK"

\* Fields and items are read in order, and the first that fails decides.
First(statuses) ==
  LET failing == {i \in DOMAIN statuses : statuses[i] # "OK"}
  IN  IF failing = {} THEN "OK" ELSE statuses[Min(failing)]

Each(list, Status(_)) ==
  IF list \in {Missing, Mistyped} THEN <<"FAILED">>
  ELSE [i \in DOMAIN list |-> Status(list[i])]

\* get<std::uintN_t>: the number modulo 2^N, whatever its sign and size.
Number(raw, width) == raw % Modulus[width]

OptionalOf(raw, Convert(_)) == IF raw = Missing THEN {} ELSE {Convert(raw)}
OptionalNumber(raw, width)  == IF raw = Missing THEN {} ELSE {Number(raw, width)}

\* A text other than the one compared with is the other value.
InterfaceOf(raw)  == IF raw = "N3" THEN "N3" ELSE "N6"
PortsOf(raw)      == [first |-> Number(raw[1], 16), last |-> Number(raw[2], 16)]
TunnelOf(raw)     == [teid |-> Number(raw[1], 32), qfi |-> Number(raw[2], 8)]
TransportProtocol == {"TCP", "UDP", "ICMP", "ICMPV6"}
ProtocolOf(raw)   == {p \in TransportProtocol : raw = p}

-----------------------------------------------------------------------------
(* parseRules                                                              *)

PrefixStatus(raw) ==
  IF raw \in {Missing, Mistyped} THEN "FAILED" ELSE IF ParsePrefix(raw) = {} THEN "FAILED" ELSE "OK"

PdrStatus(item) ==
  First(<<Need(item.id), Need(item.precedence), Present(item.sourceInterface), May(item.teid),
          PrefixStatus(item.uePrefix), MayPair(item.localPorts), MayPair(item.remotePorts), May(item.qfi),
          Need(item.farId), May(item.qerId), May(item.urrId)>>)
FarStatus(item) ==
  First(<<Need(item.id), Present(item.action), May(item.tunnelOperation), MayPair(item.tunnel)>>)
QerStatus(item) ==
  First(<<Need(item.id), Present(item.gate), Need(item.rateBitsPerSecond), Need(item.burstBytes),
          Need(item.generation)>>)
UrrStatus(item) ==
  First(<<Need(item.id), Need(item.volumeThresholdBytes), Need(item.generation)>>)

RulesStatus(doc) ==
  First(<<Need(doc.sessionId), Need(doc.rulesetVersion)>>
        \o Each(doc.pdrs, PdrStatus) \o Each(doc.fars, FarStatus)
        \o Each(doc.qers, QerStatus) \o Each(doc.urrs, UrrStatus))

\* A protocol that is none of the four leaves the PDR without one.
PdrOf(item) ==
  [id |-> Number(item.id, 32), precedence |-> Number(item.precedence, 32),
   sourceInterface |-> InterfaceOf(item.sourceInterface), teid |-> OptionalNumber(item.teid, 32),
   uePrefix |-> Value(ParsePrefix(item.uePrefix)), protocol |-> ProtocolOf(item.protocol),
   localPorts |-> OptionalOf(item.localPorts, PortsOf),
   remotePorts |-> OptionalOf(item.remotePorts, PortsOf),
   qfi |-> OptionalNumber(item.qfi, 8), farId |-> Number(item.farId, 32),
   qerId |-> OptionalNumber(item.qerId, 32), urrId |-> OptionalNumber(item.urrId, 32)]
FarOfItem(item) ==
  [id |-> Number(item.id, 32), action |-> IF item.action = "FORWARD" THEN "FORWARD" ELSE "DROP",
   destination |-> OptionalOf(item.destinationInterface, InterfaceOf),
   operation |-> IF item.tunnelOperation \in {"ADD", "REMOVE"} THEN item.tunnelOperation
                 ELSE "TUNNEL_NONE",
   tunnel |-> OptionalOf(item.tunnel, TunnelOf)]
QerOf(item) ==
  [id |-> Number(item.id, 32), gate |-> IF item.gate = "OPEN" THEN "OPEN" ELSE "CLOSED",
   rateBitsPerSecond |-> Number(item.rateBitsPerSecond, 64),
   burstBytes |-> Number(item.burstBytes, 64), generation |-> Number(item.generation, 32)]
UrrOf(item) ==
  [id |-> Number(item.id, 32), volumeThresholdBytes |-> Number(item.volumeThresholdBytes, 64),
   generation |-> Number(item.generation, 32)]

Map(list, Convert(_)) == [i \in DOMAIN list |-> Convert(list[i])]

RuleSetOf(doc) ==
  [sessionId |-> doc.sessionId, version |-> Number(doc.rulesetVersion, 64),
   pdrs |-> Map(doc.pdrs, PdrOf), fars |-> Map(doc.fars, FarOfItem),
   qers |-> Map(doc.qers, QerOf), urrs |-> Map(doc.urrs, UrrOf)]

-----------------------------------------------------------------------------
(* parsePackets                                                            *)

PacketStatus(item) ==
  First(<<Need(item.packetId), Need(item.sessionId), Present(item.ingress), MayPair(item.tunnel),
          Need(item.sourceIp), Need(item.destinationIp),
          IF ProtocolOf(item.protocol) = {} THEN "FAILED" ELSE "OK",
          Need(item.sourcePort), Need(item.destinationPort), Need(item.payloadBytes),
          Need(item.arrivalTimeMicros)>>)

PacketsStatus(doc) == First(Each(doc.packets, PacketStatus))

PacketOf(item) ==
  [packetId |-> item.packetId, sessionId |-> item.sessionId, ingress |-> InterfaceOf(item.ingress),
   tunnel |-> OptionalOf(item.tunnel, TunnelOf), sourceIp |-> item.sourceIp,
   destinationIp |-> item.destinationIp, protocol |-> item.protocol,
   sourcePort |-> Number(item.sourcePort, 16), destinationPort |-> Number(item.destinationPort, 16),
   payloadBytes |-> Number(item.payloadBytes, 32),
   arrivalTimeMicros |-> Number(item.arrivalTimeMicros, 64)]

-----------------------------------------------------------------------------
(* runFiles                                                                *)

\* What the files at some path give the pipeline.
AcceptedRuleSets ==
  {RuleSetOf(doc) : doc \in {d \in DocumentsAt(RulesAt) : RulesStatus(d) = "OK"}}
AcceptedPackets ==
  UNION {{PacketOf(doc.packets[k]) : k \in DOMAIN doc.packets} :
           doc \in {d \in DocumentsAt(PacketsAt) : PacketsStatus(d) = "OK"}}

ASSUME InputsAssumption ==
  /\ AcceptedRuleSets \subseteq RuleSets /\ AcceptedPackets \subseteq Packets
  /\ DefaultLimits \in Limits

RulesDoc   == Value(rulesFile)
PacketsDoc == Value(packetsFile)

\* Both documents are parsed before either result is looked at.
Parsed ==
  LET statuses == {RulesStatus(RulesDoc), PacketsStatus(PacketsDoc)}
  IN  IF "ABORTED" \in statuses THEN "aborted"
      ELSE IF statuses = {"OK"} THEN "install" ELSE "failed"

Read ==
  /\ pc = "read"
  /\ pc' = IF rulesFile = {} \/ packetsFile = {} THEN "failed" ELSE Parsed
  /\ UNCHANGED <<vars, rulesFile, packetsFile, result>>

\* Mutant: the result of install is not looked at.
InstallRulesAnyway ==
  /\ pc = "install" /\ pc' = "name"
  /\ Install(RuleSetOf(RulesDoc)) \/ RefuseInstall(RuleSetOf(RulesDoc))
  /\ UNCHANGED <<limits, sinks, reports, decisions, events, droppedEvents, returned,
                 rulesFile, packetsFile, result>>

InstallRules ==
  /\ pc = "install"
  /\ \/ Install(RuleSetOf(RulesDoc)) /\ pc' = "name"
     \/ RefuseInstall(RuleSetOf(RulesDoc)) /\ pc' = "failed"
  /\ UNCHANGED <<limits, sinks, reports, decisions, events, droppedEvents, returned,
                 rulesFile, packetsFile, result>>

\* A runId or scenarioId that is no text throws outside of every handler.
NameRun ==
  /\ pc = "name"
  /\ pc' = IF First(<<May(PacketsDoc.runId), May(PacketsDoc.scenarioId)>>) = "OK"
           THEN "run" ELSE "aborted"
  /\ UNCHANGED <<vars, rulesFile, packetsFile, result>>

Done == Len(result.decisions)   \* the packets processed so far

\* The decision process returns is kept, whether the pipeline retained it or not.
ProcessPacket ==
  /\ pc = "run" /\ Done < Len(PacketsDoc.packets)
  /\ LET p == PacketOf(PacketsDoc.packets[Done + 1])
     IN  /\ Process(p)
         /\ result' = [result EXCEPT !.decisions =
                         Append(@, IF HasResultSpace THEN decisions'[Len(decisions')] ELSE Refused(p))]
  /\ UNCHANGED <<limits, rules, since, rulesFile, packetsFile, pc>>

\* The sinks are copied; the reports and the state of the events are not.
Finish ==
  /\ pc = "run" /\ Done = Len(PacketsDoc.packets)
  /\ pc' = "done"
  /\ LET version == RuleSetOf(RulesDoc).version
     IN  result' = [result EXCEPT
                      !.n3Sink = sinks["N3"], !.n6Sink = sinks["N6"], !.intendedVersion = version,
                      !.appliedVersion = version, !.activeVersion = version, !.convergence = "CONVERGED"]
  /\ UNCHANGED <<vars, rulesFile, packetsFile>>

RunNext == Read \/ InstallRules \/ NameRun \/ ProcessPacket \/ Finish
-----------------------------------------------------------------------------
(* Properties.                                                             *)

\* What runFiles leaves out of the result is never missed: the usage reports
\* that renderJson rebuilds from the decisions, refused ones included, are
\* those the pipeline produced, and the events it says were not dropped were
\* not.  Only the proportions of the default limits make this true: reports
\* never run out for the URRs one ruleset may have, events never before results.
OutputIsTruthful ==
  pc = "done" =>
    LET json == RenderJson(result)
    IN  /\ [k \in DOMAIN json.usageReports |-> json.usageReports[k].reportId] = reports
        /\ json.observabilityDegraded = (droppedEvents > 0)
        /\ json.droppedEventCount = droppedEvents
        /\ json.n3Sink = sinks["N3"] /\ json.n6Sink = sinks["N6"]

\* The decisions printed before the i-th that evaluated QER (URR) id, and the
\* tokens (packets and bytes) that the last of them says it left.
TokensLeft(id, i) ==
  LET earlier == {k \in 1 .. i - 1 : \E q \in result.decisions[k].qer : q.qerId = id}
      last    == result.decisions[Max(earlier)]
  IN  IF earlier = {} THEN RuleOf(Active.qers, id).burstBytes
      ELSE IF last.result \in CommittedResults \cup {"RATE_LIMITED"}
      THEN Value(last.qer).tokensAfter ELSE Value(last.qer).tokensBefore

UsageLeft(id, i) ==
  LET earlier == {k \in 1 .. i - 1 : \E u \in result.decisions[k].urr : u.urrId = id}
      last    == result.decisions[Max(earlier)]
  IN  IF earlier = {} THEN <<0, 0>>
      ELSE LET u == Value(last.urr)
           IN  IF last.result \in CommittedResults
               THEN <<u.packetsAfter, u.bytesAfter>> ELSE <<u.packetsBefore, u.bytesBefore>>

\* A reader of the output can follow every bucket and counter from decision
\* to decision, over refused packets too: what a decision starts from is what
\* the one before left, and the equation renderHuman prints is exact for an
\* allowed packet, up to a refill that the burst capped, while a denied packet
\* leaves the refilled or the untouched bucket.
OutputExplainsRun ==
  LET human == RenderHuman(result)
      json  == RenderJson(result).decisions
  IN  \A k \in DOMAIN human :
        /\ \A q \in json[k].qer, equation \in human[k].equation :
             LET burst  == RuleOf(Active.qers, q.qerId).burstBytes
                 filled == Min({burst, equation[1] + equation[2]})
             IN  /\ equation[1] = TokensLeft(q.qerId, k)
                 /\ equation[4] = CASE human[k].outcome = "ALLOW"        -> filled - equation[3]
                                     [] human[k].outcome = "RATE_LIMITED" -> filled
                                     [] OTHER                             -> equation[1]
        /\ \A u \in json[k].urr :
             <<human[k].urr[1], human[k].urr[3]>> = UsageLeft(u.urrId, k)

\* A run that fails has printed and changed nothing; one that completes has
\* answered every packet of the file, under the ruleset of the file.
AllOrNothing ==
  /\ pc \in {"failed", "aborted"} => result = NewResult /\ decisions = <<>>
  /\ pc = "failed" => rules = {}
  /\ pc = "done" => /\ Len(result.decisions) = Len(PacketsDoc.packets)
                    /\ rules = {RuleSetOf(RulesDoc)} /\ ValidateRuleSet(RuleSetOf(RulesDoc))

\* The texts of prefixes in the rules file, with an address and a length.
PrefixTexts ==
  IF rulesFile = {} THEN {}
  ELSE IF RulesDoc.pdrs \in {Missing, Mistyped} THEN {}
  ELSE {text \in {RulesDoc.pdrs[k].uePrefix : k \in DOMAIN RulesDoc.pdrs} \ {Missing, Mistyped} :
          Readable(text)}
AsPrefix(text) == [network |-> Value(text.address), length |-> LengthOf(text)]

\* parse accepts, of the texts with an address and a length in range, exactly
\* those whose host bits are all zero, wherever in a byte the length ends: an
\* overlooked host bit would give one prefix several forms.
AcceptsPrefixes ==
  \A text \in PrefixTexts : (ParsePrefix(text) # {}) = (AsPrefix(text) \in IpPrefix)

\* The comparison by bytes and mask is the comparison of the first bits of
\* both addresses, at every length, also at the borders of bytes.
ContainsFirstBits ==
  \A text \in PrefixTexts : \A prefix \in ParsePrefix(text), address \in IpAddress :
    Contains(prefix, address) = PrefixContains(prefix, address)

-----------------------------------------------------------------------------
(* What the documents say and the code does not do.                        *)

\* README.md: "Input rejects unknown fields, invalid ranges": a file that is
\* accepted is run as it reads.  A PDR that names a protocol matches on that
\* protocol, and a packet has the size the file gives it.
AcceptedAsWritten ==
  /\ \A rs \in rules : \A k \in DOMAIN rs.pdrs :
       RulesDoc.pdrs[k].protocol # Missing => rs.pdrs[k].protocol = {RulesDoc.pdrs[k].protocol}
  /\ \A k \in DOMAIN result.decisions :
       result.decisions[k].packet.payloadBytes = PacketsDoc.packets[k].payloadBytes
=============================================================================
