---------------------------- MODULE MCCommandLine ----------------------------
(***************************************************************************)
(* Up to three arguments, or options with their values, of every kind and  *)
(* in any order, and the two options of a run from files with every file   *)
(* below.  Integers of 8 and 16 bits are real, the wider ones have 20 and  *)
(* 24 bits; a byte of an address has three bits, an IPv4 address one byte  *)
(* and an IPv6 address two.                                                *)
(***************************************************************************)
EXTENDS CommandLine

MCWidth   == [IPV4 |-> 3, IPV6 |-> 6]
MCModulus == (8 :> 256) @@ (16 :> 65536) @@ (32 :> 1048576) @@ (64 :> 16777216)

\* An IPv4 address that has its first bit set, or no bit.
Ip(bit) == [family |-> "IPV4", bits |-> <<bit, 0, 0>>]
Text(address, number, rest) == [slash |-> TRUE, address |-> address, number |-> number, rest |-> rest]
UePrefix == Text({Ip(1)}, {1}, "")

(* Rules files with one uplink PDR behind a QER and a URR and one downlink *)
(* PDR, and variants of it with one thing wrong in each.                   *)

PdrItem(id, interface, teid, farId, qerId) ==
  [id |-> id, precedence |-> 1, sourceInterface |-> interface, teid |-> teid,
   uePrefix |-> UePrefix, protocol |-> Missing, localPorts |-> <<1, 1>>, remotePorts |-> Missing,
   qfi |-> Missing, farId |-> farId, qerId |-> qerId, urrId |-> 1]

GoodRules ==
  [sessionId |-> "s1", rulesetVersion |-> 1,
   pdrs |-> <<PdrItem(1, "N3", 1, 1, 1), PdrItem(2, "N6", Missing, 2, Missing)>>,
   fars |-> <<[id |-> 1, action |-> "FORWARD", destinationInterface |-> "N6",
               tunnelOperation |-> "REMOVE", tunnel |-> Missing],
              [id |-> 2, action |-> "FORWARD", destinationInterface |-> "N3",
               tunnelOperation |-> "ADD", tunnel |-> <<7, 5>>]>>,
   qers |-> <<[id |-> 1, gate |-> "OPEN", rateBitsPerSecond |-> 4, burstBytes |-> 5, generation |-> 1]>>,
   urrs |-> <<[id |-> 1, volumeThresholdBytes |-> 4, generation |-> 2]>>]

Wildcard   == [GoodRules EXCEPT !.pdrs[1].protocol = "SCTP"]
Numberless == [GoodRules EXCEPT !.pdrs[1].uePrefix = Text({Ip(0)}, {}, "")]

\* Read, and then accepted or refused by the validation.
OddRules ==
  {Wildcard, Numberless,
   [GoodRules EXCEPT !.fars[1].action = "HOLD", !.fars[1].destinationInterface = Missing,
                     !.fars[1].tunnelOperation = Missing],
   [GoodRules EXCEPT !.qers[1].gate = "AJAR"],
   [GoodRules EXCEPT !.pdrs[1].id = 1048576],
   [GoodRules EXCEPT !.pdrs[1].localPorts = <<2, 1>>],
   [GoodRules EXCEPT !.pdrs[2].sourceInterface = Mistyped, !.fars[2].tunnel = <<7, 261>>]}

\* Not read: a field is missing or mistyped, or a lookup is asserted against.
BadRules ==
  {[GoodRules EXCEPT !.rulesetVersion = Missing], [GoodRules EXCEPT !.qers = Mistyped],
   [GoodRules EXCEPT !.pdrs[1].uePrefix = Mistyped], [GoodRules EXCEPT !.pdrs[2].qerId = Mistyped],
   [GoodRules EXCEPT !.pdrs[1].remotePorts = <<1, Missing>>],
   [GoodRules EXCEPT !.fars[2].tunnel = <<Mistyped, 5>>], [GoodRules EXCEPT !.urrs[1].id = Missing]}

PacketItem(id, ingress, tunnel, from, to, bytes, time) ==
  [packetId |-> id, sessionId |-> "s1", ingress |-> ingress, tunnel |-> tunnel,
   sourceIp |-> Ip(from), destinationIp |-> Ip(to), protocol |-> "UDP",
   sourcePort |-> 1, destinationPort |-> 1, payloadBytes |-> bytes, arrivalTimeMicros |-> time]

Early   == PacketItem("early", "N3", <<1, 5>>, 1, 0, 3, 0)
Later   == PacketItem("later", "N3", <<1, 5>>, 1, 0, 4, 3)
Down    == PacketItem("down", "N6", Missing, 0, 1, 1, 0)

PacketsFile(packets) == [runId |-> "r", scenarioId |-> Missing, packets |-> packets]

GoodPackets == {PacketsFile(s) : s \in UNION {[1 .. n -> {Early, Later, Down}] : n \in 0 .. 5}}

\* A size one above 32 bits, a time below zero, which wraps to the last one.
Oversized == PacketsFile(<<[Down EXCEPT !.payloadBytes = 1048577], Early>>)
Timeless  == PacketsFile(<<[Early EXCEPT !.arrivalTimeMicros = -1], Later>>)

BadPackets ==
  {[PacketsFile(<<Early>>) EXCEPT !.packets = Missing], [PacketsFile(<<Early>>) EXCEPT !.runId = Mistyped],
   PacketsFile(<<Early, [Down EXCEPT !.protocol = "SCTP"]>>),
   PacketsFile(<<[Early EXCEPT !.tunnel = <<Missing, 5>>]>>),
   PacketsFile(<<[Down EXCEPT !.sourceIp = Mistyped]>>)}

\* Every address with every length from below zero to one too many, and the
\* texts without a slash, an address, a number or an end.
PrefixTextsTried ==
  {Text({a}, {n}, "") : a \in IpAddress, n \in -1 .. 7}
    \cup {Text({a}, {}, rest) : a \in IpAddress, rest \in {"", "no"}}
    \cup {Text({}, {1}, ""), [Text({}, {}, "") EXCEPT !.slash = FALSE]}
PrefixRules == {[GoodRules EXCEPT !.pdrs[1].uePrefix = text] : text \in PrefixTextsTried}

Files(docs) == {{doc} : doc \in docs}

MCRulesAt ==
  ("rules.json"  :> {{GoodRules}}) @@ ("odd.json" :> Files(OddRules \cup BadRules))
    @@ ("prefix.json" :> Files(PrefixRules)) @@ ("locked.json" :> {{}})
MCPacketsAt ==
  ("packets.json" :> {{PacketsFile(<<Early, Down, Later>>)}}) @@ ("many.json" :> Files(GoodPackets))
    @@ ("odd.json" :> Files(BadPackets \cup {Oversized, Timeless}))

\* The pipeline is given what these files hold, and nothing else.
MCRuleSets == AcceptedRuleSets
MCPackets  == AcceptedPackets
MCLimits   == {DefaultLimits}

Arguments ==
  {<<"--help">>, <<"--list-scenarios">>, <<"stray">>, <<"--rules">>,
   <<"--scenario", "overload">>, <<"--scenario", "nowhere">>, <<"--rules", "">>,
   <<"--rules", "rules.json">>, <<"--rules", "odd.json">>, <<"--rules", "locked.json">>,
   <<"--packets", "packets.json">>, <<"--packets", "odd.json">>, <<"--packets", "--help">>,
   <<"--output", "json">>, <<"--output", "xml">>}

FromFiles(rulesPath, packetsPath) == <<"--rules", rulesPath, "--packets", packetsPath>>
MCArgvs ==
  {<<>>} \cup Arguments \cup {a \o b : a, b \in Arguments} \cup {a \o b \o c : a, b, c \in Arguments}
    \cup {FromFiles("rules.json", "many.json"), FromFiles("prefix.json", "packets.json")}

\* Files that are accepted and not run as they read.
MCOddArgvs == {FromFiles("odd.json", "packets.json"), FromFiles("rules.json", "odd.json")}
=============================================================================
