----------------------------- MODULE MCMatchLoop -----------------------------
(***************************************************************************)
(* Rulesets of two PDRs that differ in any criterion, and the packets that *)
(* tell the criteria apart.  Addresses have two bits; all PDRs share one   *)
(* FAR per direction.                                                      *)
(***************************************************************************)
EXTENDS MatchLoop

MCWidth == [IPV4 |-> 2, IPV6 |-> 1]

V4(a, b) == [family |-> "IPV4", bits |-> <<a, b>>]
V6(a)    == [family |-> "IPV6", bits |-> <<a>>]

Prefix(network, length) == [network |-> network, length |-> length]
Prefixes == {Prefix(V4(0, 0), 0), Prefix(V4(1, 0), 1), Prefix(V4(1, 1), 2), Prefix(V6(0), 0)}

Ports(first, last) == [first |-> first, last |-> last]

Sides == {[interface |-> "N3", teid |-> {1}, qfi |-> {}],
          [interface |-> "N3", teid |-> {1}, qfi |-> {5}],
          [interface |-> "N3", teid |-> {2}, qfi |-> {}],
          [interface |-> "N6", teid |-> {},  qfi |-> {}]}

MCPdr(id, precedence, side, prefix, protocol, localPorts, remotePorts) ==
  [id |-> id, precedence |-> precedence, sourceInterface |-> side.interface, teid |-> side.teid,
   uePrefix |-> prefix, protocol |-> protocol, localPorts |-> localPorts,
   remotePorts |-> remotePorts, qfi |-> side.qfi,
   farId |-> IF side.interface = "N3" THEN 1 ELSE 2, qerId |-> {}, urrId |-> {}]

Firsts ==
  {MCPdr(1, 1, side, prefix, protocol, ports, {}) :
     side \in Sides, prefix \in Prefixes, protocol \in {{}, {17}},
     ports \in {{}, {Ports(1, 2)}, {Ports(2, 1)}}}
Seconds ==
  {MCPdr(2, precedence, side, prefix, {17}, ports, remote) :
     precedence \in 0 .. 2, side \in Sides, prefix \in Prefixes,
     ports \in {{}, {Ports(2, 3)}, {Ports(3, 3)}}, remote \in {{}, {Ports(2, 2)}}}

ToN6 == [id |-> 1, action |-> "FORWARD", destination |-> {"N6"}, operation |-> "REMOVE", tunnel |-> {}]
ToN3 == [id |-> 2, action |-> "FORWARD", destination |-> {"N3"}, operation |-> "ADD",
         tunnel |-> {[teid |-> 7, qfi |-> 5]}]

MCRuleSets ==
  {[sessionId |-> "s1", version |-> 1, pdrs |-> <<a, b>>, fars |-> <<ToN6, ToN3>>,
    qers |-> <<>>, urrs |-> <<>>] : a \in Firsts, b \in Seconds}

\* The UE has this address and port, the network side the other.
MCPacket(ingress, qfi, ue, peer, port) ==
  [packetId |-> "p", sessionId |-> "s1", ingress |-> ingress,
   tunnel |-> IF ingress = "N3" THEN {[teid |-> 1, qfi |-> qfi]} ELSE {},
   sourceIp |-> IF ingress = "N3" THEN ue ELSE peer,
   destinationIp |-> IF ingress = "N3" THEN peer ELSE ue,
   protocol |-> 17,
   sourcePort |-> IF ingress = "N3" THEN port ELSE 2,
   destinationPort |-> IF ingress = "N3" THEN 2 ELSE port,
   payloadBytes |-> 1, arrivalTimeMicros |-> 0]

MCPackets ==
  {MCPacket(ingress, qfi, ue, V4(0, 0), port) :
     ingress \in Interface, qfi \in {5, 6}, ue \in {V4(0, 1), V4(1, 1)}, port \in {2, 3}}
  \cup {MCPacket("N3", 5, V6(1), V6(0), 2)}
=============================================================================
