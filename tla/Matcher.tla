------------------------------- MODULE Matcher -------------------------------
(***************************************************************************)
(* PDR matching (src/domain/matcher.cpp) and the choice of the winning PDR *)
(* (src/application/packet_pipeline.cpp, the candidate loop of process).   *)
(***************************************************************************)
EXTENDS Rules

\* What the declared types of Packet say: its fields, and integers.
WellTypedPacket(p) ==
  /\ p \in [packetId : {p.packetId}, sessionId : {p.sessionId}, ingress : Interface,
            tunnel : {p.tunnel}, sourceIp : {p.sourceIp}, destinationIp : {p.destinationIp},
            protocol : {p.protocol}, sourcePort : Nat, destinationPort : Nat,
            payloadBytes : UInt64, arrivalTimeMicros : UInt64]
  /\ AtMostOne(p.tunnel)

\* The UE side of a packet: its source on N3, its destination on N6.
UeAddress(packet) ==
  IF packet.ingress = "N3" THEN packet.sourceIp ELSE packet.destinationIp
LocalPort(packet) ==
  IF packet.ingress = "N3" THEN packet.sourcePort ELSE packet.destinationPort
RemotePort(packet) ==
  IF packet.ingress = "N3" THEN packet.destinationPort ELSE packet.sourcePort

\* The criteria of a candidate; one the PDR does not configure is satisfied.
Criteria(pdr, packet) ==
  [ingress    |-> pdr.sourceInterface = packet.ingress,
   tunnel     |-> \A t \in pdr.teid : \E tunnel \in packet.tunnel : tunnel.teid = t,
   prefix     |-> PrefixContains(pdr.uePrefix, UeAddress(packet)),
   protocol   |-> \A p \in pdr.protocol : p = packet.protocol,
   localPort  |-> \A r \in pdr.localPorts : PortRangeContains(r, LocalPort(packet)),
   remotePort |-> \A r \in pdr.remotePorts : PortRangeContains(r, RemotePort(packet)),
   qfi        |-> \A q \in pdr.qfi : \E tunnel \in packet.tunnel : tunnel.qfi = q]

\* evaluateCandidate(...).matched
Matches(pdr, packet) ==
  LET c == Criteria(pdr, packet)
  IN  /\ c.ingress /\ c.tunnel /\ c.prefix /\ c.protocol
      /\ c.localPort /\ c.remotePort /\ c.qfi

\* The candidates of a decision, by PDR id: the code's vector is sorted by
\* id, so it is this function.
Candidates(rules, packet) ==
  [id \in {rules.pdrs[i].id : i \in DOMAIN rules.pdrs} |->
     \A pdr \in FindRule(rules.pdrs, id) : Matches(pdr, packet)]

\* The loop keeps the first matching PDR until one of strictly lower
\* precedence comes.
Winner(rules, packet) ==
  {rules.pdrs[i] : i \in
     {k \in DOMAIN rules.pdrs :
        /\ Matches(rules.pdrs[k], packet)
        /\ \A j \in DOMAIN rules.pdrs :
             Matches(rules.pdrs[j], packet) =>
               \/ rules.pdrs[k].precedence < rules.pdrs[j].precedence
               \/ rules.pdrs[k].precedence = rules.pdrs[j].precedence /\ k <= j}}

\* PacketPipeline::validPacket
ValidPacket(packet) ==
  /\ packet.packetId # "" /\ packet.sessionId # ""
  /\ packet.sourceIp.family = packet.destinationIp.family
  /\ IF packet.ingress = "N3"
     THEN \E tunnel \in packet.tunnel : TunnelValid(tunnel)
     ELSE packet.tunnel = {}
=============================================================================
