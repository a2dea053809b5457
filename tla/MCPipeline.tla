----------------------------- MODULE MCPipeline -----------------------------
(***************************************************************************)
(* Small rulesets and packets for PacketPipeline.  One session with an     *)
(* uplink PDR and a downlink PDR, each behind a token bucket and both      *)
(* counted by the same URR; later versions of the ruleset keep, share,     *)
(* renew or drop the QERs and the URR.  Numbers are scaled: an integer has *)
(* the values 0..15, a byte is earned in 8 bit-microseconds.               *)
(***************************************************************************)
EXTENDS PipelineBuckets

MCWidth == [IPV4 |-> 1, IPV6 |-> 1]

V4(bit) == [family |-> "IPV4", bits |-> <<bit>>]
V6(bit) == [family |-> "IPV6", bits |-> <<bit>>]
Any4    == [network |-> V4(0), length |-> 0]
Ue4     == [network |-> V4(1), length |-> 1]

Tunnel(teid, qfi) == [teid |-> teid, qfi |-> qfi]

MCPdr(id, precedence, interface, teid, farId, qerId, urrId) ==
  [id |-> id, precedence |-> precedence, sourceInterface |-> interface, teid |-> teid,
   uePrefix |-> Ue4, protocol |-> {}, localPorts |-> {}, remotePorts |-> {}, qfi |-> {},
   farId |-> farId, qerId |-> qerId, urrId |-> urrId]

ToN6  == [id |-> 1, action |-> "FORWARD", destination |-> {"N6"}, operation |-> "REMOVE", tunnel |-> {}]
ToN3  == [id |-> 2, action |-> "FORWARD", destination |-> {"N3"}, operation |-> "ADD", tunnel |-> {Tunnel(7, 5)}]
ADrop == [id |-> 1, action |-> "DROP", destination |-> {}, operation |-> "TUNNEL_NONE", tunnel |-> {}]

MCQer(gate, rate, burst, generation) ==
  [id |-> 1, gate |-> gate, rateBitsPerSecond |-> rate, burstBytes |-> burst, generation |-> generation]
MCUrr(threshold, generation) ==
  [id |-> 1, volumeThresholdBytes |-> threshold, generation |-> generation]

MCRules(version, fars, qers, urrs, qerId, downQerId, urrId) ==
  [sessionId |-> "s1", version |-> version,
   pdrs |-> <<MCPdr(1, 2, "N3", {1}, 1, qerId, urrId), MCPdr(2, 1, "N6", {}, 2, downQerId, urrId)>>,
   fars |-> fars, qers |-> qers, urrs |-> urrs]

\* A bucket that the downlink packets do not empty.
DownQer == [MCQer("OPEN", 0, 15, 1) EXCEPT !.id = 2]

\* The first version; one that drops uplink packets, has a lower rate, and
\* puts both directions behind one QER; one that renews the QER, with its
\* gate closed, and has no URR.
Rules1 == MCRules(1, <<ToN6, ToN3>>, <<MCQer("OPEN", 4, 3, 1), DownQer>>, <<MCUrr(4, 1)>>, {1}, {2}, {1})
Rules2 == MCRules(2, <<ADrop, ToN3>>, <<DownQer, MCQer("OPEN", 2, 3, 1)>>, <<MCUrr(4, 1)>>, {1}, {1}, {1})
Rules3 == MCRules(3, <<ToN6, ToN3>>, <<MCQer("CLOSED", 4, 9, 2)>>, <<>>, {1}, {}, {})
\* No QER; a renewed URR.
Rules4 == MCRules(4, <<ToN6, ToN3>>, <<>>, <<MCUrr(6, 2)>>, {}, {}, {1})
\* Refused: its uplink PDR has a FAR that adds a tunnel.
Misfit == MCRules(5, <<[ToN3 EXCEPT !.id = 1], ToN3>>, <<>>, <<MCUrr(4, 1)>>, {}, {}, {1})

MCRuleSets == {Rules1, Rules2, Rules3, Rules4, Misfit}

\* The burst is lowered to zero under the same generation.
ZeroBurst      == MCRules(2, <<ToN6, ToN3>>, <<MCQer("OPEN", 4, 0, 1)>>, <<MCUrr(4, 1)>>, {1}, {}, {1})
MCZeroRuleSets == {Rules1, ZeroBurst}
\* The URR leaves the ruleset and comes back with the generation it had.
MCReturningRuleSets == {Rules1, Rules3}

MCPacket(id, session, ingress, tunnel, from, to, bytes, time) ==
  [packetId |-> id, sessionId |-> session, ingress |-> ingress, tunnel |-> tunnel,
   sourceIp |-> from, destinationIp |-> to, protocol |-> 17, sourcePort |-> 1,
   destinationPort |-> 2, payloadBytes |-> bytes, arrivalTimeMicros |-> time]

Uplink(id, bytes, time) == MCPacket(id, "s1", "N3", {Tunnel(1, 5)}, V4(1), V4(0), bytes, time)
Downlink(id, bytes)     == MCPacket(id, "s1", "N6", {}, V4(0), V4(1), bytes, 0)

\* A small uplink packet at two times (and so also out of order), one that
\* overflows the refill, two downlink ones, one to an unknown UE, one that
\* lacks its tunnel.
MCPackets ==
  {Uplink("early", 2, 1), Uplink("late", 2, 3), Uplink("distant", 1, 9),
   Downlink("down", 3), Downlink("huge", 11),
   MCPacket("stranger", "s1", "N6", {}, V4(0), V4(0), 1, 0),
   MCPacket("bare", "s1", "N3", {}, V4(1), V4(0), 1, 0)}

\* Events run out before results, and reports and sinks may; nothing fits.
MCTight   == [results |-> 3, reports |-> 1, events |-> 2, sinkPackets |-> 2]
MCNoSpace == [results |-> 2, reports |-> 0, events |-> 0, sinkPackets |-> 0]
MCLimits  == {MCTight, MCNoSpace}

MCManyReports == {[results |-> 4, reports |-> 4, events |-> 2, sinkPackets |-> 4]}
=============================================================================
