------------------------- MODULE InMemoryPacketSink -------------------------
(***************************************************************************)
(* InMemoryPacketSink (include/upf/ports/packet_sink.hpp,                  *)
(* src/adapters/in_memory_packet_sink.cpp): accept keeps a packet while    *)
(* there is space and refuses it, changing nothing, when there is none.    *)
(* The two sinks of the pipeline are shown to be such sinks.               *)
(***************************************************************************)
EXTENDS Sequences, Naturals

CONSTANT Packets   \* the packets accept is called with

VARIABLES capacity, packets   \* capacity_, packets_

vars == <<capacity, packets>>

Init == capacity \in Nat /\ packets = <<>>

Accept(packet) ==
  /\ Len(packets) < capacity
  /\ packets' = Append(packets, packet)
  /\ UNCHANGED capacity

Next == \E packet \in Packets : Accept(packet)

Spec == Init /\ [][Next]_vars
=============================================================================
