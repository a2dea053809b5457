-------------------------- MODULE BoundedEventSink --------------------------
(***************************************************************************)
(* BoundedEventSink (include/upf/ports/event_sink.hpp,                     *)
(* src/adapters/bounded_event_sink.cpp).  The pipeline does not hold one:  *)
(* it keeps events_ and droppedEvents_ of its own, and is shown to keep    *)
(* them the way this port promises (PacketPipeline, EventsAreASink).       *)
(***************************************************************************)
EXTENDS Sequences, Naturals

CONSTANTS Events, SizeMax   \* what is emitted; the largest std::size_t

VARIABLES capacity, kept, dropped   \* capacity_, events_, dropped_

vars == <<capacity, kept, dropped>>

Init == capacity \in Nat /\ kept = <<>> /\ dropped = 0

Keep(event) ==
  /\ Len(kept) < capacity
  /\ kept' = Append(kept, event)
  /\ UNCHANGED <<capacity, dropped>>

Drop ==
  /\ Len(kept) >= capacity
  /\ dropped' = IF dropped # SizeMax THEN dropped + 1 ELSE dropped
  /\ UNCHANGED <<capacity, kept>>

Next == Drop \/ \E event \in Events : Keep(event)

Spec == Init /\ [][Next]_vars
=============================================================================
