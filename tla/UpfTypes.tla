------------------------------ MODULE UpfTypes ------------------------------
(***************************************************************************)
(* The value types every other module uses (include/upf/domain/types.hpp,  *)
(* packet.hpp, decision.hpp).                                              *)
(*                                                                         *)
(* Optional<T> is a set with at most one element: {} has no value, {v}     *)
(* holds v.  operator== of Optional is then equality of sets.              *)
(***************************************************************************)
EXTENDS Integers

CONSTANT UInt64Max   \* std::numeric_limits<std::uint64_t>::max()

ASSUME UInt64MaxAssumption == UInt64Max \in Nat \ {0}

UInt64 == 0 .. UInt64Max

Optional(T) == {{}} \cup {{v} : v \in T}
HasValue(o) == o # {}
Value(o)    == CHOOSE v \in o : TRUE
AtMostOne(o) == \A v, w \in o : v = w

(***************************************************************************)
(* checkedAdd and checkedMultiply return false, and leave their output     *)
(* alone, exactly in these cases.                                          *)
(***************************************************************************)
AddOverflows(a, b)      == b > UInt64Max - a
MultiplyOverflows(a, b) == a # 0 /\ b > UInt64Max \div a

Interface       == {"N3", "N6"}
GateStatus      == {"OPEN", "CLOSED"}
FarAction       == {"FORWARD", "DROP"}
TunnelOperation == {"TUNNEL_NONE", "ADD", "REMOVE"}

TerminalResult ==
  {"FORWARDED_TO_N3", "FORWARDED_TO_N6", "FAR_DROPPED", "NO_MATCH",
   "MALFORMED_PACKET", "GATE_CLOSED", "RATE_LIMITED", "PACKET_QUEUE_FULL",
   "SHUTDOWN_DEADLINE", "ARITHMETIC_ERROR", "CAPACITY_ERROR"}

MaxQfi == 63

\* TunnelMetadata::valid
TunnelValid(tunnel) == tunnel.teid # 0 /\ tunnel.qfi \in 1 .. MaxQfi
=============================================================================
