------------------------------- MODULE Address -------------------------------
(***************************************************************************)
(* Addresses, prefixes and port ranges (include/upf/domain/address.hpp,    *)
(* src/domain/address.cpp).                                                *)
(*                                                                         *)
(* An address is its family and its bits, most significant bit first, as   *)
(* inet_pton leaves them in bytes_.  Width gives the number of bits of     *)
(* each family (32 and 128 in the code).                                   *)
(***************************************************************************)
EXTENDS Integers

CONSTANT Width

AddressFamily == {"IPV4", "IPV6"}

ASSUME WidthAssumption == Width \in [AddressFamily -> Nat]

IpAddress ==
  UNION {[family : {f}, bits : [1 .. Width[f] -> {0, 1}]] : f \in AddressFamily}

\* What IpPrefix::parse accepts: a length that fits the family, and no host
\* bit set after it.
IpPrefix ==
  {prefix \in UNION {[network : {a}, length : 0 .. Width[a.family]] : a \in IpAddress} :
     \A i \in (prefix.length + 1) .. Width[prefix.network.family] :
       prefix.network.bits[i] = 0}

\* IpPrefix::contains: the whole bytes by memcmp and the rest under a mask
\* compare the first length_ bits.
PrefixContains(prefix, address) ==
  /\ prefix.network.family = address.family
  /\ \A i \in 1 .. prefix.length : prefix.network.bits[i] = address.bits[i]

PortRangeValid(range)          == range.first <= range.last
PortRangeContains(range, port) ==
  PortRangeValid(range) /\ port >= range.first /\ port <= range.last
=============================================================================
