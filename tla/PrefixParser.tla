----------------------------- MODULE PrefixParser -----------------------------
(***************************************************************************)
(* Prefixes as the code reads and compares them, byte by byte              *)
(* (src/domain/address.cpp): the text, the loop over its host bits, and    *)
(* the comparison of whole bytes and of the rest under a mask.             *)
(*                                                                         *)
(* A text is what the two library calls find in it: inet_pton an address,  *)
(* or none, before the slash; strtol a number, or none, and then the end   *)
(* of the text or something else.                                          *)
(***************************************************************************)
EXTENDS Address, UpfTypes

CONSTANT ByteBits   \* 8 in the code

ASSUME ByteBitsAssumption ==
  ByteBits \in Nat \ {0} /\ \A f \in AddressFamily : Width[f] % ByteBits = 0

\* 1 << n
PowerOfTwo[n \in 0 .. ByteBits] == IF n = 0 THEN 1 ELSE 2 * PowerOfTwo[n - 1]

\* bytes()[k]: the bits of a byte, the first one highest.
Byte(address, k) ==
  LET weight[b \in 0 .. ByteBits] ==
        IF b = 0 THEN 0 ELSE 2 * weight[b - 1] + address.bits[k * ByteBits + b]
  IN  weight[ByteBits]

\* strtol answers 0 where it finds no number, and leaves its end there.
LengthOf(text) == IF text.number = {} THEN 0 ELSE Value(text.number)

Readable(text) ==
  /\ text.slash /\ HasValue(text.address)
  /\ text.rest = "" /\ LengthOf(text) \in 0 .. Width[Value(text.address).family]

\* bytes[bit / 8] & (0x80 >> bit % 8)
BitSet(address, bit) ==
  (Byte(address, bit \div ByteBits) \div PowerOfTwo[ByteBits - 1 - (bit % ByteBits)]) % 2 # 0

\* Mutant: the loop stops before the last bit.
HasHostBitsShort(address, length) ==
  \E bit \in length .. Width[address.family] - 2 : BitSet(address, bit)

HasHostBits(address, length) ==
  \E bit \in length .. Width[address.family] - 1 : BitSet(address, bit)

\* IpPrefix::parse, Optional.
ParsePrefix(text) ==
  IF Readable(text) /\ ~ HasHostBits(Value(text.address), LengthOf(text))
  THEN {[network |-> Value(text.address), length |-> LengthOf(text)]} ELSE {}

\* Mutant: the mask keeps the low bits of the byte.
ContainsLow(prefix, address) ==
  LET whole == prefix.length \div ByteBits
      rest  == prefix.length % ByteBits
  IN  /\ prefix.network.family = address.family
      /\ \A k \in 0 .. whole - 1 : Byte(prefix.network, k) = Byte(address, k)
      /\ rest # 0 =>
           Byte(prefix.network, whole) % PowerOfTwo[rest] = Byte(address, whole) % PowerOfTwo[rest]

\* IpPrefix::contains: memcmp of the whole bytes, 0xFF << (8 - rest) for the
\* byte the length ends in, and no byte after the last one is read.
Contains(prefix, address) ==
  LET whole == prefix.length \div ByteBits
      rest  == prefix.length % ByteBits
      Masked(byte) == byte - (byte % PowerOfTwo[ByteBits - rest])
  IN  /\ prefix.network.family = address.family
      /\ \A k \in 0 .. whole - 1 : Byte(prefix.network, k) = Byte(address, k)
      /\ rest # 0 => Masked(Byte(prefix.network, whole)) = Masked(Byte(address, whole))
=============================================================================
