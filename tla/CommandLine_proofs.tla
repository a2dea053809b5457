------------------------ MODULE CommandLine_proofs ------------------------
(***************************************************************************)
(* Proofs about the executable and its runs from files, for all arguments, *)
(* files and sizes of the integers: what a run that fails leaves, what     *)
(* the exit status promises, that the output is what happened, and that    *)
(* prefixes read and compared byte by byte are prefixes of bits.           *)
(***************************************************************************)
EXTENDS CommandLine, PacketPipeline_proofs, WellFoundedInduction

-----------------------------------------------------------------------------
(* The statuses of the fields and items.                                   *)

\* A set of naturals that has a member has a least one.
LEMMA LeastMember ==
  ASSUME NEW S \in SUBSET Nat, S # {}
  PROVE  Min(S) \in S /\ \A y \in S : Min(S) <= y
PROOF
  <1> DEFINE R == {ss \in Nat \X Nat : ss[1] < ss[2]}
  <1>1. IsWellFoundedOn(R, Nat)
    BY NatLessThanWellFounded DEF OpToRel
  <1>2. \A x, y \in Nat : x < y => <<x, y>> \in R
    OBVIOUS
  <1> HIDE DEF R
  <1>3. PICK x \in S : \A y \in S : ~ (<<y, x>> \in R)
    BY <1>1, WFMin
  <1>4. ASSUME NEW y \in S PROVE x <= y
    <2>1. x \in Nat /\ y \in Nat /\ ~ (<<y, x>> \in R)
      BY <1>3
    <2>2. ~ (y < x)
      BY <1>2, <2>1
    <2> QED BY <2>1, <2>2
  <1> QED BY <1>4 DEF Min

\* First answers OK only when every status is OK.
LEMMA AllAreOk ==
  ASSUME NEW s, IsSeq(s), First(s) = "OK", NEW k \in DOMAIN s
  PROVE  s[k] = "OK"
PROOF
  <1> DEFINE failing == {j \in DOMAIN s : s[j] # "OK"}
  <1>1. CASE failing = {}
    BY <1>1
  <1>2. CASE failing # {}
    <2>1. failing \subseteq Nat
      BY DEF IsSeq
    <2>2. Min(failing) \in failing
      BY <1>2, <2>1, LeastMember
    <2>3. First(s) = s[Min(failing)]
      BY <1>2 DEF First
    <2> QED BY <2>2, <2>3
  <1> QED BY <1>1, <1>2

\* Statuses one after the other are all OK only if both parts are.
LEMMA BothAreOk ==
  ASSUME NEW s, NEW t, IsSeq(s), IsSeq(t)
  PROVE  /\ IsSeq(s \o t)
         /\ (\A k \in DOMAIN (s \o t) : (s \o t)[k] = "OK") =>
              /\ \A k \in DOMAIN s : s[k] = "OK"
              /\ \A k \in DOMAIN t : t[k] = "OK"
PROOF
  <1> DEFINE S == {s[k] : k \in DOMAIN s} \cup {t[k] : k \in DOMAIN t}
             c == s \o t
  <1>1. /\ Len(s) \in Nat /\ DOMAIN s = 1 .. Len(s)
        /\ Len(t) \in Nat /\ DOMAIN t = 1 .. Len(t)
    BY DEF IsSeq
  <1>2. s \in [1 .. Len(s) -> S] /\ t \in [1 .. Len(t) -> S]
    BY <1>1 DEF IsSeq
  <1>3. s \in Seq(S) /\ t \in Seq(S)
    BY <1>1, <1>2, SeqDef
  <1> HIDE DEF S
  <1>4. /\ c \in Seq(S) /\ Len(c) = Len(s) + Len(t)
        /\ \A k \in 1 .. Len(s) + Len(t) : c[k] = IF k <= Len(s) THEN s[k] ELSE t[k - Len(s)]
    BY <1>3, ConcatProperties
  <1> HIDE DEF c
  <1>5. DOMAIN c = 1 .. Len(s) + Len(t) /\ Len(c) \in Nat /\ c \in [1 .. Len(c) -> S]
    BY <1>1, <1>4
  <1>6. IsSeq(c)
    <2>1. c \in [1 .. Len(c) -> {c[k] : k \in DOMAIN c}]
      BY <1>4, <1>5
    <2>2. {c[k] : k \in DOMAIN c} = {c[k] : k \in DOMAIN c} /\ Len(c) \in Nat
      BY <1>5
    <2>3. c \in Seq({c[k] : k \in DOMAIN c})
      BY <2>1, <2>2, SeqDef
    <2> QED BY <2>3 DEF IsSeq
  <1>7. ASSUME \A k \in DOMAIN c : c[k] = "OK"
        PROVE  (\A k \in DOMAIN s : s[k] = "OK") /\ (\A k \in DOMAIN t : t[k] = "OK")
    <2>1. ASSUME NEW k \in DOMAIN s PROVE s[k] = "OK"
      <3>1. k \in 1 .. Len(s) + Len(t) /\ k <= Len(s)
        BY <1>1
      <3> QED BY <1>4, <1>5, <1>7, <3>1
    <2>2. ASSUME NEW k \in DOMAIN t PROVE t[k] = "OK"
      <3>1. k + Len(s) \in 1 .. Len(s) + Len(t) /\ ~ (k + Len(s) <= Len(s)) /\ (k + Len(s)) - Len(s) = k
        BY <1>1
      <3> QED BY <1>4, <1>5, <1>7, <3>1
    <2> QED BY <2>1, <2>2
  <1> QED BY <1>6, <1>7 DEF c

\* The statuses of the items of a list are a sequence, and not all OK where
\* there is no list.
LEMMA EachItem ==
  ASSUME NEW items, items \in {Missing, Mistyped} \/ IsVector(items),
         NEW s, s = IF items \in {Missing, Mistyped} THEN <<"FAILED">>
                    ELSE [k \in DOMAIN items |-> s[k]]
  PROVE  /\ IsSeq(s)
         /\ (\A k \in DOMAIN s : s[k] = "OK") =>
              /\ IsVector(items) /\ items \notin {Missing, Mistyped}
              /\ DOMAIN s = DOMAIN items
PROOF
  <1>1. CASE items \in {Missing, Mistyped}
    <2>1. s = <<"FAILED">>
      BY <1>1
    <2> QED BY <1>1, <2>1 DEF IsSeq
  <1>2. CASE items \notin {Missing, Mistyped}
    <2>1. IsVector(items) /\ s = [k \in DOMAIN items |-> s[k]]
      BY <1>2
    <2>2. Len(items) \in Nat /\ s \in [1 .. Len(items) -> {s[k] : k \in DOMAIN s}]
      BY <2>1 DEF IsVector
    <2>3. IsSeq(s)
      BY <2>2, SeqDef DEF IsSeq
    <2> QED BY <1>2, <2>1, <2>3
  <1> QED BY <1>1, <1>2

\* A list of statuses written out is a sequence.
LEMMA Written ==
  /\ \A a, b : IsSeq(<<a, b>>)
  /\ \A a, b, c : IsSeq(<<a, b, c>>)
  /\ \A a, b, c, d : IsSeq(<<a, b, c, d>>)
  /\ \A a, b, c, d, e : IsSeq(<<a, b, c, d, e>>)
  /\ \A a, b, c, d, e, f, g, h, i1, j, l : IsSeq(<<a, b, c, d, e, f, g, h, i1, j, l>>)
PROOF
  BY DEF IsSeq

-----------------------------------------------------------------------------
(* What is parsed.                                                         *)

\* A number that is converted to an unsigned integer is in its range.
LEMMA NumberInRange ==
  ASSUME NEW raw \in Int, NEW width \in {8, 16, 32, 64}
  PROVE  Number(raw, width) \in UInt64 /\ Number(raw, width) \in Nat
PROOF
  <1>1. Modulus[width] \in Nat \ {0} /\ Modulus[width] <= UInt64Max + 1
    BY ModulusAssumption
  <1>2. raw % Modulus[width] \in 0 .. Modulus[width] - 1
    BY <1>1
  <1> QED BY <1>1, <1>2, UInt64MaxAssumption DEF Number, UInt64

\* A needed number that is OK is one; so are the two of a pair.
LEMMA NeededNumber ==
  ASSUME NEW raw, IsNumber(raw), Need(raw) = "OK"
  PROVE  raw \in Int
PROOF
  BY DEF IsNumber, Need

LEMMA ReadPair ==
  ASSUME NEW raw, IsPair(raw), MayPair(raw) = "OK", raw # Missing
  PROVE  raw[1] \in Int /\ raw[2] \in Int
PROOF
  BY DEF IsPair, IsNumber, MayPair

\* A port range of a document is without a value or has two ports.
LEMMA PortsRead ==
  ASSUME NEW raw, IsPair(raw), MayPair(raw) = "OK"
  PROVE  \A r \in OptionalOf(raw, PortsOf) : r.first \in Nat /\ r.last \in Nat
PROOF
  <1>1. CASE raw = Missing
    BY <1>1 DEF OptionalOf
  <1>2. CASE raw # Missing
    <2>1. Number(raw[1], 16) \in Nat /\ Number(raw[2], 16) \in Nat
      BY <1>2, ReadPair, NumberInRange
    <2> QED BY <2>1 DEF OptionalOf, PortsOf
  <1> QED BY <1>1, <1>2

\* A prefix that parses has a length.
LEMMA PrefixRead ==
  ASSUME NEW raw, IsText(raw), PrefixStatus(raw) = "OK"
  PROVE  Value(ParsePrefix(raw)).length \in Nat
PROOF
  <1>1. ParsePrefix(raw) # {}
    BY DEF PrefixStatus
  <1>2. /\ ParsePrefix(raw) = {[network |-> Value(raw.address), length |-> LengthOf(raw)]}
        /\ Readable(raw)
    BY <1>1 DEF ParsePrefix
  <1>3. Value(ParsePrefix(raw)) = [network |-> Value(raw.address), length |-> LengthOf(raw)]
    BY <1>2 DEF Value
  <1>4. LengthOf(raw) \in Nat
    <2>1. raw.address \subseteq IpAddress /\ raw.address # {}
      BY <1>2 DEF PrefixStatus, IsText, Readable, HasValue
    <2>2. Value(raw.address) \in IpAddress
      BY <2>1 DEF Value
    <2>3. Width[Value(raw.address).family] \in Nat
      BY <2>2, WidthAssumption DEF IpAddress
    <2>4. LengthOf(raw) \in 0 .. Width[Value(raw.address).family]
      BY <1>2 DEF Readable
    <2> DEFINE w == Width[Value(raw.address).family]
    <2> HIDE DEF w
    <2>5. w \in Nat /\ LengthOf(raw) \in 0 .. w
      BY <2>3, <2>4 DEF w
    <2> QED BY <2>5
  <1> QED BY <1>3, <1>4

\* An item of pdrs that is OK becomes a PDR of the declared types.
LEMMA PdrRead ==
  ASSUME NEW item, IsPdrItem(item), PdrStatus(item) = "OK"
  PROVE  WellTypedPdr(PdrOf(item))
PROOF
  <1> DEFINE s == <<Need(item.id), Need(item.precedence), Present(item.sourceInterface),
                    May(item.teid), PrefixStatus(item.uePrefix), MayPair(item.localPorts),
                    MayPair(item.remotePorts), May(item.qfi), Need(item.farId), May(item.qerId),
                    May(item.urrId)>>
  <1>1. \A k \in DOMAIN s : s[k] = "OK"
    <2>1. IsSeq(s) /\ First(s) = "OK"
      BY Written DEF PdrStatus
    <2> HIDE DEF s
    <2> QED BY <2>1, AllAreOk
  <1>2. DOMAIN s = 1 .. 11
    OBVIOUS
  <1>3. s[2] = "OK" /\ s[5] = "OK" /\ s[6] = "OK" /\ s[7] = "OK"
    <2> HIDE DEF s
    <2> QED BY <1>1, <1>2
  <1>4. /\ Need(item.precedence) = "OK" /\ PrefixStatus(item.uePrefix) = "OK"
        /\ MayPair(item.localPorts) = "OK" /\ MayPair(item.remotePorts) = "OK"
    BY <1>3
  <1>5. Number(item.precedence, 32) \in Nat
    BY <1>4, NeededNumber, NumberInRange DEF IsPdrItem
  <1>6. /\ \A r \in OptionalOf(item.localPorts, PortsOf) : r.first \in Nat /\ r.last \in Nat
        /\ \A r \in OptionalOf(item.remotePorts, PortsOf) : r.first \in Nat /\ r.last \in Nat
    BY <1>4, PortsRead DEF IsPdrItem
  <1>7. AtMostOne(ProtocolOf(item.protocol))
    BY DEF ProtocolOf, AtMostOne
  <1>8. \A raw : AtMostOne(OptionalNumber(raw, 8)) /\ AtMostOne(OptionalNumber(raw, 32))
    BY DEF OptionalNumber, AtMostOne
  <1> DEFINE local == OptionalOf(item.localPorts, PortsOf)
             remote == OptionalOf(item.remotePorts, PortsOf)
             prefix == Value(ParsePrefix(item.uePrefix))
  <1>9. prefix.length \in Nat
    BY <1>4, PrefixRead DEF IsPdrItem
  <1>10. /\ PdrOf(item).precedence = Number(item.precedence, 32) /\ PdrOf(item).uePrefix = prefix
         /\ PdrOf(item).teid = OptionalNumber(item.teid, 32)
         /\ PdrOf(item).protocol = ProtocolOf(item.protocol)
         /\ PdrOf(item).qfi = OptionalNumber(item.qfi, 8)
         /\ PdrOf(item).qerId = OptionalNumber(item.qerId, 32)
         /\ PdrOf(item).urrId = OptionalNumber(item.urrId, 32)
         /\ PdrOf(item).localPorts = local /\ PdrOf(item).remotePorts = remote
    BY DEF PdrOf
  <1> HIDE DEF local, remote, prefix
  <1> QED BY <1>5, <1>6, <1>7, <1>8, <1>9, <1>10 DEF WellTypedPdr, local, remote

\* So does an item of fars,
LEMMA FarRead == \A item : WellTypedFar(FarOfItem(item))
PROOF
  <1> SUFFICES ASSUME NEW item PROVE WellTypedFar(FarOfItem(item))
    OBVIOUS
  <1> DEFINE to == OptionalOf(item.destinationInterface, InterfaceOf)
             tunnel == OptionalOf(item.tunnel, TunnelOf)
  <1>1. AtMostOne(to) /\ AtMostOne(tunnel)
    BY DEF OptionalOf, AtMostOne
  <1>2. /\ FarOfItem(item).action \in FarAction
        /\ FarOfItem(item).destination = to /\ FarOfItem(item).tunnel = tunnel
    BY DEF FarOfItem, FarAction
  <1> HIDE DEF to, tunnel
  <1> QED BY <1>1, <1>2 DEF WellTypedFar

\* an item of qers,
LEMMA QerRead ==
  ASSUME NEW item, IsQerItem(item), QerStatus(item) = "OK"
  PROVE  WellTypedQer(QerOf(item))
PROOF
  <1> DEFINE s == <<Need(item.id), Present(item.gate), Need(item.rateBitsPerSecond),
                    Need(item.burstBytes), Need(item.generation)>>
  <1>1. IsSeq(s)
    BY Written
  <1>2. First(s) = "OK" /\ DOMAIN s = 1 .. 5
    BY DEF QerStatus
  <1>3. s[3] = "OK" /\ s[4] = "OK" /\ s[5] = "OK"
    <2> HIDE DEF s
    <2> QED BY <1>1, <1>2, AllAreOk
  <1>4. /\ item.rateBitsPerSecond \in Int /\ item.burstBytes \in Int /\ item.generation \in Int
    BY <1>3, NeededNumber DEF IsQerItem
  <1>5. /\ Number(item.rateBitsPerSecond, 64) \in UInt64 /\ Number(item.burstBytes, 64) \in UInt64
        /\ Number(item.generation, 32) \in UInt64
    BY <1>4, NumberInRange
  <1> QED BY <1>5 DEF QerOf, WellTypedQer, GateStatus

\* and an item of urrs.
LEMMA UrrRead ==
  ASSUME NEW item, IsUrrItem(item), UrrStatus(item) = "OK"
  PROVE  WellTypedUrr(UrrOf(item))
PROOF
  <1> DEFINE s == <<Need(item.id), Need(item.volumeThresholdBytes), Need(item.generation)>>
  <1>1. IsSeq(s)
    BY Written
  <1>2. First(s) = "OK" /\ DOMAIN s = 1 .. 3
    BY DEF UrrStatus
  <1>3. s[2] = "OK" /\ s[3] = "OK"
    <2> HIDE DEF s
    <2> QED BY <1>1, <1>2, AllAreOk
  <1>4. item.volumeThresholdBytes \in Int /\ item.generation \in Int
    BY <1>3, NeededNumber DEF IsUrrItem
  <1>5. Number(item.volumeThresholdBytes, 64) \in UInt64 /\ Number(item.generation, 32) \in UInt64
    BY <1>4, NumberInRange
  <1> QED BY <1>5 DEF UrrOf, WellTypedUrr

\* An item of packets that is OK becomes a packet of the declared types.
LEMMA PacketRead ==
  ASSUME NEW item, IsPacketItem(item), PacketStatus(item) = "OK"
  PROVE  WellTypedPacket(PacketOf(item))
PROOF
  <1> DEFINE s == <<Need(item.packetId), Need(item.sessionId), Present(item.ingress),
                    MayPair(item.tunnel), Need(item.sourceIp), Need(item.destinationIp),
                    IF ProtocolOf(item.protocol) = {} THEN "FAILED" ELSE "OK",
                    Need(item.sourcePort), Need(item.destinationPort), Need(item.payloadBytes),
                    Need(item.arrivalTimeMicros)>>
  <1>1. IsSeq(s)
    BY Written
  <1>2. First(s) = "OK" /\ DOMAIN s = 1 .. 11
    BY DEF PacketStatus
  <1>3. s[8] = "OK" /\ s[9] = "OK" /\ s[10] = "OK" /\ s[11] = "OK"
    <2> HIDE DEF s
    <2> QED BY <1>1, <1>2, AllAreOk
  <1>4. /\ item.sourcePort \in Int /\ item.destinationPort \in Int
        /\ item.payloadBytes \in Int /\ item.arrivalTimeMicros \in Int
    BY <1>3, NeededNumber DEF IsPacketItem
  <1>5. /\ Number(item.sourcePort, 16) \in Nat /\ Number(item.destinationPort, 16) \in Nat
        /\ Number(item.payloadBytes, 32) \in UInt64 /\ Number(item.arrivalTimeMicros, 64) \in UInt64
    BY <1>4, NumberInRange
  <1> DEFINE tunnel == OptionalOf(item.tunnel, TunnelOf)
  <1>6. AtMostOne(tunnel)
    BY DEF OptionalOf, AtMostOne
  <1>7. InterfaceOf(item.ingress) \in Interface
    BY DEF InterfaceOf, Interface
  <1>8. PacketOf(item) =
          [packetId |-> item.packetId, sessionId |-> item.sessionId,
           ingress |-> InterfaceOf(item.ingress), tunnel |-> tunnel,
           sourceIp |-> item.sourceIp, destinationIp |-> item.destinationIp,
           protocol |-> item.protocol,
           sourcePort |-> Number(item.sourcePort, 16),
           destinationPort |-> Number(item.destinationPort, 16),
           payloadBytes |-> Number(item.payloadBytes, 32),
           arrivalTimeMicros |-> Number(item.arrivalTimeMicros, 64)]
    BY DEF PacketOf
  <1> HIDE DEF tunnel
  <1> QED BY <1>5, <1>6, <1>7, <1>8 DEF WellTypedPacket

\* Converting the items of a vector gives a vector.
LEMMA Converted ==
  ASSUME NEW items, IsVector(items), NEW s, s = [k \in DOMAIN items |-> s[k]]
  PROVE  IsVector(s) /\ DOMAIN s = DOMAIN items
PROOF
  BY DEF IsVector

\* A rules file whose fields and items are OK becomes a ruleset of the
\* declared types.
LEMMA RulesRead ==
  ASSUME NEW doc, IsRulesDoc(doc), RulesStatus(doc) = "OK"
  PROVE  WellTypedRuleSet(RuleSetOf(doc))
PROOF
  <1> DEFINE head == <<Need(doc.sessionId), Need(doc.rulesetVersion)>>
             P == Each(doc.pdrs, PdrStatus)
             F == Each(doc.fars, FarStatus)
             Q == Each(doc.qers, QerStatus)
             U == Each(doc.urrs, UrrStatus)
  <1>1. IsSeq(head) /\ DOMAIN head = 1 .. 2
    BY Written
  <1>2. /\ IsSeq(P) /\ ((\A k \in DOMAIN P : P[k] = "OK") =>
             IsVector(doc.pdrs) /\ doc.pdrs \notin {Missing, Mistyped} /\ DOMAIN P = DOMAIN doc.pdrs)
        /\ IsSeq(F) /\ ((\A k \in DOMAIN F : F[k] = "OK") =>
             IsVector(doc.fars) /\ doc.fars \notin {Missing, Mistyped} /\ DOMAIN F = DOMAIN doc.fars)
        /\ IsSeq(Q) /\ ((\A k \in DOMAIN Q : Q[k] = "OK") =>
             IsVector(doc.qers) /\ doc.qers \notin {Missing, Mistyped} /\ DOMAIN Q = DOMAIN doc.qers)
        /\ IsSeq(U) /\ ((\A k \in DOMAIN U : U[k] = "OK") =>
             IsVector(doc.urrs) /\ doc.urrs \notin {Missing, Mistyped} /\ DOMAIN U = DOMAIN doc.urrs)
    <2>1. /\ doc.pdrs \in {Missing, Mistyped} \/ IsVector(doc.pdrs)
          /\ doc.fars \in {Missing, Mistyped} \/ IsVector(doc.fars)
          /\ doc.qers \in {Missing, Mistyped} \/ IsVector(doc.qers)
          /\ doc.urrs \in {Missing, Mistyped} \/ IsVector(doc.urrs)
      BY DEF IsRulesDoc, IsList
    <2>2. /\ P = IF doc.pdrs \in {Missing, Mistyped} THEN <<"FAILED">>
                 ELSE [k \in DOMAIN doc.pdrs |-> P[k]]
          /\ F = IF doc.fars \in {Missing, Mistyped} THEN <<"FAILED">>
                 ELSE [k \in DOMAIN doc.fars |-> F[k]]
          /\ Q = IF doc.qers \in {Missing, Mistyped} THEN <<"FAILED">>
                 ELSE [k \in DOMAIN doc.qers |-> Q[k]]
          /\ U = IF doc.urrs \in {Missing, Mistyped} THEN <<"FAILED">>
                 ELSE [k \in DOMAIN doc.urrs |-> U[k]]
      BY DEF Each
    <2> HIDE DEF P, F, Q, U
    <2> QED BY <2>1, <2>2, EachItem
  <1>3. RulesStatus(doc) = First(head \o P \o F \o Q \o U)
    BY DEF RulesStatus
  <1>4. /\ \A k \in DOMAIN head : head[k] = "OK"
        /\ \A k \in DOMAIN P : P[k] = "OK"
        /\ \A k \in DOMAIN F : F[k] = "OK"
        /\ \A k \in DOMAIN Q : Q[k] = "OK"
        /\ \A k \in DOMAIN U : U[k] = "OK"
    <2> HIDE DEF head, P, F, Q, U
    <2>1. IsSeq(head \o P)
      BY <1>1, <1>2, BothAreOk
    <2>2. IsSeq(head \o P \o F)
      BY <1>2, <2>1, BothAreOk
    <2>3. IsSeq(head \o P \o F \o Q)
      BY <1>2, <2>2, BothAreOk
    <2>4. IsSeq(head \o P \o F \o Q \o U)
      BY <1>2, <2>3, BothAreOk
    <2>5. \A k \in DOMAIN (head \o P \o F \o Q \o U) : (head \o P \o F \o Q \o U)[k] = "OK"
      BY <1>3, <2>4, AllAreOk
    <2>6. /\ \A k \in DOMAIN (head \o P \o F \o Q) : (head \o P \o F \o Q)[k] = "OK"
          /\ \A k \in DOMAIN U : U[k] = "OK"
      BY <1>2, <2>3, <2>5, BothAreOk
    <2>7. /\ \A k \in DOMAIN (head \o P \o F) : (head \o P \o F)[k] = "OK"
          /\ \A k \in DOMAIN Q : Q[k] = "OK"
      BY <1>2, <2>2, <2>6, BothAreOk
    <2>8. /\ \A k \in DOMAIN (head \o P) : (head \o P)[k] = "OK"
          /\ \A k \in DOMAIN F : F[k] = "OK"
      BY <1>2, <2>1, <2>7, BothAreOk
    <2> QED BY <1>1, <1>2, <2>6, <2>7, <2>8, BothAreOk
  <1>5. Number(doc.rulesetVersion, 64) \in UInt64
    <2>1. Need(doc.rulesetVersion) = "OK"
      BY <1>1, <1>4
    <2> QED BY <2>1, NeededNumber, NumberInRange DEF IsRulesDoc
  <1>6. /\ IsVector(doc.pdrs) /\ \A k \in DOMAIN doc.pdrs :
             IsPdrItem(doc.pdrs[k]) /\ PdrStatus(doc.pdrs[k]) = "OK"
        /\ IsVector(doc.fars)
        /\ IsVector(doc.qers) /\ \A k \in DOMAIN doc.qers :
             IsQerItem(doc.qers[k]) /\ QerStatus(doc.qers[k]) = "OK"
        /\ IsVector(doc.urrs) /\ \A k \in DOMAIN doc.urrs :
             IsUrrItem(doc.urrs[k]) /\ UrrStatus(doc.urrs[k]) = "OK"
    <2>1. /\ IsVector(doc.pdrs) /\ doc.pdrs \notin {Missing, Mistyped} /\ DOMAIN P = DOMAIN doc.pdrs
          /\ IsVector(doc.fars)
          /\ IsVector(doc.qers) /\ doc.qers \notin {Missing, Mistyped} /\ DOMAIN Q = DOMAIN doc.qers
          /\ IsVector(doc.urrs) /\ doc.urrs \notin {Missing, Mistyped} /\ DOMAIN U = DOMAIN doc.urrs
      <3> HIDE DEF P, F, Q, U
      <3> QED BY <1>2, <1>4
    <2>2. /\ \A k \in DOMAIN doc.pdrs : IsPdrItem(doc.pdrs[k])
          /\ \A k \in DOMAIN doc.qers : IsQerItem(doc.qers[k])
          /\ \A k \in DOMAIN doc.urrs : IsUrrItem(doc.urrs[k])
      BY <2>1 DEF IsRulesDoc, IsList
    <2>3. /\ \A k \in DOMAIN doc.pdrs : PdrStatus(doc.pdrs[k]) = P[k]
          /\ \A k \in DOMAIN doc.qers : QerStatus(doc.qers[k]) = Q[k]
          /\ \A k \in DOMAIN doc.urrs : UrrStatus(doc.urrs[k]) = U[k]
      BY <2>1 DEF Each
    <2> HIDE DEF P, Q, U
    <2> QED BY <1>4, <2>1, <2>2, <2>3
  <1>7. /\ \A k \in DOMAIN doc.pdrs : WellTypedPdr(PdrOf(doc.pdrs[k]))
        /\ \A k \in DOMAIN doc.fars : WellTypedFar(FarOfItem(doc.fars[k]))
        /\ \A k \in DOMAIN doc.qers : WellTypedQer(QerOf(doc.qers[k]))
        /\ \A k \in DOMAIN doc.urrs : WellTypedUrr(UrrOf(doc.urrs[k]))
    BY <1>6, PdrRead, FarRead, QerRead, UrrRead
  <1> DEFINE rs == RuleSetOf(doc)
  <1>8. /\ rs.version = Number(doc.rulesetVersion, 64)
        /\ rs.pdrs = [k \in DOMAIN doc.pdrs |-> PdrOf(doc.pdrs[k])]
        /\ rs.fars = [k \in DOMAIN doc.fars |-> FarOfItem(doc.fars[k])]
        /\ rs.qers = [k \in DOMAIN doc.qers |-> QerOf(doc.qers[k])]
        /\ rs.urrs = [k \in DOMAIN doc.urrs |-> UrrOf(doc.urrs[k])]
    BY DEF RuleSetOf, Map
  <1> HIDE DEF rs
  <1>9. /\ IsVector(rs.pdrs) /\ DOMAIN rs.pdrs = DOMAIN doc.pdrs
        /\ IsVector(rs.fars) /\ DOMAIN rs.fars = DOMAIN doc.fars
        /\ IsVector(rs.qers) /\ DOMAIN rs.qers = DOMAIN doc.qers
        /\ IsVector(rs.urrs) /\ DOMAIN rs.urrs = DOMAIN doc.urrs
    BY <1>6, <1>8, Converted
  <1>10. WellTypedRuleSet(rs)
    BY <1>5, <1>7, <1>8, <1>9 DEF WellTypedRuleSet
  <1> QED BY <1>10 DEF rs

\* A packets file whose items are OK becomes packets of the declared types.
LEMMA PacketsRead ==
  ASSUME NEW doc, IsPacketsDoc(doc), PacketsStatus(doc) = "OK"
  PROVE  /\ IsVector(doc.packets)
         /\ \A k \in DOMAIN doc.packets : WellTypedPacket(PacketOf(doc.packets[k]))
PROOF
  <1> DEFINE P == Each(doc.packets, PacketStatus)
  <1>1. /\ doc.packets \in {Missing, Mistyped} \/ IsVector(doc.packets)
        /\ P = IF doc.packets \in {Missing, Mistyped} THEN <<"FAILED">>
               ELSE [k \in DOMAIN doc.packets |-> P[k]]
    BY DEF IsPacketsDoc, IsList, Each
  <1>2. /\ IsSeq(P) /\ ((\A k \in DOMAIN P : P[k] = "OK") =>
             /\ IsVector(doc.packets) /\ doc.packets \notin {Missing, Mistyped}
             /\ DOMAIN P = DOMAIN doc.packets)
    <2> HIDE DEF P
    <2> QED BY <1>1, EachItem
  <1>3. First(P) = "OK"
    BY DEF PacketsStatus
  <1>4. \A k \in DOMAIN P : P[k] = "OK"
    <2> HIDE DEF P
    <2> QED BY <1>2, <1>3, AllAreOk
  <1>5. /\ IsVector(doc.packets) /\ doc.packets \notin {Missing, Mistyped}
        /\ DOMAIN P = DOMAIN doc.packets
    <2> HIDE DEF P
    <2> QED BY <1>2, <1>4
  <1>6. \A k \in DOMAIN doc.packets : IsPacketItem(doc.packets[k])
    BY <1>5 DEF IsPacketsDoc, IsList
  <1>7. \A k \in DOMAIN doc.packets : PacketStatus(doc.packets[k]) = P[k]
    BY <1>5 DEF Each
  <1> HIDE DEF P
  <1> QED BY <1>4, <1>5, <1>6, <1>7, PacketRead

-----------------------------------------------------------------------------
(* The result of a run.                                                    *)

IsResult(r) ==
  r = [decisions |-> r.decisions, usageReports |-> r.usageReports, n3Sink |-> r.n3Sink,
       n6Sink |-> r.n6Sink, intendedVersion |-> r.intendedVersion,
       appliedVersion |-> r.appliedVersion, activeVersion |-> r.activeVersion,
       convergence |-> r.convergence, observabilityDegraded |-> r.observabilityDegraded,
       droppedEvents |-> r.droppedEvents]

\* A run keeps to this: until it processes packets it has decided nothing;
\* until install accepts its ruleset there is no ruleset, and from then on it
\* is the one of the file, validated; and it ends as done with as many
\* decisions as the file has packets.
RunInv ==
  /\ pc \in {"idle", "read", "install", "name", "run", "done", "failed", "aborted"}
  /\ pc \in {"idle", "read", "install", "failed"} => rules = {}
  /\ pc \in {"idle", "read", "install", "name", "failed", "aborted"} =>
       result = NewResult /\ decisions = <<>>
  /\ pc \in {"name", "run", "done"} =>
       rules = {RuleSetOf(RulesDoc)} /\ ValidateRuleSet(RuleSetOf(RulesDoc))
  /\ pc = "done" => Len(result.decisions) = Len(PacketsDoc.packets)
  /\ IsResult(result) /\ IsSeq(result.decisions)

\* What it reads are documents found at some path; and from install on, both
\* have been read whole.
FilesInv ==
  /\ rulesFile \subseteq DocumentsAt(RulesAt) /\ packetsFile \subseteq DocumentsAt(PacketsAt)
  /\ pc \in {"install", "name", "run", "done"} =>
       /\ rulesFile # {} /\ packetsFile # {}
       /\ RulesStatus(RulesDoc) = "OK" /\ PacketsStatus(PacketsDoc) = "OK"

\* Before the run there is nothing.
LEMMA InitRunInv == RunInit => RunInv
PROOF
  <1>1. IsResult(NewResult) /\ NewResult.decisions = <<>>
    BY DEF NewResult, IsResult
  <1> QED BY <1>1, EmptyIsSeq DEF RunInit, Constructed, RunInv

\* Every step of runFiles keeps to it.
LEMMA RunKeepsRunInv == RunInv /\ RunNext => RunInv'
PROOF
  <1> SUFFICES ASSUME RunInv, RunNext PROVE RunInv'
    OBVIOUS
  <1>1. CASE Read
    <2>1. pc' \in {"install", "failed", "aborted"}
      BY <1>1 DEF Read, Parsed
    <2> QED BY <1>1, <2>1 DEF Read, RunInv, vars
  <1>2. CASE InstallRules
    <2>1. CASE Install(RuleSetOf(RulesDoc)) /\ pc' = "name"
      BY <1>2, <2>1 DEF InstallRules, Install, RunInv, RulesDoc, PacketsDoc
    <2>2. CASE RefuseInstall(RuleSetOf(RulesDoc)) /\ pc' = "failed"
      BY <1>2, <2>2 DEF InstallRules, RefuseInstall, RunInv
    <2> QED BY <1>2, <2>1, <2>2 DEF InstallRules
  <1>3. CASE NameRun
    BY <1>3 DEF NameRun, RunInv, vars, RulesDoc
  <1>4. CASE ProcessPacket
    <2>1. PICK d : result' = [result EXCEPT !.decisions = Append(result.decisions, d)]
      BY <1>4 DEF ProcessPacket
    <2>2. IsResult(result') /\ result'.decisions = Append(result.decisions, d)
      BY <2>1 DEF RunInv, IsResult
    <2>3. IsSeq(result'.decisions)
      BY <2>2, Appended DEF RunInv
    <2>4. pc = "run" /\ pc' = "run" /\ rules' = rules /\ RulesDoc' = RulesDoc
      BY <1>4 DEF ProcessPacket, RulesDoc
    <2> QED BY <2>2, <2>3, <2>4 DEF RunInv
  <1>5. CASE Finish
    <2>1. IsResult(result') /\ result'.decisions = result.decisions
      BY <1>5 DEF Finish, RunInv, IsResult
    <2>2. Len(result.decisions) = Len(PacketsDoc.packets)
      BY <1>5 DEF Finish, Done
    <2> QED BY <1>5, <2>1, <2>2 DEF Finish, RunInv, vars, RulesDoc, PacketsDoc
  <1> QED BY <1>1, <1>2, <1>3, <1>4, <1>5 DEF RunNext

\* A file found at a path is one of its documents.
LEMMA FoundFiles ==
  ASSUME NEW filesAt, NEW path, NEW file \in Found(filesAt, path)
  PROVE  file \subseteq DocumentsAt(filesAt)
PROOF
  <1>1. CASE path \in DOMAIN filesAt
    BY <1>1 DEF Found, DocumentsAt
  <1>2. CASE path \notin DOMAIN filesAt
    BY <1>2 DEF Found
  <1> QED BY <1>1, <1>2

\* Every step of runFiles reads files to the end before it uses them.
LEMMA RunKeepsFilesInv == FilesInv /\ RunNext => FilesInv'
PROOF
  <1> SUFFICES ASSUME FilesInv, RunNext PROVE FilesInv'
    OBVIOUS
  <1>1. rulesFile' = rulesFile /\ packetsFile' = packetsFile
    BY DEF RunNext, Read, InstallRules, NameRun, ProcessPacket, Finish
  <1>2. RulesDoc' = RulesDoc /\ PacketsDoc' = PacketsDoc
    BY <1>1 DEF RulesDoc, PacketsDoc
  <1>3. CASE Read
    <2>1. ASSUME pc' \in {"install", "name", "run", "done"}
          PROVE  /\ rulesFile # {} /\ packetsFile # {}
                 /\ RulesStatus(RulesDoc) = "OK" /\ PacketsStatus(PacketsDoc) = "OK"
      <3>1. ~ (rulesFile = {} \/ packetsFile = {}) /\ pc' = Parsed
        BY <1>3, <2>1 DEF Read
      <3>2. {RulesStatus(RulesDoc), PacketsStatus(PacketsDoc)} = {"OK"}
        BY <2>1, <3>1 DEF Parsed
      <3> QED BY <3>1, <3>2
    <2> QED BY <1>1, <1>2, <2>1 DEF FilesInv
  <1>4. CASE pc \in {"install", "name", "run", "done"}
    BY <1>1, <1>2, <1>4 DEF FilesInv
  <1> QED BY <1>3, <1>4 DEF RunNext, InstallRules, NameRun, ProcessPacket, Finish

-----------------------------------------------------------------------------
(* The process around the run.                                             *)

\* A run starts only when the arguments leave the files mode and an output
\* that is known; nothing is printed before the end; and once the process has
\* ended, no run is on its way.
CliInv ==
  /\ RunInv
  /\ pc # "idle" => OutputKnown /\ FilesMode
  /\ exit = {} => printed = "nothing"
  /\ exit # {} => pc \in {"idle", "done", "failed", "aborted"}
  /\ ExitTellsOutcome

\* Before the arguments are looked at there is nothing.
LEMMA InitCliInv == CliInit => CliInv
PROOF
  BY InitRunInv DEF CliInit, RunInit, CliInv, ExitTellsOutcome

\* What the two modes and the outputs exclude.
LEMMA ModesExclude ==
  /\ ScenarioMode => ~ FilesMode
  /\ OutputKnown => given["--output"] \in {"human", "json"}
PROOF
  BY DEF ScenarioMode, FilesMode, OutputKnown

\* Looking at an argument does not end the process, or ends it with a usage
\* or a help text, without a run.
LEMMA LookingKeeps ==
  ASSUME CliInv, UNCHANGED runVars, Help \/ List \/ TakeValue \/ Unknown
  PROVE  CliInv'
PROOF
  <1>1. RunInv'
    BY DEF CliInv, RunInv, runVars, vars, RulesDoc, PacketsDoc
  <1>2. pc' = "idle" /\ rules' = rules /\ result' = result /\ decisions' = decisions
    BY DEF Help, List, TakeValue, Unknown, Looking, runVars, vars
  <1>3. CASE List \/ TakeValue
    BY <1>1, <1>2, <1>3 DEF List, TakeValue, Looking, CliInv, ExitTellsOutcome
  <1>4. CASE Help
    BY <1>1, <1>2, <1>4 DEF Help, Exit, CliInv, ExitTellsOutcome
  <1>5. CASE Unknown
    BY <1>1, <1>2, <1>5 DEF Unknown, Usage, Exit, CliInv, ExitTellsOutcome
  <1> QED BY <1>3, <1>4, <1>5

\* The end of a process that ran nothing, or a scenario.
LEMMA DecidingKeeps ==
  ASSUME CliInv, UNCHANGED runVars, PrintNames \/ Refuse \/ RunScenario
  PROVE  CliInv'
PROOF
  <1>1. RunInv'
    BY DEF CliInv, RunInv, runVars, vars, RulesDoc, PacketsDoc
  <1>2. /\ pc' = "idle" /\ rules' = rules /\ result' = result /\ decisions' = decisions
        /\ given' = given
    BY DEF PrintNames, Refuse, RunScenario, Looked, Usage, runVars, vars
  <1>3. CASE PrintNames
    BY <1>1, <1>2, <1>3 DEF PrintNames, Exit, CliInv, ExitTellsOutcome
  <1>4. CASE Refuse
    BY <1>1, <1>2, <1>4 DEF Refuse, Usage, Exit, CliInv, ExitTellsOutcome
  <1>5. CASE RunScenario
    <2>1. exit' = {0} /\ printed' = given["--output"] /\ ScenarioMode /\ OutputKnown
      BY <1>5 DEF RunScenario, Exit
    <2>2. ScenarioMode' /\ ~ FilesMode' /\ given'["--output"] \in {"human", "json"}
      BY <1>2, <2>1, ModesExclude DEF ScenarioMode, FilesMode, Named
    <2>3. printed' # "nothing" /\ printed' = given'["--output"] /\ (ScenarioMode' # FilesMode')
      BY <1>2, <2>1, <2>2
    <2>4. FilesMode' => rules' # {} /\ Len(result'.decisions) = Len(PacketsDoc'.packets)
      BY <2>2
    <2>5. ExitTellsOutcome'
      BY <2>1, <2>3, <2>4 DEF ExitTellsOutcome
    <2> QED BY <1>1, <1>2, <2>1, <2>5 DEF CliInv
  <1> QED BY <1>3, <1>4, <1>5

\* The end of a process after a run from files.
LEMMA ReportKeeps == ASSUME CliInv, UNCHANGED runVars, Report PROVE CliInv'
PROOF
  <1>1. RunInv'
    BY DEF CliInv, RunInv, runVars, vars, RulesDoc, PacketsDoc
  <1>2. /\ pc' = pc /\ rules' = rules /\ result' = result /\ decisions' = decisions
        /\ given' = given /\ PacketsDoc' = PacketsDoc
    BY DEF Report, runVars, vars, PacketsDoc
  <1>3. (OutputKnown' <=> OutputKnown) /\ (FilesMode' <=> FilesMode)
        /\ (ScenarioMode' <=> ScenarioMode)
    BY <1>2 DEF OutputKnown, FilesMode, ScenarioMode, Named
  <1>4. pc \in {"done", "failed", "aborted"}
    BY DEF Report
  <1>5. OutputKnown /\ FilesMode /\ ~ ScenarioMode /\ given["--output"] \in {"human", "json"}
    BY <1>4, ModesExclude DEF CliInv
  <1>6. CASE pc = "done" /\ Exit(0, given["--output"])
    <2>1. rules # {} /\ Len(result.decisions) = Len(PacketsDoc.packets)
      BY <1>6 DEF CliInv, RunInv
    <2>2. exit' = {0} /\ printed' = given["--output"] /\ printed' # "nothing"
      BY <1>5, <1>6 DEF Exit
    <2>3. /\ ScenarioMode' # FilesMode' /\ printed' = given'["--output"]
          /\ rules' # {} /\ Len(result'.decisions) = Len(PacketsDoc'.packets)
      BY <1>2, <1>3, <1>5, <2>1, <2>2
    <2>4. ExitTellsOutcome'
      BY <2>2, <2>3 DEF ExitTellsOutcome
    <2> QED BY <1>1, <1>2, <1>3, <1>5, <1>6, <2>2, <2>4 DEF CliInv
  <1>7. CASE pc = "failed" /\ Exit(4, "nothing")
    BY <1>1, <1>2, <1>3, <1>5, <1>7 DEF Exit, CliInv, RunInv, ExitTellsOutcome
  <1>8. CASE pc = "aborted" /\ Exit(134, "nothing")
    BY <1>1, <1>2, <1>3, <1>5, <1>8 DEF Exit, CliInv, RunInv, ExitTellsOutcome
  <1> QED BY <1>6, <1>7, <1>8 DEF Report

\* The run itself goes on only while the process has not ended.
LEMMA RunKeeps ==
  ASSUME CliInv, StartFiles \/ (RunNext /\ UNCHANGED argVars)
  PROVE  CliInv'
PROOF
  <1>1. CASE StartFiles
    <2>1. /\ pc = "idle" /\ pc' = "read" /\ rules' = rules /\ result' = result
          /\ decisions' = decisions /\ UNCHANGED argVars /\ exit = {}
          /\ OutputKnown /\ FilesMode
      BY <1>1 DEF StartFiles, Start, vars, Looked
    <2>2. RunInv'
      BY <2>1 DEF CliInv, RunInv
    <2>3. OutputKnown' /\ FilesMode'
      BY <2>1 DEF OutputKnown, FilesMode, Named, argVars
    <2> QED BY <2>1, <2>2, <2>3 DEF CliInv, ExitTellsOutcome, argVars
  <1>2. CASE RunNext /\ UNCHANGED argVars
    <2>1. RunInv'
      BY <1>2, RunKeepsRunInv DEF CliInv
    <2>2. pc \in {"read", "install", "name", "run"}
      BY <1>2 DEF RunNext, Read, InstallRules, NameRun, ProcessPacket, Finish
    <2>3. exit = {} /\ exit' = {} /\ printed' = "nothing" /\ OutputKnown /\ FilesMode
      BY <1>2, <2>2 DEF CliInv, argVars
    <2>4. OutputKnown' /\ FilesMode'
      BY <1>2, <2>3 DEF OutputKnown, FilesMode, Named, argVars
    <2> QED BY <2>1, <2>3, <2>4 DEF CliInv, ExitTellsOutcome
  <1> QED BY <1>1, <1>2

\* Every step of the process keeps the invariant.
LEMMA NextKeepsCliInv == CliInv /\ [CliNext]_cliVars => CliInv'
PROOF
  <1> SUFFICES ASSUME CliInv, [CliNext]_cliVars PROVE CliInv'
    OBVIOUS
  <1>1. CASE UNCHANGED cliVars
    BY <1>1 DEF cliVars, runVars, vars, argVars, CliInv, RunInv, RulesDoc, PacketsDoc,
                ExitTellsOutcome, OutputKnown, FilesMode, ScenarioMode, Named
  <1>2. CASE CliNext
    BY <1>2, LookingKeeps, DecidingKeeps, ReportKeeps, RunKeeps DEF CliNext
  <1> QED BY <1>1, <1>2

-----------------------------------------------------------------------------
(* The pipeline inside the run.                                            *)

\* The files are those of the run through the whole process.
LEMMA CliKeepsFilesInv == FilesInv /\ [CliNext]_cliVars => FilesInv'
PROOF
  <1> SUFFICES ASSUME FilesInv, [CliNext]_cliVars PROVE FilesInv'
    OBVIOUS
  <1>1. CASE UNCHANGED runVars
    BY <1>1 DEF FilesInv, runVars, RulesDoc, PacketsDoc
  <1>2. CASE StartFiles
    <2>1. /\ pc' = "read"
          /\ rulesFile' \in Found(RulesAt, given["--rules"])
          /\ packetsFile' \in Found(PacketsAt, given["--packets"])
      BY <1>2 DEF StartFiles, Start
    <2> QED BY <2>1, FoundFiles DEF FilesInv
  <1>3. CASE RunNext
    BY <1>3, RunKeepsFilesInv
  <1> QED BY <1>1, <1>2, <1>3 DEF CliNext, cliVars

\* What runFiles hands to install and process are inputs of the pipeline.
LEMMA ReadInputs ==
  ASSUME FilesInv, pc \in {"install", "name", "run", "done"}
  PROVE  /\ RuleSetOf(RulesDoc) \in RuleSets
         /\ IsVector(PacketsDoc.packets)
         /\ \A k \in DOMAIN PacketsDoc.packets : PacketOf(PacketsDoc.packets[k]) \in Packets
PROOF
  <1>1. /\ RulesDoc \in DocumentsAt(RulesAt) /\ RulesStatus(RulesDoc) = "OK"
        /\ PacketsDoc \in DocumentsAt(PacketsAt) /\ PacketsStatus(PacketsDoc) = "OK"
    BY DEF FilesInv, RulesDoc, PacketsDoc, Value
  <1>2. RuleSetOf(RulesDoc) \in AcceptedRuleSets
    BY <1>1 DEF AcceptedRuleSets
  <1>3. ASSUME NEW k \in DOMAIN PacketsDoc.packets
        PROVE  PacketOf(PacketsDoc.packets[k]) \in AcceptedPackets
    BY <1>1, <1>3 DEF AcceptedPackets
  <1>4. IsVector(PacketsDoc.packets)
    BY <1>1, PacketsRead, DocumentsAssumption
  <1> QED BY <1>2, <1>3, <1>4, InputsAssumption

\* Every step of runFiles is a call of the pipeline or leaves it alone.
LEMMA RunCallsPipeline == RunInv /\ FilesInv /\ RunNext => [Next]_vars
PROOF
  <1> SUFFICES ASSUME RunInv, FilesInv, RunNext PROVE [Next]_vars
    OBVIOUS
  <1>1. CASE Read \/ NameRun \/ Finish
    BY <1>1 DEF Read, NameRun, Finish
  <1>2. CASE InstallRules
    <2>1. RuleSetOf(RulesDoc) \in RuleSets
      BY <1>2, ReadInputs DEF InstallRules
    <2> QED BY <1>2, <2>1 DEF InstallRules, Next
  <1>3. CASE ProcessPacket
    <2>1. /\ IsVector(PacketsDoc.packets)
          /\ \A k \in DOMAIN PacketsDoc.packets : PacketOf(PacketsDoc.packets[k]) \in Packets
      BY <1>3, ReadInputs DEF ProcessPacket
    <2>2. Done \in Nat /\ Done < Len(PacketsDoc.packets)
      BY <1>3, Appended DEF ProcessPacket, Done, RunInv
    <2>3. Done + 1 \in DOMAIN PacketsDoc.packets
      BY <2>1, <2>2 DEF IsVector
    <2>4. Process(PacketOf(PacketsDoc.packets[Done + 1]))
      BY <1>3 DEF ProcessPacket
    <2> QED BY <1>3, <2>1, <2>3, <2>4 DEF ProcessPacket, Next
  <1> QED BY <1>1, <1>2, <1>3 DEF RunNext

\* So is every step of the process.
LEMMA CliCallsPipeline == CliInv /\ FilesInv /\ [CliNext]_cliVars => [Next]_vars
PROOF
  <1> SUFFICES ASSUME CliInv, FilesInv, [CliNext]_cliVars PROVE [Next]_vars
    OBVIOUS
  <1>1. CASE UNCHANGED runVars
    BY <1>1 DEF runVars
  <1>2. CASE StartFiles
    BY <1>2 DEF StartFiles, Start
  <1>3. CASE RunNext
    BY <1>3, RunCallsPipeline DEF CliInv
  <1> QED BY <1>1, <1>2, <1>3 DEF CliNext, cliVars

-----------------------------------------------------------------------------
(* The output of a run.                                                    *)

\* A larger limit scales to one that is not smaller.
LEMMA ScaledInOrder ==
  ASSUME NEW a \in Nat, NEW b \in Nat, a <= b, NEW d \in Nat \ {0}
  PROVE  a \div d \in Nat /\ b \div d \in Nat /\ a \div d <= b \div d
PROOF
  <1> DEFINE x == a \div d
             y == b \div d
  <1>1. x \in Nat /\ y \in Nat /\ a % d \in 0 .. d - 1 /\ b % d \in 0 .. d - 1
    BY DivMod
  <1>2. a = d * x + (a % d) /\ b = d * y + (b % d)
    OBVIOUS
  <1> HIDE DEF x, y
  <1>3. ASSUME y < x PROVE FALSE
    <2>1. x = y + 1 + (x - y - 1) /\ x - y - 1 \in Nat
      BY <1>1, <1>3
    <2>2. d * x = d * y + d + d * (x - y - 1) /\ d * (x - y - 1) \in Nat /\ d * y \in Nat
      BY <1>1, <2>1, ProductIsNat
    <2> QED BY <1>1, <1>2, <2>2
  <1> QED BY <1>1, <1>3 DEF x, y

\* There are n positions up to n.
LEMMA Positions ==
  ASSUME NEW n \in Nat
  PROVE  IsFiniteSet(1 .. n) /\ Cardinality(1 .. n) = n
PROOF
  <1>1. Cardinality(1 .. n) = IF 1 > n THEN 0 ELSE n - 1 + 1
    BY FS_Interval
  <1> QED BY <1>1, FS_Interval

\* The k-th smallest of a set of positions is there, and has rank k.
LEMMA NthHasRank ==
  ASSUME NEW n \in Nat \ {0}, NEW S \in SUBSET (1 .. n - 1), NEW k \in 1 .. Cardinality(S)
  PROVE  Nth(S, k) \in S /\ Rank(S, Nth(S, k)) = k
PROOF
  <1> DEFINE c == Cardinality(S)
             rank == [x \in S |-> Rank(S, x)]
  <1>1. IsFiniteSet(S) /\ c \in Nat
    BY LastRank
  <1>2. rank \in [S -> 1 .. c]
    BY EarlierRank
  <1>3. \A m \in S : m \in Int
    <2>1. \A m \in 1 .. n - 1 : m \in Int
      OBVIOUS
    <2> QED BY <2>1
  <1> HIDE DEF rank, c
  <1>4. ASSUME NEW x \in S, NEW j \in S, x < j PROVE Rank(S, x) # Rank(S, j)
    <2> DEFINE I == {m \in S : m <= x}
               J == {m \in S : m <= j}
    <2>1. x \in Int /\ j \in Int
      BY <1>3
    <2>2. I \subseteq J /\ j \in J /\ j \notin I
      <3>1. \A m \in S : m <= x => m <= j
        BY <1>3, <1>4, <2>1
      <3>2. j <= j /\ ~ (j <= x)
        BY <1>4, <2>1
      <3> QED BY <3>1, <3>2
    <2>3. IsFiniteSet(J) /\ I \in SUBSET J
      BY <1>1, <2>2, FS_Subset
    <2>4. Cardinality(J) = Cardinality(I) => J = I
      BY <2>3, FS_Subset
    <2> QED BY <2>2, <2>4 DEF Rank
  <1>5. \A x, j \in S : rank[x] = rank[j] => x = j
    <2>1. \A x, j \in S : x < j \/ j < x \/ x = j
      BY <1>3
    <2> QED BY <1>4, <2>1 DEF rank
  <1>6. rank \in Injection(S, 1 .. c)
    BY <1>2, <1>5 DEF Injection, IsInjective
  <1>7. IsFiniteSet(1 .. c) /\ Cardinality(1 .. c) = c
    BY <1>1, Positions
  <1>8. rank \in Surjection(S, 1 .. c)
    BY <1>6, <1>7, FS_Injection DEF c
  <1>9. \E x \in S : Rank(S, x) = k
    BY <1>8 DEF Surjection, rank, c
  <1> QED BY <1>9 DEF Nth, Rank

\* What the pipeline keeps to in a run from files, beyond its own invariant:
\* the ruleset is installed once, before any packet, and a decision names at
\* most one of its URRs and carries a report id only when it is a commit.
FilePipelineInv ==
  /\ limits = DefaultLimits
  /\ \A id \in DOMAIN since : since[id] = 0
  /\ \A x \in DOMAIN decisions :
       /\ AtMostOne(decisions[x].urr)
       /\ \A u \in decisions[x].urr :
            /\ u.urrId \in Ids(Active.urrs)
            /\ u.reportId # {} => decisions[x].result \in CommittedResults

\* A list has no more ids than entries.
LEMMA IdsBound ==
  ASSUME NEW seq, IsVector(seq)
  PROVE  /\ IsFiniteSet(Ids(seq)) /\ Cardinality(Ids(seq)) \in Nat
         /\ Cardinality(Ids(seq)) <= Len(seq)
PROOF
  <1> DEFINE f == [x \in 1 .. Len(seq) |-> seq[x].id]
  <1>1. Len(seq) \in Nat /\ DOMAIN seq = 1 .. Len(seq)
    BY DEF IsVector
  <1>2. f \in Surjection(1 .. Len(seq), Ids(seq))
    BY <1>1 DEF Surjection, Ids
  <1> HIDE DEF f
  <1>3. /\ IsFiniteSet(1 .. Len(seq))
        /\ Cardinality(1 .. Len(seq)) = Len(seq)
    BY <1>1, Positions
  <1>4. /\ IsFiniteSet(Ids(seq))
        /\ Cardinality(Ids(seq)) <= Cardinality(1 .. Len(seq))
    BY <1>2, <1>3, FS_Surjection
  <1> QED BY <1>3, <1>4, FS_CardinalityType

\* While a URR has not reported, there is space for its report: every report
\* kept is that of another URR of the ruleset.
LEMMA ReportSpaceLeft ==
  ASSUME IInv, FilePipelineInv, NEW rs \in rules, NEW id \in Ids(rs.urrs),
         ~ runtime.urrs[id].reportEmitted
  PROVE  Len(reports) < limits.reports
PROOF
  <1> DEFINE T == Ids(rs.urrs) \ {id}
             named == [x \in Reporting |-> Value(decisions[x].urr).urrId]
  <1>1. /\ Active = rs /\ DOMAIN runtime.urrs = Ids(rs.urrs) /\ DOMAIN since = Ids(rs.urrs)
        /\ IsVector(rs.urrs) /\ Len(rs.urrs) <= RulesPerType
    <2>1. /\ rules = {rs} /\ Active = rs /\ WellTypedRuleSet(rs) /\ ValidateRuleSet(rs)
          /\ RuntimeOf(runtime, rs)
      BY CoreFacts DEF IInv
    <2>2. RuleLists(rs)[4] = rs.urrs /\ 4 \in 1 .. 4
      BY DEF RuleLists
    <2>3. Len(rs.urrs) <= RulesPerType
      BY <2>1, <2>2 DEF ValidateRuleSet
    <2> QED BY <2>1, <2>3 DEF RuntimeOf, WellTypedRuleSet, IInv, UsageInv
  <1>2. /\ IsFiniteSet(T) /\ Cardinality(T) \in Nat /\ Cardinality(T) < RulesPerType
    <2>1. /\ IsFiniteSet(Ids(rs.urrs)) /\ Cardinality(Ids(rs.urrs)) \in Nat
          /\ Cardinality(Ids(rs.urrs)) <= Len(rs.urrs)
      BY <1>1, IdsBound
    <2>2. IsFiniteSet(T) /\ Cardinality(T) = Cardinality(Ids(rs.urrs)) - 1
      BY <2>1, FS_RemoveElement
    <2>3. Cardinality(T) \in Nat
      BY <2>2, FS_CardinalityType
    <2>4. Len(rs.urrs) \in Nat /\ RulesPerType \in Nat
      BY <1>1, RulesPerTypeAssumption DEF IsVector
    <2> HIDE DEF T
    <2> QED BY <1>1, <2>1, <2>2, <2>3, <2>4
  <1>3. ASSUME NEW x \in Reporting
        PROVE  /\ named[x] \in Ids(rs.urrs) /\ x \in Counting(named[x])
    <2>1. x \in DOMAIN decisions /\ decisions[x].result \in CommittedResults
      BY DEF Reporting
    <2>2. PICK u \in decisions[x].urr : TRUE
      BY DEF Reporting
    <2>3. decisions[x].urr = {u}
      BY <2>1, <2>2 DEF FilePipelineInv, AtMostOne
    <2>4. named[x] = u.urrId
      BY <2>3, ValueOfSingleton
    <2>5. u.urrId \in Ids(rs.urrs)
      BY <1>1, <2>1, <2>2 DEF FilePipelineInv
    <2>6. x > since[u.urrId]
      <3>1. since[u.urrId] = 0
        BY <1>1, <2>5 DEF FilePipelineInv
      <3>2. x \in 1 .. Len(decisions) /\ Len(decisions) \in Nat
        BY <2>1, Appended DEF IInv, CoreInv
      <3> QED BY <3>1, <3>2
    <2> QED BY <2>1, <2>2, <2>4, <2>5, <2>6 DEF Counting
  <1> HIDE DEF named
  <1>4. ASSUME NEW x \in Reporting, NEW j \in Reporting, named[x] = named[j]
        PROVE  x = j
    <2> DEFINE R == Counting(named[x]) \cap Reporting
    <2>1. x \in R /\ j \in R
      BY <1>3, <1>4
    <2>2. IsFiniteSet(R)
      <3>1. R \subseteq 1 .. Len(decisions) /\ Len(decisions) \in Nat
        BY Appended DEF IInv, CoreInv, Reporting
      <3> QED BY <3>1, Positions, FS_Subset
    <2>3. Cardinality(R) \in {0, 1}
      BY <1>1, <1>3 DEF IInv, UsageInv, UsageAccounted, Accounted
    <2>4. \E y : R = {y}
      BY <2>1, <2>2, <2>3, FS_EmptySet, FS_Singleton
    <2> QED BY <2>1, <2>4
  <1>5. ASSUME NEW x \in Reporting PROVE named[x] # id
    <2> SUFFICES ASSUME named[x] = id PROVE FALSE
      OBVIOUS
    <2> DEFINE R == Counting(id) \cap Reporting
    <2>1. Cardinality(R) = 0
      BY <1>1 DEF IInv, UsageInv, UsageAccounted, Accounted
    <2>2. IsFiniteSet(R)
      <3>1. R \subseteq 1 .. Len(decisions) /\ Len(decisions) \in Nat
        BY Appended DEF IInv, CoreInv, Reporting
      <3> QED BY <3>1, Positions, FS_Subset
    <2>3. R = {}
      BY <2>1, <2>2, FS_EmptySet
    <2> QED BY <1>3, <2>3
  <1>6. named \in Injection(Reporting, T)
    <2>1. named \in [Reporting -> T]
      BY <1>3, <1>5 DEF named
    <2> HIDE DEF T
    <2> QED BY <1>4, <2>1 DEF Injection, IsInjective
  <1>7. IsFiniteSet(Reporting) /\ Cardinality(Reporting) <= Cardinality(T)
    BY <1>2, <1>6, FS_Injection
  <1>8. Len(reports) = Cardinality(Reporting) /\ Cardinality(Reporting) \in Nat
    BY <1>7, FS_CardinalityType DEF IInv, ReportsAccounted
  <1>9. limits.reports \in Nat /\ RulesPerType <= limits.reports /\ RulesPerType \in Nat
    BY CoreFacts, UInt64MaxAssumption, ProportionsAssumption, RulesPerTypeAssumption
       DEF IInv, UInt64, FilePipelineInv
  <1> HIDE DEF T
  <1> QED BY <1>2, <1>7, <1>8, <1>9

\* A sink is not full while there is space for results: each of its packets
\* has a decision.
LEMMA SinkSpaceLeft ==
  ASSUME IInv, FilePipelineInv, HasResultSpace, NEW to \in Interface
  PROVE  Len(sinks[to]) < limits.sinkPackets
PROOF
  <1>1. Len(decisions) \in Nat /\ DOMAIN decisions = 1 .. Len(decisions)
    BY Appended DEF IInv, CoreInv
  <1>2. SentTo(to) \in SUBSET (1 .. Len(decisions))
    BY <1>1 DEF SentTo
  <1>3. /\ IsFiniteSet(1 .. Len(decisions))
        /\ Cardinality(1 .. Len(decisions)) = Len(decisions)
    BY <1>1, Positions
  <1>4. Cardinality(SentTo(to)) <= Len(decisions) /\ Cardinality(SentTo(to)) \in Nat
    BY <1>2, <1>3, FS_Subset, FS_CardinalityType
  <1>5. Len(sinks[to]) = Cardinality(SentTo(to))
    BY DEF IInv, SinksAccounted
  <1>6. limits.sinkPackets = limits.results /\ limits.results \in Nat
    <2>1. limits.sinkPackets = limits.results
      BY DEF FilePipelineInv, DefaultLimits
    <2> QED BY <2>1, CoreFacts, UInt64MaxAssumption DEF IInv, UInt64
  <1> QED BY <1>1, <1>4, <1>5, <1>6 DEF HasResultSpace

\* The URR part of a decision names at most one URR, one of the ruleset.
LEMMA UrrNamed ==
  ASSUME CoreInv, NEW p \in Packets, Acceptable(p), NEW pdr \in Winner(Active, p)
  PROVE  /\ AtMostOne(UrrDecisions(pdr, p))
         /\ \A d \in UrrDecisions(pdr, p) :
              \E u \in UrrsOf(pdr), rs \in rules :
                /\ UrrsOf(pdr) = {u} /\ Active = rs /\ u.id \in Ids(rs.urrs)
                /\ u.id \in DOMAIN runtime.urrs
                /\ d = UrrDecision(u, runtime.urrs[u.id], p.payloadBytes, rs.sessionId, rs.version)
PROOF
  <1>1. PICK rs \in rules :
           \/ UrrsOf(pdr) = {}
           \/ \E u : UrrsOf(pdr) = {u} /\ u.id \in DOMAIN runtime.urrs
    BY SelectedRules
  <1>2. Active = rs /\ DOMAIN runtime.urrs = Ids(rs.urrs)
    BY CoreFacts DEF RuntimeOf
  <1>3. CASE UrrsOf(pdr) = {}
    BY <1>3 DEF UrrDecisions, AtMostOne
  <1>4. ASSUME NEW u, UrrsOf(pdr) = {u}, u.id \in DOMAIN runtime.urrs
        PROVE  UrrDecisions(pdr, p) =
                 {UrrDecision(u, runtime.urrs[u.id], p.payloadBytes, rs.sessionId, rs.version)}
    BY <1>2, <1>4 DEF UrrDecisions
  <1> QED BY <1>1, <1>2, <1>3, <1>4 DEF AtMostOne

\* A packet that its plan refuses carries no report id: the plan can only
\* fail where nothing is counted, because there is space for report and packet.
LEMMA RefusedPlanReportsNothing ==
  ASSUME IInv, FilePipelineInv, HasResultSpace, NEW p \in Packets, Acceptable(p),
         NEW pdr \in Winner(Active, p), PlanFailures(pdr, p) # {},
         NEW d \in UrrDecisions(pdr, p)
  PROVE  d.reportId = {}
PROOF
  <1> SUFFICES ASSUME d.reportId # {} PROVE FALSE
    OBVIOUS
  <1>1. CoreInv
    BY DEF IInv
  <1>2. PICK u \in UrrsOf(pdr), rs \in rules :
          /\ UrrsOf(pdr) = {u} /\ Active = rs /\ u.id \in Ids(rs.urrs)
          /\ d = UrrDecision(u, runtime.urrs[u.id], p.payloadBytes, rs.sessionId, rs.version)
    BY <1>1, UrrNamed
  <1>3. UrrReports(u, runtime.urrs[u.id], p.payloadBytes)
    BY <1>2 DEF UrrDecision
  <1>4. /\ ~ UrrOverflows(runtime.urrs[u.id], p.payloadBytes)
        /\ ~ runtime.urrs[u.id].reportEmitted
    BY <1>3 DEF UrrReports
  <1>5. Len(reports) < limits.reports
    BY <1>2, <1>4, ReportSpaceLeft
  <1>6. /\ FarValid(FarOf(pdr), p)
        /\ FarForwards(FarOf(pdr), p) => FarDestination(FarOf(pdr)) \in Interface
    BY <1>1, SelectedRules, FittingFar
  <1>7. FarForwards(FarOf(pdr), p) =>
          Len(sinks[FarDestination(FarOf(pdr))]) < limits.sinkPackets
    BY <1>6, SinkSpaceLeft
  <1>8. /\ Len(reports) \in Nat /\ limits.reports \in Nat /\ limits.sinkPackets \in Nat
        /\ \A x \in Interface : Len(sinks[x]) \in Nat
    BY <1>1, CoreFacts, UInt64MaxAssumption, Appended DEF CoreInv, UInt64
  <1>9. /\ ~ (Len(reports) >= limits.reports)
        /\ FarForwards(FarOf(pdr), p) =>
             ~ (Len(sinks[FarDestination(FarOf(pdr))]) >= limits.sinkPackets)
    BY <1>5, <1>6, <1>7, <1>8
  <1>10. PlanFailures(pdr, p) = {}
    BY <1>2, <1>4, <1>6, <1>9 DEF PlanFailures
  <1> QED BY <1>10

\* The decision of a packet that is not refused for lack of space names at most
\* one URR of the ruleset, and carries a report id only when the packet is
\* committed.
LEMMA DecisionReports ==
  ASSUME IInv, FilePipelineInv, HasResultSpace, NEW p \in Packets, Process(p)
  PROVE  \E d : /\ IsDecision(d) /\ Retain(d) /\ AtMostOne(d.urr)
                /\ \A u \in d.urr : /\ u.urrId \in Ids(Active.urrs)
                                    /\ u.reportId # {} => d.result \in CommittedResults
PROOF
  <1>1. CoreInv
    BY DEF IInv
  <1>2. ASSUME NEW d, IsDecision(d), Retain(d), d.urr = {}
        PROVE  \E e : /\ IsDecision(e) /\ Retain(e) /\ AtMostOne(e.urr)
                      /\ \A u \in e.urr : /\ u.urrId \in Ids(Active.urrs)
                                          /\ u.reportId # {} => e.result \in CommittedResults
    BY <1>2 DEF AtMostOne
  <1>3. ASSUME NEW pdr \in Winner(Active, p), Acceptable(p),
               NEW d, IsDecision(d), Retain(d), d.urr = UrrDecisions(pdr, p),
               \/ d.result \in CommittedResults
               \/ \A u \in UrrDecisions(pdr, p) : u.reportId = {}
        PROVE  \E e : /\ IsDecision(e) /\ Retain(e) /\ AtMostOne(e.urr)
                      /\ \A u \in e.urr : /\ u.urrId \in Ids(Active.urrs)
                                          /\ u.reportId # {} => e.result \in CommittedResults
    <2>1. /\ AtMostOne(UrrDecisions(pdr, p))
          /\ \A u \in UrrDecisions(pdr, p) : u.urrId \in Ids(Active.urrs)
      BY <1>1, <1>3, UrrNamed DEF UrrDecision
    <2> QED BY <1>3, <2>1
  <1>4. CASE RejectUnacceptable(p) \/ RejectUnmatched(p)
    <2>1. PICK early \in {Received(p), Matched(p)} : \E r : Retain(With(early, r))
      BY <1>4 DEF RejectUnacceptable, RejectUnmatched
    <2>2. PICK r : Retain(With(early, r))
      BY <2>1
    <2>3. IsDecision(early) /\ early.urr = {}
      <3>1. /\ IsDecision(Received(p)) /\ Received(p).urr = {}
            /\ IsDecision(Matched(p)) /\ Matched(p).urr = {}
        BY DecisionStages
      <3> QED BY <2>1, <3>1
    <2>4. IsDecision(With(early, r)) /\ With(early, r).urr = {}
      BY <2>3, ResultSet
    <2> QED BY <1>2, <2>2, <2>4
  <1>5. CASE RejectByQer(p)
    <2>1. PICK pdr, r : Retain(With(Selected(pdr, p), r))
      BY <1>5 DEF RejectByQer
    <2>2. IsDecision(Selected(pdr, p)) /\ Selected(pdr, p).urr = {}
      BY DecisionStages
    <2>3. IsDecision(With(Selected(pdr, p), r)) /\ With(Selected(pdr, p), r).urr = {}
      BY <2>2, ResultSet
    <2> QED BY <1>2, <2>1, <2>3
  <1>6. CASE RejectByPlan(p)
    <2>1. PICK pdr \in Winner(Active, p) :
            \E r \in PlanFailures(pdr, p) : Retain(With(Planned(pdr, p), r))
      BY <1>6 DEF RejectByPlan
    <2>2. Acceptable(p)
      BY <1>6 DEF RejectByPlan
    <2>3. FarValid(FarOf(pdr), p)
      BY <1>1, <2>2, SelectedRules, FittingFar
    <2>4. PICK r \in PlanFailures(pdr, p) : Retain(With(Planned(pdr, p), r))
      BY <2>1
    <2> DEFINE d == With(Planned(pdr, p), r)
    <2>5. IsDecision(d) /\ Retain(d) /\ d.urr = UrrDecisions(pdr, p)
      BY <2>3, <2>4, LateResults
    <2>6. \A u \in UrrDecisions(pdr, p) : u.reportId = {}
      BY <2>2, <2>4, RefusedPlanReportsNothing
    <2> HIDE DEF d
    <2> QED BY <1>3, <2>2, <2>5, <2>6
  <1>7. CASE Accept(p)
    <2>1. PICK pdr \in Winner(Active, p) : PlanFailures(pdr, p) = {} /\ Commit(pdr, p)
      BY <1>7 DEF Accept
    <2>2. Acceptable(p)
      BY <1>7 DEF Accept
    <2>3. FarValid(FarOf(pdr), p)
      BY <1>1, <2>2, SelectedRules, FittingFar
    <2>4. PICK d \in {With(Planned(pdr, p), "FAR_DROPPED"), Forwarded(pdr, p)} : Retain(d)
      BY <2>1 DEF Commit
    <2>5. /\ IsDecision(With(Planned(pdr, p), "FAR_DROPPED"))
          /\ With(Planned(pdr, p), "FAR_DROPPED").urr = UrrDecisions(pdr, p)
          /\ With(Planned(pdr, p), "FAR_DROPPED").result = "FAR_DROPPED"
      BY <2>3, LateResults
    <2>6. /\ IsDecision(Forwarded(pdr, p)) /\ Forwarded(pdr, p).urr = UrrDecisions(pdr, p)
          /\ Forwarded(pdr, p).result \in {"FORWARDED_TO_N3", "FORWARDED_TO_N6"}
      BY <2>3, DecisionStages
    <2>7. d.result \in CommittedResults
      BY <2>4, <2>5, <2>6 DEF CommittedResults
    <2> QED BY <1>3, <2>2, <2>4, <2>5, <2>6, <2>7
  <1>8. ~ RejectFull(p)
    BY DEF RejectFull
  <1> QED BY <1>4, <1>5, <1>6, <1>7, <1>8 DEF Process

\* A call of process keeps to it.
LEMMA ProcessKeepsFile ==
  ASSUME IInv, FilePipelineInv, NEW p \in Packets, Process(p), UNCHANGED <<limits, rules, since>>
  PROVE  FilePipelineInv'
PROOF
  <1>1. CASE ~ HasResultSpace
    <2>1. decisions' = decisions
      BY <1>1 DEF Process, RejectFull, RejectUnacceptable, RejectUnmatched, RejectByQer,
                  RejectByPlan, Accept
    <2> QED BY <2>1 DEF FilePipelineInv, Active
  <1>2. CASE HasResultSpace
    <2>1. PICK d : /\ IsDecision(d) /\ Retain(d) /\ AtMostOne(d.urr)
                   /\ \A u \in d.urr : /\ u.urrId \in Ids(Active.urrs)
                                       /\ u.reportId # {} => d.result \in CommittedResults
      BY <1>2, DecisionReports
    <2> DEFINE n == Len(decisions) + 1
    <2>2. /\ DOMAIN decisions = 1 .. n - 1 /\ DOMAIN decisions' = 1 .. n /\ n \in Nat
          /\ \A x \in DOMAIN decisions : decisions'[x] = decisions[x]
          /\ decisions'[n].urr = d.urr /\ decisions'[n].result = d.result
      BY <2>1, Retained DEF IInv, CoreInv
    <2> HIDE DEF n
    <2>3. \A x \in DOMAIN decisions' : x = n \/ x \in DOMAIN decisions
      BY <2>2
    <2>4. Active' = Active
      BY DEF Active
    <2> QED BY <2>1, <2>2, <2>3, <2>4 DEF FilePipelineInv
  <1> QED BY <1>1, <1>2

\* What runFiles has copied: the decisions retained, then those that were not,
\* and at the end the sinks.
CopyInv ==
  /\ Len(decisions) <= Len(result.decisions)
  /\ HasResultSpace => Len(result.decisions) = Len(decisions)
  /\ \A x \in DOMAIN result.decisions :
       IF x \in DOMAIN decisions THEN result.decisions[x] = decisions[x]
       ELSE result.decisions[x].urr = {}
  /\ result.observabilityDegraded = FALSE /\ result.droppedEvents = 0
  /\ pc = "done" => result.n3Sink = sinks["N3"] /\ result.n6Sink = sinks["N6"]

\* Before the run it holds.
LEMMA InitFile == RunInit => FilePipelineInv /\ CopyInv
PROOF
  <1> SUFFICES ASSUME RunInit PROVE FilePipelineInv /\ CopyInv
    OBVIOUS
  <1>1. /\ limits = DefaultLimits /\ decisions = <<>> /\ DOMAIN since = {}
        /\ result = NewResult /\ pc = "idle"
    BY DEF RunInit, Constructed
  <1>2. /\ result.decisions = <<>> /\ result.observabilityDegraded = FALSE
        /\ result.droppedEvents = 0
    BY <1>1 DEF NewResult
  <1> QED BY <1>1, <1>2, EmptyIsSeq DEF FilePipelineInv, CopyInv

\* A packet adds one decision to the copy, the one retained or the one refused.
LEMMA ProcessKeepsCopy ==
  ASSUME RunInv, FilesInv, IInv, FilePipelineInv, CopyInv, ProcessPacket
  PROVE  FilePipelineInv' /\ CopyInv'
PROOF
  <1> DEFINE p == PacketOf(PacketsDoc.packets[Done + 1])
             r == result.decisions
             d == IF HasResultSpace THEN decisions'[Len(decisions')] ELSE Refused(p)
             n == Len(r) + 1
  <1>1. p \in Packets
    <2>1. /\ IsVector(PacketsDoc.packets)
          /\ \A k \in DOMAIN PacketsDoc.packets : PacketOf(PacketsDoc.packets[k]) \in Packets
      BY ReadInputs DEF ProcessPacket
    <2>2. Done \in Nat /\ Done < Len(PacketsDoc.packets)
      BY Appended DEF ProcessPacket, Done, RunInv
    <2>3. Done + 1 \in DOMAIN PacketsDoc.packets
      BY <2>1, <2>2 DEF IsVector
    <2> QED BY <2>1, <2>3
  <1>2. /\ Process(p) /\ UNCHANGED <<limits, rules, since>> /\ pc' = "run"
        /\ result' = [result EXCEPT !.decisions = Append(r, d)]
    BY DEF ProcessPacket
  <1> HIDE DEF p, d
  <1>3. FilePipelineInv'
    BY <1>1, <1>2, ProcessKeepsFile
  <1>4. /\ result'.decisions = Append(r, d)
        /\ result'.observabilityDegraded = result.observabilityDegraded
        /\ result'.droppedEvents = result.droppedEvents
    BY <1>2 DEF RunInv, IsResult
  <1>5. IsSeq(r)
    BY DEF RunInv
  <1> HIDE DEF r
  <1>6. /\ n \in Nat /\ DOMAIN r = 1 .. n - 1 /\ Len(r) = n - 1
        /\ DOMAIN result'.decisions = 1 .. n /\ Len(result'.decisions) = n
        /\ \A x \in DOMAIN r : result'.decisions[x] = r[x]
        /\ result'.decisions[n] = d
    BY <1>4, <1>5, Appended
  <1> HIDE DEF n
  <1>7. \A x \in DOMAIN result'.decisions : x = n \/ x \in DOMAIN r
    BY <1>6
  <1>8. CASE ~ HasResultSpace
    <2>1. decisions' = decisions
      BY <1>2, <1>8 DEF Process, RejectFull, RejectUnacceptable, RejectUnmatched, RejectByQer,
                        RejectByPlan, Accept
    <2>2. ~ HasResultSpace'
      BY <1>2, <1>8, <2>1 DEF HasResultSpace
    <2>3. d = Refused(p)
      BY <1>8 DEF d
    <2>4. IsDecision(Received(p)) /\ Received(p).urr = {}
      BY DecisionStages
    <2>5. Refused(p).urr = {}
      BY <2>4, ResultSet DEF Refused
    <2>6. Len(decisions) \in Nat /\ DOMAIN decisions = 1 .. Len(decisions)
      BY Appended DEF IInv, CoreInv
    <2>7. Len(decisions) <= n - 1
      BY <1>6 DEF CopyInv, r
    <2>8. n \notin DOMAIN decisions /\ Len(decisions) <= n
      BY <1>6, <2>6, <2>7
    <2> QED BY <1>2, <1>3, <1>4, <1>6, <1>7, <2>1, <2>2, <2>3, <2>5, <2>8 DEF CopyInv, r
  <1>9. CASE HasResultSpace
    <2>1. PICK e : IsDecision(e) /\ Retain(e)
      BY <1>1, <1>2, <1>9, DecisionReports
    <2>2. /\ Len(decisions') = Len(decisions) + 1
          /\ DOMAIN decisions' = 1 .. Len(decisions) + 1
          /\ DOMAIN decisions = 1 .. Len(decisions) + 1 - 1
          /\ \A x \in DOMAIN decisions : decisions'[x] = decisions[x]
      BY <2>1, Retained DEF IInv, CoreInv
    <2>3. Len(decisions) = n - 1
      BY <1>6, <1>9 DEF CopyInv, r
    <2>4. /\ Len(decisions') = n /\ DOMAIN decisions' = 1 .. n /\ DOMAIN decisions = 1 .. n - 1
          /\ n \in DOMAIN decisions'
      BY <1>6, <2>2, <2>3
    <2>5. d = decisions'[n]
      BY <1>9, <2>4 DEF d
    <2>6. DOMAIN r = DOMAIN decisions
      BY <1>6, <2>4
    <2>7. \A x \in DOMAIN r : r[x] = decisions[x]
      BY <2>6 DEF CopyInv, r
    <2>8. \A x \in DOMAIN result'.decisions :
            x \in DOMAIN decisions' /\ result'.decisions[x] = decisions'[x]
      BY <1>6, <1>7, <2>2, <2>4, <2>5, <2>6, <2>7
    <2>9. n <= n
      BY <1>6
    <2> QED BY <1>2, <1>3, <1>4, <1>6, <2>4, <2>8, <2>9 DEF CopyInv
  <1> QED BY <1>8, <1>9

\* Every step of runFiles keeps to it: the ruleset comes first, and the sinks
\* are copied last.
LEMMA RunKeepsFile ==
  ASSUME RunInv, FilesInv, IInv, FilePipelineInv, CopyInv, RunNext
  PROVE  FilePipelineInv' /\ CopyInv'
PROOF
  <1>1. CASE Read \/ NameRun
    <2>1. UNCHANGED <<limits, rules, since, decisions, sinks, result>> /\ pc' # "done"
      BY <1>1 DEF Read, Parsed, NameRun, vars
    <2> QED BY <2>1 DEF FilePipelineInv, CopyInv, Active, HasResultSpace
  <1>2. CASE InstallRules
    <2>1. /\ decisions = <<>> /\ rules = {} /\ pc' # "done"
          /\ UNCHANGED <<limits, decisions, sinks, result>>
      BY <1>2 DEF InstallRules, RunInv
    <2>2. \A id \in DOMAIN since' : since'[id] = 0
      <3>1. CASE Install(RuleSetOf(RulesDoc))
        BY <2>1, <3>1, EmptyIsSeq DEF Install, SameGeneration
      <3>2. CASE since' = since
        BY <3>2 DEF FilePipelineInv
      <3> QED BY <1>2, <3>1, <3>2 DEF InstallRules, RefuseInstall
    <2>3. DOMAIN decisions' = {}
      BY <2>1, EmptyIsSeq
    <2> QED BY <2>1, <2>2, <2>3 DEF FilePipelineInv, CopyInv, HasResultSpace
  <1>3. CASE ProcessPacket
    BY <1>3, ProcessKeepsCopy
  <1>4. CASE Finish
    <2>1. UNCHANGED <<limits, rules, since, decisions, sinks>>
      BY <1>4 DEF Finish, vars
    <2>2. /\ result'.decisions = result.decisions
          /\ result'.observabilityDegraded = result.observabilityDegraded
          /\ result'.droppedEvents = result.droppedEvents
          /\ result'.n3Sink = sinks["N3"] /\ result'.n6Sink = sinks["N6"]
      BY <1>4 DEF Finish, RunInv, IsResult
    <2> QED BY <2>1, <2>2 DEF FilePipelineInv, CopyInv, Active, HasResultSpace
  <1> QED BY <1>1, <1>2, <1>3, <1>4 DEF RunNext

\* Every step of the process keeps to it.
LEMMA CliKeepsFile ==
  CliInv /\ FilesInv /\ IInv /\ FilePipelineInv /\ CopyInv /\ [CliNext]_cliVars
    => FilePipelineInv' /\ CopyInv'
PROOF
  <1> SUFFICES ASSUME CliInv, FilesInv, IInv, FilePipelineInv, CopyInv, [CliNext]_cliVars
               PROVE  FilePipelineInv' /\ CopyInv'
    OBVIOUS
  <1>1. CASE UNCHANGED runVars
    BY <1>1 DEF runVars, vars, FilePipelineInv, CopyInv, Active, HasResultSpace
  <1>2. CASE StartFiles
    BY <1>2 DEF StartFiles, Start, vars, FilePipelineInv, CopyInv, Active, HasResultSpace
  <1>3. CASE RunNext
    BY <1>3, RunKeepsFile DEF CliInv
  <1> QED BY <1>1, <1>2, <1>3 DEF CliNext, cliVars

\* The default limits have as many events as results: none is dropped.
LEMMA NoEventDropped ==
  ASSUME IInv, FilePipelineInv
  PROVE  droppedEvents = 0
PROOF
  <1>1. /\ Len(decisions) \in Nat /\ Len(events) \in Nat /\ droppedEvents \in Nat
        /\ limits.results \in Nat /\ limits.events \in Nat
    BY CoreFacts, Appended, UInt64MaxAssumption DEF IInv, CoreInv, EventsInv, UInt64
  <1>2. limits.results <= limits.events
    <2>1. 2048 \div LimitScale <= 8192 \div LimitScale
      BY ScaledInOrder, LimitScaleAssumption
    <2> QED BY <2>1 DEF FilePipelineInv, DefaultLimits
  <1>3. /\ Len(decisions) <= limits.results /\ Len(events) + droppedEvents = Len(decisions)
        /\ Len(events) <= limits.events
        /\ Len(events) < limits.events => Len(events) = Len(decisions)
    BY DEF IInv, EventsInv, EventsAccounted
  <1> QED BY <1>1, <1>2, <1>3

\* The decisions of the copy that carry a report id are those that produced a
\* report, and the reports rebuilt from them are those the pipeline kept.
LEMMA ReportsRebuilt ==
  ASSUME IInv, FilePipelineInv, CopyInv, RunInv
  PROVE  LET json == UsageReportsJson(result.decisions)
         IN  [k \in DOMAIN json |-> json[k].reportId] = reports
PROOF
  <1> DEFINE r == result.decisions
             reporting == {x \in DOMAIN r : \E u \in r[x].urr : u.reportId # {}}
             json == UsageReportsJson(r)
             n == Len(decisions) + 1
  <1>1. /\ n \in Nat \ {0} /\ DOMAIN decisions = 1 .. n - 1 /\ IsSeq(reports)
        /\ Len(decisions) = n - 1
    BY Appended DEF IInv, CoreInv
  <1>2. DOMAIN decisions \subseteq DOMAIN r
    <2>1. Len(r) \in Nat /\ DOMAIN r = 1 .. Len(r)
      BY Appended DEF RunInv
    <2>2. n - 1 <= Len(r)
      BY <1>1 DEF CopyInv
    <2> HIDE DEF r, n
    <2> QED BY <1>1, <2>1, <2>2
  <1> HIDE DEF n
  <1>3. reporting = Reporting
    <2>1. ASSUME NEW x \in Reporting PROVE x \in reporting
      <3>1. x \in DOMAIN decisions /\ \E u \in decisions[x].urr : u.reportId # {}
        BY DEF Reporting
      <3>2. r[x] = decisions[x]
        BY <1>2, <3>1 DEF CopyInv
      <3> QED BY <1>2, <3>1, <3>2
    <2>2. ASSUME NEW x \in reporting PROVE x \in Reporting
      <3>1. x \in DOMAIN r /\ \E u \in r[x].urr : u.reportId # {}
        OBVIOUS
      <3>2. x \in DOMAIN decisions /\ r[x] = decisions[x]
        BY <3>1 DEF CopyInv
      <3>3. \A u \in decisions[x].urr : u.reportId # {} => decisions[x].result \in CommittedResults
        BY <3>2 DEF FilePipelineInv
      <3> QED BY <3>1, <3>2, <3>3 DEF Reporting
    <2> HIDE DEF reporting
    <2> QED BY <2>1, <2>2
  <1>4. DOMAIN json = 1 .. Cardinality(Reporting)
    <2>1. DOMAIN json = 1 .. Cardinality(reporting)
      BY DEF UsageReportsJson
    <2> HIDE DEF json, reporting
    <2> QED BY <1>3, <2>1
  <1>5. ASSUME NEW k \in 1 .. Cardinality(Reporting)
        PROVE  json[k].reportId = reports[k]
    <2> DEFINE x == Nth(Reporting, k)
    <2>1. Reporting \in SUBSET (1 .. n - 1)
      BY <1>1 DEF Reporting
    <2>2. x \in Reporting /\ Rank(Reporting, x) = k
      BY <1>1, <2>1, NthHasRank
    <2>3. json[k].reportId = Value(Value(r[x].urr).reportId)
      <3>1. json[k].reportId = Value(Value(r[Nth(reporting, k)].urr).reportId)
        <4>1. k \in 1 .. Cardinality(reporting)
          BY <1>3
        <4> QED BY <4>1 DEF UsageReportsJson
      <3> HIDE DEF json, reporting, r
      <3> QED BY <1>3, <3>1
    <2> HIDE DEF x, json, r, reporting
    <2>4. x \in DOMAIN decisions /\ \E u \in decisions[x].urr : u.reportId # {}
      BY <2>2 DEF Reporting
    <2>5. PICK u : decisions[x].urr = {u}
      BY <2>4 DEF FilePipelineInv, AtMostOne
    <2>6. r[x] = decisions[x]
      BY <1>2, <2>4 DEF CopyInv, r
    <2>7. Value(r[x].urr) = u
      BY <2>5, <2>6, ValueOfSingleton
    <2>8. UNION {v.reportId : v \in decisions[x].urr} = u.reportId
      BY <2>5
    <2>9. reports[k] = Value(UNION {v.reportId : v \in decisions[x].urr})
      BY <2>2 DEF IInv, ReportsAccounted
    <2> QED BY <2>3, <2>7, <2>8, <2>9
  <1>6. reports = [k \in 1 .. Cardinality(Reporting) |-> reports[k]]
    <2>1. Len(reports) = Cardinality(Reporting)
      BY DEF IInv, ReportsAccounted
    <2> QED BY <1>1, <2>1 DEF IsSeq
  <1> HIDE DEF json
  <1>7. [k \in DOMAIN json |-> json[k].reportId] = reports
    BY <1>4, <1>5, <1>6
  <1> QED BY <1>7 DEF json

-----------------------------------------------------------------------------
(* The story that the printed decisions tell.                              *)

\* A set of positions that has a member has a greatest one.
LEMMA GreatestMember ==
  ASSUME NEW m \in Nat, NEW S \in SUBSET (1 .. m), S # {}
  PROVE  /\ Max(S) \in S /\ \A x \in S : x <= Max(S)
         /\ m \in S => Max(S) = m
PROOF
  <1> DEFINE T == {m - x : x \in S}
             t == Min(T)
  <1>1. \A x \in S : x \in Nat /\ x <= m
    <2>1. \A x \in 1 .. m : x \in Nat /\ x <= m
      OBVIOUS
    <2> QED BY <2>1
  <1>2. T \in SUBSET Nat /\ T # {}
    BY <1>1
  <1>3. t \in T /\ \A y \in T : t <= y
    BY <1>2, LeastMember
  <1>4. PICK g \in S : t = m - g
    BY <1>3
  <1> HIDE DEF t
  <1>5. ASSUME NEW x \in S PROVE x <= g
    <2>1. m - g <= m - x
      BY <1>3, <1>4
    <2> QED BY <1>1, <2>1
  <1>6. Max(S) \in S /\ \A x \in S : x <= Max(S)
    <2>1. \E y \in S : \A x \in S : y >= x
      BY <1>1, <1>5
    <2>2. Max(S) \in S /\ \A x \in S : Max(S) >= x
      BY <2>1 DEF Max
    <2> QED BY <1>1, <2>2
  <1> DEFINE top == Max(S)
  <1>7. top \in Nat /\ top <= m /\ (m \in S => m <= top)
    BY <1>1, <1>6
  <1> HIDE DEF top
  <1>8. m \in S => top = m
    BY <1>7
  <1> QED BY <1>6, <1>8 DEF top

\* The smaller of two numbers.
LEMMA LeastOfTwo ==
  ASSUME NEW a \in Int, NEW b \in Int
  PROVE  Min({a, b}) = IF a <= b THEN a ELSE b
PROOF
  <1> DEFINE m == IF a <= b THEN a ELSE b
  <1>1. m \in {a, b} /\ \A y \in {a, b} : m <= y
    OBVIOUS
  <1>2. ASSUME NEW x \in {a, b}, \A y \in {a, b} : x <= y PROVE x = m
    BY <1>2
  <1> HIDE DEF m
  <1> QED BY <1>1, <1>2 DEF Min, m

\* The equation that renderHuman prints of a QER adds up.
AddsUp(q, burst) ==
  LET filled == Min({burst, q.tokensBefore + q.refillBytes})
  IN  q.tokensAfter = CASE q.outcome = "ALLOW"        -> filled - q.packetChargeBytes
                        [] q.outcome = "RATE_LIMITED" -> filled
                        [] OTHER                      -> q.tokensBefore

\* It does for what evaluateQer computes: while a bucket holds no more than its
\* burst, a refill leaves what it held and what the time earned, up to the
\* burst.
LEMMA EquationHolds ==
  ASSUME NEW q, WellTypedQer(q), NEW b \in TokenBucketState, b.tokensBytes <= q.burstBytes,
         NEW bytes \in UInt64, NEW now \in UInt64,
         NEW d, d = QerDecision(q, b, bytes, now)
  PROVE  LET next == QerNext(q, b, bytes, now)
         IN  /\ d.qerId = q.id /\ d.outcome = QerOutcome(q, b, bytes, now)
             /\ d.tokensBefore = b.tokensBytes /\ d.tokensAfter = next.tokensBytes
             /\ next.tokensBytes <= q.burstBytes /\ AddsUp(d, q.burstBytes)
PROOF
  <1> DEFINE o == QerOutcome(q, b, bytes, now)
             next == QerNext(q, b, bytes, now)
             earned == RefillBytes(q, b, now)
             filled == Min({q.burstBytes, d.tokensBefore + d.refillBytes})
  <1>1. /\ d.qerId = q.id /\ d.outcome = o /\ d.tokensBefore = b.tokensBytes
        /\ d.refillBytes = IF o \in {"ALLOW", "RATE_LIMITED"} THEN earned ELSE 0
        /\ d.packetChargeBytes = bytes /\ d.tokensAfter = next.tokensBytes
    BY DEF QerDecision
  <1>2. /\ b.tokensBytes \in Nat /\ q.burstBytes \in Nat /\ bytes \in Nat
        /\ b.tokensBytes \in Int /\ UInt64Max \in Nat
    BY UInt64MaxAssumption DEF WellTypedQer, TokenBucketState, UInt64
  <1>3. next.tokensBytes <= q.burstBytes
    <2>1. /\ next \in TokenBucketState
          /\ next.tokensBytes <= q.burstBytes \/ next.tokensBytes <= b.tokensBytes
      BY QerNextInRange
    <2>2. next.tokensBytes \in Nat
      BY <2>1, UInt64MaxAssumption DEF TokenBucketState, UInt64
    <2> HIDE DEF next
    <2> QED BY <1>2, <2>1, <2>2
  <1> SUFFICES d.tokensAfter = CASE o = "ALLOW"        -> filled - bytes
                                [] o = "RATE_LIMITED" -> filled
                                [] OTHER              -> d.tokensBefore
    BY <1>1, <1>3 DEF AddsUp
  <1>4. CASE o \in {"ALLOW", "RATE_LIMITED"}
    <2>1. ~ RefillFails(q, b, now)
      BY <1>4 DEF QerOutcome
    <2>2. earned \in Nat
      BY <2>1, RefillIsNat
    <2>3. filled = IF q.burstBytes <= b.tokensBytes + earned THEN q.burstBytes
                   ELSE b.tokensBytes + earned
      <3>1. b.tokensBytes + earned \in Int
        BY <1>2, <2>2
      <3> QED BY <1>1, <1>2, <1>4, <3>1, LeastOfTwo
    <2>4. Refilled(q, b, now).tokensBytes = filled
      <3>1. Refilled(q, b, now).tokensBytes = b.tokensBytes + AddedTokens(q, b, now)
        BY DEF Refilled
      <3>2. Room(q, b) = q.burstBytes - b.tokensBytes
        BY <1>2 DEF Room
      <3>3. AddedTokens(q, b, now) = IF q.burstBytes - b.tokensBytes < earned
                                     THEN q.burstBytes - b.tokensBytes ELSE earned
        BY <3>2 DEF AddedTokens
      <3> HIDE DEF filled, earned
      <3> QED BY <1>2, <2>2, <2>3, <3>1, <3>3
    <2>5. CASE o = "ALLOW"
      <3>1. next = [Refilled(q, b, now) EXCEPT !.tokensBytes = @ - bytes]
        BY <2>5 DEF QerNext
      <3>2. next.tokensBytes = Refilled(q, b, now).tokensBytes - bytes
        BY <3>1 DEF Refilled
      <3> HIDE DEF next, filled, o
      <3> QED BY <1>1, <1>3, <2>4, <2>5, <3>2 DEF next, filled, o
    <2>6. CASE o = "RATE_LIMITED"
      <3>1. next = Refilled(q, b, now)
        BY <2>6 DEF QerNext
      <3> HIDE DEF next, filled, o
      <3> QED BY <1>1, <1>3, <2>4, <2>6, <3>1 DEF next, filled, o
    <2> QED BY <1>4, <2>5, <2>6
  <1>5. CASE o \notin {"ALLOW", "RATE_LIMITED"}
    <2>1. next = b
      BY <1>5 DEF QerNext
    <2> HIDE DEF next, filled, o
    <2> QED BY <1>1, <1>3, <1>5, <2>1 DEF next, filled, o
  <1> QED BY <1>4, <1>5

\* The results whose packet leaves its charged bucket behind.
StoredResults == CommittedResults \cup {"RATE_LIMITED"}

\* What a decision leaves in the bucket (counters) that it is about.
TokensFrom(d) ==
  IF d.result \in StoredResults THEN Value(d.qer).tokensAfter ELSE Value(d.qer).tokensBefore

UsageFrom(d) ==
  LET u == Value(d.urr)
  IN  IF d.result \in CommittedResults
      THEN <<u.packetsAfter, u.bytesAfter>> ELSE <<u.packetsBefore, u.bytesBefore>>

\* What the n-th of some decisions starts from if it is about QER (URR) id: what
\* the last one before left.
TokensIn(ds, burst, id, n) ==
  LET earlier == {k \in 1 .. n - 1 : \E q \in ds[k].qer : q.qerId = id}
  IN  IF earlier = {} THEN burst ELSE TokensFrom(ds[Max(earlier)])

UsageIn(ds, id, n) ==
  LET earlier == {k \in 1 .. n - 1 : \E u \in ds[k].urr : u.urrId = id}
  IN  IF earlier = {} THEN <<0, 0>> ELSE UsageFrom(ds[Max(earlier)])

\* more is ds with the decision d for its n-th.
Continues(more, ds, d, n) ==
  n \in Nat \ {0} /\ more[n] = d /\ \A k \in 1 .. n - 1 : more[k] = ds[k]

\* One decision more leaves alone where the earlier ones start from.
LEMMA StartsStay ==
  ASSUME NEW more, NEW ds, NEW d, NEW n, Continues(more, ds, d, n), NEW k \in 1 .. n
  PROVE  /\ \A burst, id : TokensIn(more, burst, id, k) = TokensIn(ds, burst, id, k)
         /\ \A id : UsageIn(more, id, k) = UsageIn(ds, id, k)
PROOF
  <1>1. /\ \A j \in 1 .. k - 1 : more[j] = ds[j]
        /\ k - 1 \in Nat
    BY DEF Continues
  <1>2. ASSUME NEW S \in SUBSET (1 .. k - 1), S # {} PROVE more[Max(S)] = ds[Max(S)]
    <2>1. Max(S) \in S
      BY <1>1, <1>2, GreatestMember
    <2> QED BY <1>1, <2>1
  <1>3. ASSUME NEW burst, NEW id
        PROVE  TokensIn(more, burst, id, k) = TokensIn(ds, burst, id, k)
    <2> DEFINE S == {j \in 1 .. k - 1 : \E q \in ds[j].qer : q.qerId = id}
    <2>1. S = {j \in 1 .. k - 1 : \E q \in more[j].qer : q.qerId = id}
      BY <1>1
    <2>2. S # {} => more[Max(S)] = ds[Max(S)]
      BY <1>2
    <2> QED BY <2>1, <2>2 DEF TokensIn
  <1>4. ASSUME NEW id PROVE UsageIn(more, id, k) = UsageIn(ds, id, k)
    <2> DEFINE S == {j \in 1 .. k - 1 : \E u \in ds[j].urr : u.urrId = id}
    <2>1. S = {j \in 1 .. k - 1 : \E u \in more[j].urr : u.urrId = id}
      BY <1>1
    <2>2. S # {} => more[Max(S)] = ds[Max(S)]
      BY <1>2
    <2> QED BY <2>1, <2>2 DEF UsageIn
  <1> QED BY <1>3, <1>4

\* The next one starts where the new one leaves off if both are about the same
\* rule, and where the new one would have started otherwise.
LEMMA TokensMove ==
  ASSUME NEW more, NEW ds, NEW d, NEW n, Continues(more, ds, d, n), NEW burst, NEW id
  PROVE  /\ (\A q \in d.qer : q.qerId # id) =>
              TokensIn(more, burst, id, n + 1) = TokensIn(ds, burst, id, n)
         /\ (\E q \in d.qer : q.qerId = id) =>
              TokensIn(more, burst, id, n + 1) = TokensFrom(d)
PROOF
  <1> DEFINE S == {j \in 1 .. n : \E q \in more[j].qer : q.qerId = id}
             T == {j \in 1 .. n - 1 : \E q \in more[j].qer : q.qerId = id}
  <1>1. /\ n \in Nat \ {0} /\ more[n] = d /\ n + 1 - 1 = n /\ n \in 1 .. n
        /\ \A j \in 1 .. n : j = n \/ j \in 1 .. n - 1
        /\ \A j \in 1 .. n - 1 : j \in 1 .. n
    BY DEF Continues
  <1>2. TokensIn(more, burst, id, n + 1) =
          IF S = {} THEN burst ELSE TokensFrom(more[Max(S)])
    BY <1>1 DEF TokensIn
  <1>3. TokensIn(more, burst, id, n) =
          IF T = {} THEN burst ELSE TokensFrom(more[Max(T)])
    BY <1>1 DEF TokensIn
  <1>4. ASSUME \A q \in d.qer : q.qerId # id
        PROVE  TokensIn(more, burst, id, n + 1) = TokensIn(ds, burst, id, n)
    <2>1. S = T
      BY <1>1, <1>4
    <2> HIDE DEF S, T
    <2>2. TokensIn(more, burst, id, n + 1) = TokensIn(more, burst, id, n)
      BY <1>2, <1>3, <2>1
    <2>3. TokensIn(more, burst, id, n) = TokensIn(ds, burst, id, n)
      BY <1>1, StartsStay
    <2> QED BY <2>2, <2>3
  <1>5. ASSUME \E q \in d.qer : q.qerId = id PROVE S # {} /\ more[Max(S)] = d
    <2>1. S \in SUBSET (1 .. n) /\ n \in S
      BY <1>1, <1>5
    <2> HIDE DEF S
    <2>2. Max(S) = n
      BY <1>1, <2>1, GreatestMember
    <2> QED BY <1>1, <2>1, <2>2
  <1> HIDE DEF S
  <1> QED BY <1>2, <1>4, <1>5

LEMMA UsageMoves ==
  ASSUME NEW more, NEW ds, NEW d, NEW n, Continues(more, ds, d, n), NEW id
  PROVE  /\ (\A u \in d.urr : u.urrId # id) => UsageIn(more, id, n + 1) = UsageIn(ds, id, n)
         /\ (\E u \in d.urr : u.urrId = id) =>
              UsageIn(more, id, n + 1) = UsageFrom(d)
PROOF
  <1> DEFINE S == {j \in 1 .. n : \E u \in more[j].urr : u.urrId = id}
             T == {j \in 1 .. n - 1 : \E u \in more[j].urr : u.urrId = id}
  <1>1. /\ n \in Nat \ {0} /\ more[n] = d /\ n + 1 - 1 = n /\ n \in 1 .. n
        /\ \A j \in 1 .. n : j = n \/ j \in 1 .. n - 1
        /\ \A j \in 1 .. n - 1 : j \in 1 .. n
    BY DEF Continues
  <1>2. UsageIn(more, id, n + 1) =
          IF S = {} THEN <<0, 0>> ELSE UsageFrom(more[Max(S)])
    BY <1>1 DEF UsageIn
  <1>3. UsageIn(more, id, n) =
          IF T = {} THEN <<0, 0>> ELSE UsageFrom(more[Max(T)])
    BY <1>1 DEF UsageIn
  <1>4. ASSUME \A u \in d.urr : u.urrId # id
        PROVE  UsageIn(more, id, n + 1) = UsageIn(ds, id, n)
    <2>1. S = T
      BY <1>1, <1>4
    <2> HIDE DEF S, T
    <2>2. UsageIn(more, id, n + 1) = UsageIn(more, id, n)
      BY <1>2, <1>3, <2>1
    <2>3. UsageIn(more, id, n) = UsageIn(ds, id, n)
      BY <1>1, StartsStay
    <2> QED BY <2>2, <2>3
  <1>5. ASSUME \E u \in d.urr : u.urrId = id PROVE S # {} /\ more[Max(S)] = d
    <2>1. S \in SUBSET (1 .. n) /\ n \in S
      BY <1>1, <1>5
    <2> HIDE DEF S
    <2>2. Max(S) = n
      BY <1>1, <2>1, GreatestMember
    <2> QED BY <1>1, <2>1, <2>2
  <1> HIDE DEF S
  <1> QED BY <1>2, <1>4, <1>5

\* No bucket holds more than its burst.
BucketsFilled ==
  \A id \in DOMAIN runtime.qers : runtime.qers[id].tokensBytes <= RuleOf(Active.qers, id).burstBytes

\* What decision d says of its QER is what the step does to its bucket, and
\* no other bucket changes.
QerStep(d) ==
  /\ AtMostOne(d.qer) /\ DOMAIN runtime'.qers = DOMAIN runtime.qers
  /\ \A q \in d.qer : q.qerId \in DOMAIN runtime.qers /\ d.selected # {}
  /\ \A id \in DOMAIN runtime.qers :
       LET burst == RuleOf(Active.qers, id).burstBytes IN
       /\ runtime'.qers[id].tokensBytes <= burst
       /\ (\A q \in d.qer : q.qerId # id) => runtime'.qers[id] = runtime.qers[id]
       /\ \A q \in d.qer : q.qerId = id =>
            /\ q.tokensBefore = runtime.qers[id].tokensBytes /\ AddsUp(q, burst)
            /\ runtime'.qers[id].tokensBytes =
                 IF d.result \in StoredResults THEN q.tokensAfter ELSE q.tokensBefore

Counts(usage) == <<usage.packets, usage.payloadBytes>>

\* The same of its URR and the counters.
UrrStep(d) ==
  /\ AtMostOne(d.urr) /\ DOMAIN runtime'.urrs = DOMAIN runtime.urrs
  /\ \A u \in d.urr : u.urrId \in DOMAIN runtime.urrs
  /\ \A id \in DOMAIN runtime.urrs :
       /\ (\A u \in d.urr : u.urrId # id) => runtime'.urrs[id] = runtime.urrs[id]
       /\ \A u \in d.urr : u.urrId = id =>
            /\ <<u.packetsBefore, u.bytesBefore>> = Counts(runtime.urrs[id])
            /\ Counts(runtime'.urrs[id]) =
                 IF d.result \in CommittedResults THEN <<u.packetsAfter, u.bytesAfter>>
                 ELSE <<u.packetsBefore, u.bytesBefore>>

\* The QER part of a decision, against the bucket before and the charged one.
LEMMA QerPart ==
  ASSUME CoreInv, BucketsFilled, NEW p \in Packets, Acceptable(p), NEW pdr \in Winner(Active, p)
  PROVE  LET c == ChargedQers(pdr, p) IN
         /\ AtMostOne(QerDecisions(pdr, p)) /\ DOMAIN c = DOMAIN runtime.qers
         /\ \A q \in QerDecisions(pdr, p) : q.qerId \in DOMAIN runtime.qers
         /\ \A id \in DOMAIN runtime.qers :
              LET burst == RuleOf(Active.qers, id).burstBytes IN
              /\ c[id].tokensBytes <= burst
              /\ (\A q \in QerDecisions(pdr, p) : q.qerId # id) => c[id] = runtime.qers[id]
              /\ \A q \in QerDecisions(pdr, p) : q.qerId = id =>
                   /\ q.tokensBefore = runtime.qers[id].tokensBytes /\ AddsUp(q, burst)
                   /\ c[id].tokensBytes = q.tokensAfter
PROOF
  <1> DEFINE c == ChargedQers(pdr, p)
             bytes == p.payloadBytes
             now == p.arrivalTimeMicros
             D == QerDecisions(pdr, p)
  <1>1. bytes \in UInt64 /\ now \in UInt64
    BY PacketsAssumption DEF WellTypedPacket
  <1>2. PICK rs \in rules :
           \/ QersOf(pdr) = {}
           \/ \E q : /\ QersOf(pdr) = {q} /\ q = RuleOf(rs.qers, q.id)
                     /\ q.id \in DOMAIN runtime.qers /\ WellTypedQer(q)
    BY SelectedRules
  <1>3. rules = {rs} /\ Active = rs
    BY CoreFacts
  <1>4. CASE QersOf(pdr) = {}
    <2>1. D = {}
      BY <1>4 DEF QerDecisions
    <2>2. c = [id \in DOMAIN runtime.qers |-> runtime.qers[id]]
      BY <1>4 DEF ChargedQers
    <2> HIDE DEF c, D
    <2> QED BY <2>1, <2>2 DEF BucketsFilled, AtMostOne, c, D
  <1>5. CASE QersOf(pdr) # {}
    <2>1. PICK q : /\ QersOf(pdr) = {q} /\ q = RuleOf(Active.qers, q.id)
                   /\ q.id \in DOMAIN runtime.qers /\ WellTypedQer(q)
      BY <1>2, <1>3, <1>5
    <2> DEFINE b == runtime.qers[q.id]
               d == QerDecision(q, b, bytes, now)
               next == QerNext(q, b, bytes, now)
    <2>2. b \in TokenBucketState /\ b.tokensBytes <= q.burstBytes
      BY <2>1 DEF CoreInv, WellTypedRuntime, BucketsFilled
    <2>3. D = {d}
      BY <2>1 DEF QerDecisions
    <2>4. /\ d.qerId = q.id /\ d.tokensBefore = b.tokensBytes /\ d.tokensAfter = next.tokensBytes
          /\ next.tokensBytes <= q.burstBytes /\ AddsUp(d, q.burstBytes)
      BY <1>1, <2>1, <2>2, EquationHolds
    <2>5. /\ c[q.id] = next /\ DOMAIN c = DOMAIN runtime.qers
          /\ \A id \in DOMAIN runtime.qers : id # q.id => c[id] = runtime.qers[id]
      BY <2>1 DEF ChargedQers
    <2> HIDE DEF c, D, d, next
    <2>6. AtMostOne(D) /\ \A x \in D : x.qerId \in DOMAIN runtime.qers
      BY <2>1, <2>3, <2>4 DEF AtMostOne
    <2>7. ASSUME NEW id \in DOMAIN runtime.qers
          PROVE  LET burst == RuleOf(Active.qers, id).burstBytes IN
                 /\ c[id].tokensBytes <= burst
                 /\ (\A x \in D : x.qerId # id) => c[id] = runtime.qers[id]
                 /\ \A x \in D : x.qerId = id =>
                      /\ x.tokensBefore = runtime.qers[id].tokensBytes /\ AddsUp(x, burst)
                      /\ c[id].tokensBytes = x.tokensAfter
      <3>1. CASE id = q.id
        BY <2>1, <2>3, <2>4, <2>5, <3>1
      <3>2. CASE id # q.id
        BY <2>3, <2>4, <2>5, <3>2 DEF BucketsFilled
      <3> QED BY <3>1, <3>2
    <2> QED BY <2>5, <2>6, <2>7 DEF c, D
  <1> QED BY <1>4, <1>5

\* The URR part of a decision, against the counter before and, where the
\* packet is committed, after.
LEMMA UrrPart ==
  ASSUME CoreInv, NEW p \in Packets, Acceptable(p), NEW pdr \in Winner(Active, p)
  PROVE  LET c == CountedUrrs(pdr, p) IN
         /\ AtMostOne(UrrDecisions(pdr, p))
         /\ \A u \in UrrDecisions(pdr, p) :
              /\ u.urrId \in DOMAIN runtime.urrs
              /\ <<u.packetsBefore, u.bytesBefore>> = Counts(runtime.urrs[u.urrId])
         /\ PlanFailures(pdr, p) = {} =>
              /\ DOMAIN c = DOMAIN runtime.urrs
              /\ \A id \in DOMAIN runtime.urrs :
                   /\ (\A u \in UrrDecisions(pdr, p) : u.urrId # id) => c[id] = runtime.urrs[id]
                   /\ \A u \in UrrDecisions(pdr, p) : u.urrId = id =>
                        Counts(c[id]) = <<u.packetsAfter, u.bytesAfter>>
PROOF
  <1> DEFINE c == CountedUrrs(pdr, p)
             D == UrrDecisions(pdr, p)
  <1>1. AtMostOne(D)
    BY UrrNamed
  <1>2. ASSUME NEW d \in D
        PROVE  /\ d.urrId \in DOMAIN runtime.urrs
               /\ <<d.packetsBefore, d.bytesBefore>> = Counts(runtime.urrs[d.urrId])
    <2>1. PICK u, rs : /\ u.id \in DOMAIN runtime.urrs
                       /\ d = UrrDecision(u, runtime.urrs[u.id], p.payloadBytes,
                                          rs.sessionId, rs.version)
      BY UrrNamed
    <2>2. /\ d.urrId = u.id /\ d.packetsBefore = runtime.urrs[u.id].packets
          /\ d.bytesBefore = runtime.urrs[u.id].payloadBytes
      BY <2>1 DEF UrrDecision
    <2> QED BY <2>1, <2>2 DEF Counts
  <1>3. ASSUME PlanFailures(pdr, p) = {}
        PROVE  /\ DOMAIN c = DOMAIN runtime.urrs
               /\ \A id \in DOMAIN runtime.urrs :
                    /\ (\A u \in D : u.urrId # id) => c[id] = runtime.urrs[id]
                    /\ \A u \in D : u.urrId = id => Counts(c[id]) = <<u.packetsAfter, u.bytesAfter>>
    <2>1. DOMAIN c = DOMAIN runtime.urrs
      BY <1>3, Counted
    <2>2. CASE D = {} /\ c = runtime.urrs
      BY <2>1, <2>2
    <2>3. CASE ~ (D = {} /\ c = runtime.urrs)
      <3> DEFINE bytes == p.payloadBytes
      <3>1. PICK rs \in rules, u \in UrrsOf(pdr) :
              /\ runtime.urrs[u.id] \in UsageCounterState
              /\ ~ UrrOverflows(runtime.urrs[u.id], bytes)
              /\ D = {UrrDecision(u, runtime.urrs[u.id], bytes, rs.sessionId, rs.version)}
              /\ c[u.id] = UrrNext(u, runtime.urrs[u.id], bytes)
              /\ \A id \in DOMAIN runtime.urrs : id # u.id => c[id] = runtime.urrs[id]
        BY <1>3, <2>3, Counted
      <3> DEFINE usage == runtime.urrs[u.id]
                 d == UrrDecision(u, usage, bytes, rs.sessionId, rs.version)
      <3>2. /\ d.urrId = u.id /\ d.packetsAfter = usage.packets + 1
            /\ d.bytesAfter = usage.payloadBytes + bytes
        BY <3>1 DEF UrrDecision
      <3>3. bytes \in UInt64
        BY PacketsAssumption DEF WellTypedPacket
      <3>4. /\ c[u.id].packets = usage.packets + 1
            /\ c[u.id].payloadBytes = usage.payloadBytes + bytes
        BY <3>1, <3>3, UrrNextInRange
      <3>5. D = {d}
        BY <3>1
      <3>6. Counts(c[u.id]) = <<d.packetsAfter, d.bytesAfter>>
        BY <3>2, <3>4 DEF Counts
      <3> HIDE DEF c, D, d
      <3> QED BY <2>1, <3>1, <3>2, <3>5, <3>6
    <2> QED BY <2>2, <2>3
  <1> HIDE DEF c, D
  <1> QED BY <1>1, <1>2, <1>3 DEF c, D

\* A part that does not apply, and a state that does not change.
LEMMA NoPart ==
  ASSUME CoreInv, BucketsFilled
  PROVE  /\ \A d : d.qer = {} /\ runtime'.qers = runtime.qers => QerStep(d)
         /\ \A d : d.urr = {} /\ runtime'.urrs = runtime.urrs => UrrStep(d)
PROOF
  BY DEF QerStep, UrrStep, BucketsFilled, AtMostOne

\* The decision of a packet that is not refused for lack of space tells what
\* the call does to the buckets and counters.
LEMMA DecisionTells ==
  ASSUME CoreInv, BucketsFilled, HasResultSpace, NEW p \in Packets, Process(p)
  PROVE  \E d : IsDecision(d) /\ Retain(d) /\ QerStep(d) /\ UrrStep(d)
PROOF
  <1>1. CASE RejectUnacceptable(p) \/ RejectUnmatched(p)
    <2>1. PICK early \in {Received(p), Matched(p)} : \E r : Retain(With(early, r))
      BY <1>1 DEF RejectUnacceptable, RejectUnmatched
    <2>2. PICK r : Retain(With(early, r))
      BY <2>1
    <2>3. IsDecision(early) /\ early.qer = {} /\ early.urr = {}
      <3>1. /\ IsDecision(Received(p)) /\ Received(p).qer = {} /\ Received(p).urr = {}
            /\ IsDecision(Matched(p)) /\ Matched(p).qer = {} /\ Matched(p).urr = {}
        BY DecisionStages
      <3> QED BY <2>1, <3>1
    <2> DEFINE d == With(early, r)
    <2>4. IsDecision(d) /\ d.qer = {} /\ d.urr = {}
      BY <2>3, ResultSet
    <2>5. runtime' = runtime
      BY <1>1 DEF RejectUnacceptable, RejectUnmatched
    <2> HIDE DEF d
    <2>6. QerStep(d) /\ UrrStep(d)
      BY <2>4, <2>5, NoPart
    <2> QED BY <2>2, <2>4, <2>6 DEF d
  <1>2. CASE RejectByQer(p)
    <2>1. PICK pdr, r :
            /\ pdr \in Winner(Active, p) /\ r \in QerFailures(pdr, p)
            /\ Retain(With(Selected(pdr, p), r))
            /\ runtime' = IF r = "RATE_LIMITED"
                          THEN [runtime EXCEPT !.qers = ChargedQers(pdr, p)] ELSE runtime
      BY <1>2 DEF RejectByQer
    <2> DEFINE d == With(Selected(pdr, p), r)
               c == ChargedQers(pdr, p)
    <2>2. Acceptable(p)
      BY <1>2 DEF RejectByQer
    <2>3. /\ IsDecision(d) /\ d.selected = {pdr.id} /\ d.qer = QerDecisions(pdr, p)
          /\ d.urr = {} /\ d.result = r
      <3>1. /\ IsDecision(Selected(pdr, p)) /\ Selected(pdr, p).selected = {pdr.id}
            /\ Selected(pdr, p).qer = QerDecisions(pdr, p) /\ Selected(pdr, p).urr = {}
        BY DecisionStages
      <3> QED BY <3>1, ResultSet
    <2>4. r \notin CommittedResults
      BY <2>1, <2>2, Charged DEF CommittedResults
    <2>5. Retain(d)
      BY <2>1
    <2>6. /\ runtime'.urrs = runtime.urrs
          /\ runtime'.qers = IF r = "RATE_LIMITED" THEN c ELSE runtime.qers
      <3>1. WellTypedRuntime(runtime)
        BY DEF CoreInv
      <3> HIDE DEF c
      <3> QED BY <2>1, <3>1 DEF WellTypedRuntime, c
    <2> HIDE DEF d
    <2>7. UrrStep(d)
      BY <2>3, <2>6, NoPart
    <2>8. QerStep(d)
      <3>1. r \in StoredResults <=> r = "RATE_LIMITED"
        BY <2>4 DEF StoredResults
      <3>2. CASE r = "RATE_LIMITED"
        <4>1. runtime'.qers = c
          BY <2>6, <3>2
        <4> HIDE DEF c
        <4> QED BY <2>1, <2>2, <2>3, <3>1, <3>2, <4>1, QerPart DEF QerStep, c
      <3>3. CASE r # "RATE_LIMITED"
        <4>1. runtime'.qers = runtime.qers
          BY <2>6, <3>3
        <4> QED BY <2>1, <2>2, <2>3, <3>1, <3>3, <4>1, QerPart DEF QerStep, BucketsFilled
      <3> QED BY <3>2, <3>3
    <2> QED BY <2>3, <2>5, <2>7, <2>8
  <1>3. CASE RejectByPlan(p)
    <2>1. PICK pdr, r : /\ pdr \in Winner(Active, p) /\ r \in PlanFailures(pdr, p)
                        /\ Retain(With(Planned(pdr, p), r))
      BY <1>3 DEF RejectByPlan
    <2> DEFINE d == With(Planned(pdr, p), r)
    <2>2. Acceptable(p) /\ runtime' = runtime
      BY <1>3 DEF RejectByPlan
    <2>3. FarValid(FarOf(pdr), p)
      BY <2>1, <2>2, SelectedRules, FittingFar
    <2>4. /\ IsDecision(d) /\ d.selected = {pdr.id} /\ d.qer = QerDecisions(pdr, p)
          /\ d.urr = UrrDecisions(pdr, p) /\ d.result = r
      <3>1. /\ IsDecision(Planned(pdr, p)) /\ Planned(pdr, p).selected = {pdr.id}
            /\ Planned(pdr, p).qer = QerDecisions(pdr, p)
            /\ Planned(pdr, p).urr = UrrDecisions(pdr, p)
        BY <2>3, DecisionStages
      <3> QED BY <3>1, ResultSet
    <2>5. r \notin StoredResults /\ r \notin CommittedResults
      <3>1. r \in {"MALFORMED_PACKET", "ARITHMETIC_ERROR", "CAPACITY_ERROR"}
        BY <2>1 DEF PlanFailures
      <3> QED BY <3>1 DEF StoredResults, CommittedResults
    <2>6. Retain(d)
      BY <2>1
    <2> HIDE DEF d
    <2>7. QerStep(d)
      BY <2>1, <2>2, <2>4, <2>5, QerPart DEF QerStep, BucketsFilled
    <2>8. UrrStep(d)
      BY <2>1, <2>2, <2>4, <2>5, UrrPart DEF UrrStep
    <2> QED BY <2>4, <2>6, <2>7, <2>8
  <1>4. CASE Accept(p)
    <2>1. PICK pdr \in Winner(Active, p) : PlanFailures(pdr, p) = {} /\ Commit(pdr, p)
      BY <1>4 DEF Accept
    <2>2. Acceptable(p)
      BY <1>4 DEF Accept
    <2>3. FarValid(FarOf(pdr), p)
      BY <2>2, SelectedRules, FittingFar
    <2>4. PICK d \in {With(Planned(pdr, p), "FAR_DROPPED"), Forwarded(pdr, p)} : Retain(d)
      BY <2>1 DEF Commit
    <2>5. /\ IsDecision(d) /\ d.selected = {pdr.id} /\ d.qer = QerDecisions(pdr, p)
          /\ d.urr = UrrDecisions(pdr, p)
          /\ d.result \in {"FAR_DROPPED", "FORWARDED_TO_N3", "FORWARDED_TO_N6"}
      <3> DEFINE e == With(Planned(pdr, p), "FAR_DROPPED")
      <3>1. /\ IsDecision(Planned(pdr, p)) /\ Planned(pdr, p).selected = {pdr.id}
            /\ Planned(pdr, p).qer = QerDecisions(pdr, p)
            /\ Planned(pdr, p).urr = UrrDecisions(pdr, p)
        BY <2>3, DecisionStages
      <3>2. /\ IsDecision(e) /\ e.selected = {pdr.id} /\ e.qer = QerDecisions(pdr, p)
            /\ e.urr = UrrDecisions(pdr, p) /\ e.result = "FAR_DROPPED"
        BY <3>1, ResultSet
      <3>3. /\ IsDecision(Forwarded(pdr, p)) /\ Forwarded(pdr, p).selected = {pdr.id}
            /\ Forwarded(pdr, p).qer = QerDecisions(pdr, p)
            /\ Forwarded(pdr, p).urr = UrrDecisions(pdr, p)
            /\ Forwarded(pdr, p).result \in {"FORWARDED_TO_N3", "FORWARDED_TO_N6"}
        BY <2>3, DecisionStages
      <3> HIDE DEF e
      <3> QED BY <2>4, <3>2, <3>3 DEF e
    <2>6. d.result \in CommittedResults /\ d.result \in StoredResults
      BY <2>5 DEF StoredResults, CommittedResults
    <2> DEFINE c == ChargedQers(pdr, p)
               e == CountedUrrs(pdr, p)
    <2>7. runtime'.qers = c /\ runtime'.urrs = e
      <3>1. WellTypedRuntime(runtime)
        BY DEF CoreInv
      <3>2. runtime' = [runtime EXCEPT !.qers = c, !.urrs = e]
        BY <2>1 DEF Commit
      <3> HIDE DEF c, e
      <3> QED BY <3>1, <3>2 DEF WellTypedRuntime
    <2> HIDE DEF c, e
    <2>8. QerStep(d)
      BY <2>2, <2>5, <2>6, <2>7, QerPart DEF QerStep, c
    <2>9. UrrStep(d)
      BY <2>1, <2>2, <2>5, <2>6, <2>7, UrrPart DEF UrrStep, e
    <2> QED BY <2>4, <2>5, <2>8, <2>9
  <1>5. ~ RejectFull(p)
    BY DEF RejectFull
  <1> QED BY <1>1, <1>2, <1>3, <1>4, <1>5 DEF Process

\* The printed decisions tell the whole story of each bucket and counter: the
\* runtime state is where the next decision starts from.
ExplainInv ==
  LET ds   == result.decisions
      next == Len(ds) + 1
  IN  /\ BucketsFilled
      /\ \A id \in DOMAIN runtime.qers :
           runtime.qers[id].tokensBytes
             = TokensIn(ds, RuleOf(Active.qers, id).burstBytes, id, next)
      /\ \A id \in DOMAIN runtime.urrs : Counts(runtime.urrs[id]) = UsageIn(ds, id, next)
      /\ \A k \in DOMAIN ds :
           /\ AtMostOne(ds[k].qer) /\ AtMostOne(ds[k].urr)
           /\ \A q \in ds[k].qer :
                LET burst == RuleOf(Active.qers, q.qerId).burstBytes
                IN  /\ ds[k].selected # {} /\ AddsUp(q, burst)
                    /\ q.tokensBefore = TokensIn(ds, burst, q.qerId, k)
           /\ \A u \in ds[k].urr :
                <<u.packetsBefore, u.bytesBefore>> = UsageIn(ds, u.urrId, k)

\* A decision that tells what the call does continues the story.
LEMMA StoryGoesOn ==
  ASSUME ExplainInv, IsSeq(result.decisions), rules' = rules,
         NEW d, QerStep(d), UrrStep(d), result'.decisions = Append(result.decisions, d)
  PROVE  ExplainInv'
PROOF
  <1> DEFINE ds == result.decisions
             more == Append(ds, d)
             n == Len(ds) + 1
             Burst(id) == RuleOf(Active.qers, id).burstBytes
  <1>1. /\ n \in Nat \ {0} /\ IsSeq(ds) /\ IsSeq(more) /\ DOMAIN ds = 1 .. n - 1
        /\ Len(ds) = n - 1 /\ Len(more) = n /\ DOMAIN more = 1 .. n
        /\ \A k \in 1 .. n - 1 : more[k] = ds[k]
        /\ more[n] = d /\ result'.decisions = more
    BY Appended
  <1>2. Active' = Active
    BY DEF Active
  <1>3. Continues(more, ds, d, n)
    BY <1>1 DEF Continues
  <1>4. /\ BucketsFilled
        /\ \A id \in DOMAIN runtime.qers :
             runtime.qers[id].tokensBytes = TokensIn(ds, Burst(id), id, n)
        /\ \A id \in DOMAIN runtime.urrs : Counts(runtime.urrs[id]) = UsageIn(ds, id, n)
        /\ \A k \in DOMAIN ds :
             /\ AtMostOne(ds[k].qer) /\ AtMostOne(ds[k].urr)
             /\ \A q \in ds[k].qer :
                  /\ ds[k].selected # {} /\ AddsUp(q, Burst(q.qerId))
                  /\ q.tokensBefore = TokensIn(ds, Burst(q.qerId), q.qerId, k)
             /\ \A u \in ds[k].urr :
                  <<u.packetsBefore, u.bytesBefore>> = UsageIn(ds, u.urrId, k)
    BY DEF ExplainInv
  <1> HIDE DEF ds, more, n, Burst
  <1>5. ASSUME NEW S, AtMostOne(S), NEW v \in S PROVE Value(S) = v
    BY <1>5, ValueOfSingleton DEF AtMostOne
  <1>6. ASSUME NEW id \in DOMAIN runtime'.qers
        PROVE  /\ runtime'.qers[id].tokensBytes <= Burst(id)
               /\ runtime'.qers[id].tokensBytes = TokensIn(more, Burst(id), id, n + 1)
    <2>1. id \in DOMAIN runtime.qers /\ AtMostOne(d.qer)
      BY DEF QerStep
    <2>2. /\ runtime'.qers[id].tokensBytes <= Burst(id)
          /\ (\A q \in d.qer : q.qerId # id) => runtime'.qers[id] = runtime.qers[id]
          /\ \A q \in d.qer : q.qerId = id =>
               runtime'.qers[id].tokensBytes =
                 IF d.result \in StoredResults THEN q.tokensAfter ELSE q.tokensBefore
      BY <2>1 DEF QerStep, Burst
    <2>3. CASE \A q \in d.qer : q.qerId # id
      <3>1. TokensIn(more, Burst(id), id, n + 1) = TokensIn(ds, Burst(id), id, n)
        BY <1>3, <2>3, TokensMove
      <3> QED BY <1>4, <2>1, <2>2, <2>3, <3>1
    <2>4. ASSUME NEW q \in d.qer, q.qerId = id
          PROVE  runtime'.qers[id].tokensBytes = TokensIn(more, Burst(id), id, n + 1)
      <3>1. Value(d.qer) = q
        BY <1>5, <2>1
      <3>2. TokensIn(more, Burst(id), id, n + 1) = TokensFrom(d)
        BY <1>3, <2>4, TokensMove
      <3> QED BY <2>2, <2>4, <3>1, <3>2 DEF TokensFrom
    <2> QED BY <2>2, <2>3, <2>4
  <1>7. ASSUME NEW id \in DOMAIN runtime'.urrs
        PROVE  Counts(runtime'.urrs[id]) = UsageIn(more, id, n + 1)
    <2>1. id \in DOMAIN runtime.urrs /\ AtMostOne(d.urr)
      BY DEF UrrStep
    <2>2. /\ (\A u \in d.urr : u.urrId # id) => runtime'.urrs[id] = runtime.urrs[id]
          /\ \A u \in d.urr : u.urrId = id =>
               Counts(runtime'.urrs[id]) =
                 IF d.result \in CommittedResults THEN <<u.packetsAfter, u.bytesAfter>>
                 ELSE <<u.packetsBefore, u.bytesBefore>>
      BY <2>1 DEF UrrStep
    <2>3. CASE \A u \in d.urr : u.urrId # id
      <3>1. UsageIn(more, id, n + 1) = UsageIn(ds, id, n)
        BY <1>3, <2>3, UsageMoves
      <3> QED BY <1>4, <2>1, <2>2, <2>3, <3>1
    <2>4. ASSUME NEW u \in d.urr, u.urrId = id
          PROVE  Counts(runtime'.urrs[id]) = UsageIn(more, id, n + 1)
      <3>1. Value(d.urr) = u
        BY <1>5, <2>1
      <3>2. UsageIn(more, id, n + 1) = UsageFrom(d)
        BY <1>3, <2>4, UsageMoves
      <3> QED BY <2>2, <2>4, <3>1, <3>2 DEF UsageFrom
    <2> QED BY <2>3, <2>4
  <1>8. ASSUME NEW k \in DOMAIN more
        PROVE  /\ AtMostOne(more[k].qer) /\ AtMostOne(more[k].urr)
               /\ \A q \in more[k].qer :
                    /\ more[k].selected # {} /\ AddsUp(q, Burst(q.qerId))
                    /\ q.tokensBefore = TokensIn(more, Burst(q.qerId), q.qerId, k)
               /\ \A u \in more[k].urr :
                    <<u.packetsBefore, u.bytesBefore>> = UsageIn(more, u.urrId, k)
    <2>1. k \in 1 .. n /\ (k = n \/ k \in DOMAIN ds)
      BY <1>1
    <2>2. \A burst, id : /\ TokensIn(more, burst, id, k) = TokensIn(ds, burst, id, k)
                         /\ UsageIn(more, id, k) = UsageIn(ds, id, k)
      BY <1>3, <2>1, StartsStay
    <2>3. CASE k \in DOMAIN ds
      <3>1. more[k] = ds[k]
        BY <1>1, <2>3
      <3> QED BY <1>4, <2>2, <2>3, <3>1
    <2>4. CASE k = n
      <3>1. AtMostOne(d.qer) /\ AtMostOne(d.urr)
        BY DEF QerStep, UrrStep
      <3>2. ASSUME NEW q \in d.qer
            PROVE  /\ d.selected # {} /\ AddsUp(q, Burst(q.qerId))
                   /\ q.tokensBefore = TokensIn(ds, Burst(q.qerId), q.qerId, n)
        <4>1. /\ q.qerId \in DOMAIN runtime.qers /\ d.selected # {}
              /\ q.tokensBefore = runtime.qers[q.qerId].tokensBytes
              /\ AddsUp(q, Burst(q.qerId))
          BY DEF QerStep, Burst
        <4> QED BY <1>4, <4>1
      <3>3. ASSUME NEW u \in d.urr
            PROVE  <<u.packetsBefore, u.bytesBefore>> = UsageIn(ds, u.urrId, n)
        <4>1. /\ u.urrId \in DOMAIN runtime.urrs
              /\ <<u.packetsBefore, u.bytesBefore>> = Counts(runtime.urrs[u.urrId])
          BY DEF UrrStep
        <4> QED BY <1>4, <4>1
      <3>4. more[k] = d
        BY <1>1, <2>4
      <3> QED BY <2>2, <2>4, <3>1, <3>2, <3>3, <3>4
    <2> QED BY <2>1, <2>3, <2>4
  <1>9. /\ Len(more) + 1 = n + 1
        /\ \A id : RuleOf(Active'.qers, id).burstBytes = Burst(id)
    BY <1>1, <1>2 DEF Burst
  <1> QED BY <1>1, <1>6, <1>7, <1>8, <1>9 DEF ExplainInv, BucketsFilled

\* A state with the same ruleset, runtime state and decisions has the same story.
LEMMA SameStory ==
  ASSUME ExplainInv, rules' = rules, runtime' = runtime, result'.decisions = result.decisions
  PROVE  ExplainInv'
PROOF
  <1>1. Active' = Active
    BY DEF Active
  <1> QED BY <1>1 DEF ExplainInv, BucketsFilled

\* The story begins without a ruleset.
LEMMA EmptyStory ==
  ASSUME runtime = NoRuntime, result.decisions = <<>>
  PROVE  ExplainInv
PROOF
  <1>1. DOMAIN runtime.qers = {} /\ DOMAIN runtime.urrs = {} /\ DOMAIN result.decisions = {}
    BY EmptyIsSeq DEF NoRuntime
  <1> QED BY <1>1 DEF ExplainInv, BucketsFilled

\* The one ruleset of a run gives full buckets and counters at zero.
LEMMA FirstInstall ==
  ASSUME CoreInv, rules = {}, NEW rs \in RuleSets, Install(rs), result'.decisions = <<>>
  PROVE  ExplainInv'
PROOF
  <1>1. runtime = NoRuntime /\ runtime' = Migrated(runtime, rs) /\ rules' = {rs}
    BY DEF CoreInv, Install
  <1>2. Active' = rs
    BY <1>1, ValueOfSingleton DEF Active
  <1>3. DOMAIN NoRuntime.qers = {} /\ DOMAIN NoRuntime.urrs = {}
    BY EmptyIsSeq DEF NoRuntime
  <1>4. /\ runtime'.qers = [id \in Ids(rs.qers) |-> FreshBucket(RuleOf(rs.qers, id))]
        /\ runtime'.urrs = [id \in Ids(rs.urrs) |-> FreshUsage]
    BY <1>1, <1>3 DEF Migrated, Survives
  <1>5. DOMAIN result'.decisions = {} /\ Len(result'.decisions) + 1 = 1
    BY EmptyIsSeq
  <1>6. \A burst, id : TokensIn(result'.decisions, burst, id, 1) = burst
    BY DEF TokensIn
  <1>7. \A id : UsageIn(result'.decisions, id, 1) = <<0, 0>>
    BY DEF UsageIn
  <1>8. ASSUME NEW id \in DOMAIN runtime'.qers
        PROVE  /\ runtime'.qers[id].tokensBytes = RuleOf(rs.qers, id).burstBytes
               /\ runtime'.qers[id].tokensBytes <= RuleOf(rs.qers, id).burstBytes
    <2>1. runtime'.qers[id].tokensBytes = RuleOf(rs.qers, id).burstBytes
      BY <1>4 DEF FreshBucket
    <2>2. RuleOf(rs.qers, id).burstBytes \in Int
      <3>1. WellTypedRuleSet(rs) /\ ValidateRuleSet(rs) /\ id \in Ids(rs.qers)
        BY <1>4, RuleSetsAssumption DEF Install
      <3>2. \E x \in DOMAIN rs.qers : RuleOf(rs.qers, id) = rs.qers[x]
        BY <3>1, RuleOfId, ValidListsAreUnique DEF WellTypedRuleSet
      <3> QED BY <3>1, <3>2, UInt64MaxAssumption DEF WellTypedRuleSet, WellTypedQer, UInt64
    <2> QED BY <2>1, <2>2
  <1>9. ASSUME NEW id \in DOMAIN runtime'.urrs PROVE Counts(runtime'.urrs[id]) = <<0, 0>>
    BY <1>4 DEF FreshUsage, Counts
  <1> QED BY <1>2, <1>5, <1>6, <1>7, <1>8, <1>9 DEF ExplainInv, BucketsFilled

\* A packet continues the story, refused or not.
LEMMA ProcessTells ==
  ASSUME RunInv, FilesInv, IInv, ExplainInv, ProcessPacket
  PROVE  ExplainInv'
PROOF
  <1> DEFINE p == PacketOf(PacketsDoc.packets[Done + 1])
             d == IF HasResultSpace THEN decisions'[Len(decisions')] ELSE Refused(p)
  <1>1. p \in Packets
    <2>1. /\ IsVector(PacketsDoc.packets)
          /\ \A k \in DOMAIN PacketsDoc.packets : PacketOf(PacketsDoc.packets[k]) \in Packets
      BY ReadInputs DEF ProcessPacket
    <2>2. Done \in Nat /\ Done < Len(PacketsDoc.packets)
      BY Appended DEF ProcessPacket, Done, RunInv
    <2>3. Done + 1 \in DOMAIN PacketsDoc.packets
      BY <2>1, <2>2 DEF IsVector
    <2> QED BY <2>1, <2>3
  <1>2. /\ Process(p) /\ rules' = rules /\ IsSeq(result.decisions)
        /\ result' = [result EXCEPT !.decisions = Append(result.decisions, d)]
    BY DEF ProcessPacket, RunInv
  <1>3. CoreInv /\ BucketsFilled
    BY DEF IInv, ExplainInv
  <1> HIDE DEF p, d
  <1>4. result'.decisions = Append(result.decisions, d)
    BY <1>2 DEF RunInv, IsResult
  <1>5. QerStep(d) /\ UrrStep(d)
    <2>1. CASE ~ HasResultSpace
      <3>1. runtime' = runtime
        BY <1>2, <2>1 DEF Process, RejectFull, RejectUnacceptable, RejectUnmatched, RejectByQer,
                          RejectByPlan, Accept
      <3>2. d = Refused(p)
        BY <2>1 DEF d
      <3>3. IsDecision(Received(p)) /\ Received(p).qer = {} /\ Received(p).urr = {}
        BY DecisionStages
      <3>4. Refused(p).qer = {} /\ Refused(p).urr = {}
        BY <3>3, ResultSet DEF Refused
      <3> QED BY <1>3, <3>1, <3>2, <3>4, NoPart
    <2>2. CASE HasResultSpace
      <3>1. PICK e : IsDecision(e) /\ Retain(e) /\ QerStep(e) /\ UrrStep(e)
        BY <1>1, <1>2, <1>3, <2>2, DecisionTells
      <3>2. d = decisions'[Len(decisions')]
        BY <2>2 DEF d
      <3>3. /\ d.selected = e.selected /\ d.qer = e.qer /\ d.urr = e.urr
            /\ d.result = e.result
        BY <1>3, <3>1, <3>2, Retained DEF CoreInv
      <3>4. QerStep(d)
        BY <3>1, <3>3 DEF QerStep
      <3>5. UrrStep(d)
        BY <3>1, <3>3 DEF UrrStep
      <3> QED BY <3>4, <3>5
    <2> QED BY <2>1, <2>2
  <1> QED BY <1>2, <1>4, <1>5, StoryGoesOn

\* Every step of runFiles, and of the process around it, keeps to the story.
LEMMA RunTells == RunInv /\ FilesInv /\ IInv /\ ExplainInv /\ RunNext => ExplainInv'
PROOF
  <1> SUFFICES ASSUME RunInv, FilesInv, IInv, ExplainInv, RunNext PROVE ExplainInv'
    OBVIOUS
  <1>1. CASE Read \/ NameRun
    BY <1>1, SameStory DEF Read, NameRun, vars
  <1>2. CASE InstallRules
    <2>1. result'.decisions = <<>> /\ result'.decisions = result.decisions /\ rules = {}
      BY <1>2 DEF InstallRules, RunInv, NewResult
    <2>2. CASE Install(RuleSetOf(RulesDoc))
      BY <1>2, <2>1, <2>2, ReadInputs, FirstInstall DEF IInv, InstallRules
    <2>3. CASE RefuseInstall(RuleSetOf(RulesDoc))
      BY <2>1, <2>3, SameStory DEF RefuseInstall
    <2> QED BY <1>2, <2>2, <2>3 DEF InstallRules
  <1>3. CASE ProcessPacket
    BY <1>3, ProcessTells
  <1>4. CASE Finish
    <2>1. result'.decisions = result.decisions
      BY <1>4 DEF Finish, RunInv, IsResult
    <2> QED BY <1>4, <2>1, SameStory DEF Finish, vars
  <1> QED BY <1>1, <1>2, <1>3, <1>4 DEF RunNext

LEMMA CliTells == CliInv /\ FilesInv /\ IInv /\ ExplainInv /\ [CliNext]_cliVars => ExplainInv'
PROOF
  <1> SUFFICES ASSUME CliInv, FilesInv, IInv, ExplainInv, [CliNext]_cliVars PROVE ExplainInv'
    OBVIOUS
  <1>1. CASE UNCHANGED runVars
    BY <1>1, SameStory DEF runVars, vars
  <1>2. CASE StartFiles
    BY <1>2, SameStory DEF StartFiles, Start, vars
  <1>3. CASE RunNext
    BY <1>3, RunTells DEF CliInv
  <1> QED BY <1>1, <1>2, <1>3 DEF CliNext, cliVars

\* What a reader of the output sees of a decision.
LEMMA PrintedParts ==
  ASSUME NEW k \in DOMAIN result.decisions
  PROVE  LET d     == result.decisions[k]
             human == RenderHuman(result)[k]
             json  == RenderJson(result).decisions[k]
         IN  /\ json.qer = d.qer /\ json.urr = d.urr
             /\ d.selected # {} => human.outcome = OutcomeJson(d)
             /\ \A equation \in human.equation : \E q \in d.qer :
                  /\ equation[1] = q.tokensBefore /\ equation[2] = q.refillBytes
                  /\ equation[3] = q.packetChargeBytes /\ equation[4] = q.tokensAfter
             /\ d.urr # {} => <<human.urr[1], human.urr[3]>>
                                = <<Value(d.urr).packetsBefore, Value(d.urr).bytesBefore>>
PROOF
  <1> DEFINE d == result.decisions[k]
             human == RenderHuman(result)[k]
             json == RenderJson(result).decisions[k]
  <1>1. json = DecisionJson(d)
    BY DEF RenderJson
  <1>2. json.qer = d.qer /\ json.urr = d.urr
    BY <1>1 DEF DecisionJson
  <1>3. /\ human.outcome = IF d.selected = {} THEN "" ELSE OutcomeJson(d)
        /\ human.equation = {<<q.tokensBefore, q.refillBytes, q.packetChargeBytes, q.tokensAfter>> :
                               q \in d.qer}
        /\ human.urr = IF d.urr = {} THEN <<0, 0, 0, 0>>
                       ELSE LET u == Value(d.urr)
                            IN  <<u.packetsBefore, u.packetsAfter, u.bytesBefore, u.bytesAfter>>
    BY DEF RenderHuman
  <1> HIDE DEF d, human, json
  <1>4. ASSUME NEW equation \in human.equation
        PROVE  \E q \in d.qer : /\ equation[1] = q.tokensBefore /\ equation[2] = q.refillBytes
                                /\ equation[3] = q.packetChargeBytes
                                /\ equation[4] = q.tokensAfter
    <2>1. PICK q \in d.qer :
            equation = <<q.tokensBefore, q.refillBytes, q.packetChargeBytes, q.tokensAfter>>
      BY <1>3
    <2> QED BY <2>1
  <1>5. ASSUME d.urr # {}
        PROVE  /\ human.urr[1] = Value(d.urr).packetsBefore
               /\ human.urr[3] = Value(d.urr).bytesBefore
    <2> DEFINE u == Value(d.urr)
    <2>1. human.urr = <<u.packetsBefore, u.packetsAfter, u.bytesBefore, u.bytesAfter>>
      BY <1>3, <1>5
    <2> HIDE DEF u
    <2>2. human.urr[1] = u.packetsBefore /\ human.urr[3] = u.bytesBefore
      BY <2>1
    <2> QED BY <2>2 DEF u
  <1> QED BY <1>2, <1>3, <1>4, <1>5 DEF d, human, json

-----------------------------------------------------------------------------
(* Prefixes, byte by byte.                                                 *)

\* A set with 0 in it, and with the next of every number up to m it has, has
\* all of them.
LEMMA UpTo ==
  ASSUME NEW m \in Nat, NEW S, 0 \in S, \A n \in 0 .. m - 1 : n \in S => n + 1 \in S
  PROVE  \A n \in 0 .. m : n \in S
PROOF
  <1> DEFINE missing == {n \in 0 .. m : n \notin S}
             least == Min(missing)
  <1>1. ASSUME missing # {} PROVE FALSE
    <2>1. missing \in SUBSET Nat
      OBVIOUS
    <2>2. least \in missing /\ \A y \in missing : least <= y
      BY <1>1, <2>1, LeastMember
    <2> HIDE DEF least
    <2>3. /\ least \in Nat /\ least # 0 /\ least <= m /\ least \notin S
      BY <2>2
    <2>4. least - 1 \in 0 .. m - 1 /\ least - 1 + 1 = least /\ ~ (least <= least - 1)
      BY <2>3
    <2>5. least - 1 \in S
      BY <2>2, <2>4
    <2> QED BY <2>3, <2>4, <2>5
  <1> QED BY <1>1

\* A function that doubles its last value and adds a term of d.
Doubles(f, m, c, d) == f = [n \in 0 .. m |-> IF n = 0 THEN c ELSE 2 * f[n - 1] + d[n]]

LEMMA DoublingExists ==
  ASSUME NEW m \in Nat, NEW c, NEW d
  PROVE  \E f : Doubles(f, m, c, d)
PROOF
  <1> DEFINE S == {n \in 0 .. m : \E f : Doubles(f, n, c, d)}
  <1>1. 0 \in S
    <2> DEFINE f == [n \in 0 .. 0 |-> c]
    <2>1. Doubles(f, 0, c, d)
      BY DEF Doubles
    <2> QED BY <2>1
  <1>2. ASSUME NEW n \in 0 .. m - 1, n \in S PROVE n + 1 \in S
    <2>1. PICK f : Doubles(f, n, c, d)
      BY <1>2
    <2> DEFINE g == [x \in 0 .. n + 1 |-> IF x = n + 1 THEN 2 * f[n] + d[n + 1] ELSE f[x]]
    <2>2. ASSUME NEW x \in 0 .. n + 1
          PROVE  g[x] = IF x = 0 THEN c ELSE 2 * g[x - 1] + d[x]
      <3>1. CASE x = n + 1
        <4>1. x # 0 /\ x - 1 = n /\ n \in 0 .. n + 1 /\ n # n + 1
          BY <3>1
        <4>2. g[x] = 2 * f[n] + d[n + 1] /\ g[n] = f[n]
          BY <3>1, <4>1
        <4> HIDE DEF g
        <4> QED BY <3>1, <4>1, <4>2
      <3>2. CASE x # n + 1
        <4>1. x \in 0 .. n /\ (x # 0 => x - 1 \in 0 .. n + 1 /\ x - 1 # n + 1)
          BY <3>2
        <4>2. g[x] = f[x] /\ (x # 0 => g[x - 1] = f[x - 1])
          BY <3>2, <4>1
        <4>3. f[x] = IF x = 0 THEN c ELSE 2 * f[x - 1] + d[x]
          BY <2>1, <4>1 DEF Doubles
        <4> HIDE DEF g
        <4> QED BY <4>2, <4>3
      <3> QED BY <3>1, <3>2
    <2>3. g = [x \in 0 .. n + 1 |-> g[x]]
      OBVIOUS
    <2> HIDE DEF g
    <2>4. Doubles(g, n + 1, c, d)
      BY <2>2, <2>3 DEF Doubles
    <2>5. n + 1 \in 0 .. m
      OBVIOUS
    <2> QED BY <2>4, <2>5
  <1> HIDE DEF S
  <1>3. \A n \in 0 .. m : n \in S
    BY <1>1, <1>2, UpTo
  <1> QED BY <1>3 DEF S

\* The powers of two are what they are called.
LEMMA PowersOfTwo ==
  /\ PowerOfTwo[0] = 1
  /\ \A n \in 0 .. ByteBits : PowerOfTwo[n] \in Nat \ {0}
  /\ \A n \in 1 .. ByteBits : PowerOfTwo[n] = 2 * PowerOfTwo[n - 1]
PROOF
  <1> DEFINE zeros == [n \in 1 .. ByteBits |-> 0]
  <1>1. PICK f : Doubles(f, ByteBits, 1, zeros)
    BY DoublingExists, ByteBitsAssumption
  <1>2. \A n \in 0 .. ByteBits :
          n \in Nat /\ (n # 0 => n - 1 \in 0 .. ByteBits /\ n \in 1 .. ByteBits)
    BY ByteBitsAssumption
  <1>3. f[0] = 1 /\ \A n \in 1 .. ByteBits : f[n] = 2 * f[n - 1] + 0
    BY <1>1, ByteBitsAssumption DEF Doubles
  <1> DEFINE S == {n \in 0 .. ByteBits : f[n] \in Nat \ {0}}
  <1>4. \A n \in 0 .. ByteBits : n \in S
    <2>1. 0 \in S
      BY <1>3, ByteBitsAssumption
    <2>2. ASSUME NEW n \in 0 .. ByteBits - 1, n \in S PROVE n + 1 \in S
      <3>1. n + 1 \in 1 .. ByteBits /\ n + 1 - 1 = n /\ n + 1 \in 0 .. ByteBits
        BY ByteBitsAssumption
      <3>2. f[n + 1] = 2 * f[n] + 0 /\ f[n] \in Nat \ {0}
        BY <1>3, <2>2, <3>1
      <3> QED BY <3>1, <3>2
    <2> HIDE DEF S
    <2> QED BY <2>1, <2>2, UpTo, ByteBitsAssumption
  <1>5. f = [n \in 0 .. ByteBits |-> IF n = 0 THEN 1 ELSE 2 * f[n - 1]]
    <2>1. f = [n \in 0 .. ByteBits |-> f[n]]
      BY <1>1 DEF Doubles
    <2>2. ASSUME NEW n \in 0 .. ByteBits PROVE f[n] = IF n = 0 THEN 1 ELSE 2 * f[n - 1]
      <3>1. n # 0 => f[n] = 2 * f[n - 1] + 0 /\ f[n - 1] \in Nat
        BY <1>2, <1>3, <1>4
      <3> QED BY <1>3, <3>1
    <2> QED BY <2>1, <2>2
  <1>6. PowerOfTwo = [n \in 0 .. ByteBits |-> IF n = 0 THEN 1 ELSE 2 * PowerOfTwo[n - 1]]
    BY <1>5 DEF PowerOfTwo
  <1> DEFINE T == {n \in 0 .. ByteBits : PowerOfTwo[n] \in Nat \ {0}}
  <1>7. PowerOfTwo[0] = 1 /\ \A n \in 1 .. ByteBits : PowerOfTwo[n] = 2 * PowerOfTwo[n - 1]
    BY <1>6, ByteBitsAssumption
  <1>8. \A n \in 0 .. ByteBits : n \in T
    <2>1. 0 \in T
      BY <1>7, ByteBitsAssumption
    <2>2. ASSUME NEW n \in 0 .. ByteBits - 1, n \in T PROVE n + 1 \in T
      <3>1. n + 1 \in 1 .. ByteBits /\ n + 1 - 1 = n /\ n + 1 \in 0 .. ByteBits
        BY ByteBitsAssumption
      <3>2. PowerOfTwo[n + 1] = 2 * PowerOfTwo[n] /\ PowerOfTwo[n] \in Nat \ {0}
        BY <1>7, <2>2, <3>1
      <3> QED BY <3>1, <3>2
    <2> HIDE DEF T
    <2> QED BY <2>1, <2>2, UpTo, ByteBitsAssumption
  <1> QED BY <1>7, <1>8

\* Division with remainder has one result.
LEMMA QuotientIs ==
  ASSUME NEW x, NEW q \in Nat, NEW d \in Nat \ {0}, NEW r \in 0 .. d - 1, x = q * d + r
  PROVE  x \div d = q /\ x - (x % d) = q * d
PROOF
  <1> DEFINE p == x \div d
             e == x % d
  <1>1. x \in Nat
    OBVIOUS
  <1>2. x = d * p + e /\ e \in 0 .. d - 1 /\ p \in Nat
    BY <1>1
  <1> HIDE DEF e, p
  <1>3. ~ (p > q)
    <2>1. p > q => d * p >= d * q + d
      BY <1>2
    <2> QED BY <1>2, <2>1
  <1>4. ~ (p < q)
    <2>1. p < q => d * q >= d * p + d
      BY <1>2
    <2> QED BY <1>2, <2>1
  <1>5. p = q
    BY <1>2, <1>3, <1>4
  <1>6. x - e = q * d
    BY <1>2, <1>5
  <1> QED BY <1>5, <1>6 DEF p, e

\* The first b bits of x write the number w[b], for every b up to a byte.
Weighs(w, x) ==
  /\ w[0] = 0
  /\ \A b \in 1 .. ByteBits : x[b] \in {0, 1} /\ w[b] = 2 * w[b - 1] + x[b]

\* The k-th bits of ByteBits bits each.
BitsOf(address, k) == [b \in 1 .. ByteBits |-> address.bits[k * ByteBits + b]]

\* The bits of a byte are bits of the address as long as the byte is one.
LEMMA BitPosition ==
  ASSUME NEW f \in AddressFamily, NEW k \in Nat, NEW b \in 1 .. ByteBits
  PROVE  k * ByteBits + b \in 1 .. Width[f] <=> k < Width[f] \div ByteBits
PROOF
  <1> DEFINE m == Width[f] \div ByteBits
  <1>1. ByteBits \in Nat \ {0} /\ Width[f] \in Nat /\ m \in Nat /\ Width[f] = ByteBits * m
    <2>1. ByteBits \in Nat \ {0} /\ Width[f] \in Nat /\ Width[f] % ByteBits = 0
      BY ByteBitsAssumption, WidthAssumption
    <2> QED BY <2>1
  <1> HIDE DEF m
  <1>2. k < m => k * ByteBits + ByteBits <= ByteBits * m
    <2>1. k < m => (k + 1) * ByteBits <= m * ByteBits
      BY <1>1
    <2> QED BY <1>1, <2>1
  <1>3. k >= m => k * ByteBits >= ByteBits * m
    BY <1>1
  <1>4. k * ByteBits \in Nat /\ ByteBits * m \in Nat
    BY <1>1
  <1> QED BY <1>1, <1>2, <1>3, <1>4 DEF m

\* A byte of an address is the number that its bits write.
LEMMA ByteWeighs ==
  ASSUME NEW a \in IpAddress, NEW k \in Nat, k < Width[a.family] \div ByteBits
  PROVE  \E w : Weighs(w, BitsOf(a, k)) /\ Byte(a, k) = w[ByteBits]
PROOF
  <1> DEFINE x == BitsOf(a, k)
             Step(w) == [b \in 0 .. ByteBits |->
                           IF b = 0 THEN 0 ELSE 2 * w[b - 1] + a.bits[k * ByteBits + b]]
  <1>1. a.family \in AddressFamily /\ a.bits \in [1 .. Width[a.family] -> {0, 1}]
    BY DEF IpAddress
  <1>2. \A b \in 1 .. ByteBits : x[b] = a.bits[k * ByteBits + b] /\ x[b] \in {0, 1}
    <2>1. ASSUME NEW b \in 1 .. ByteBits PROVE k * ByteBits + b \in 1 .. Width[a.family]
      BY <1>1, BitPosition
    <2> QED BY <1>1, <2>1 DEF BitsOf
  <1>3. PICK f : Doubles(f, ByteBits, 0, x)
    BY DoublingExists, ByteBitsAssumption
  <1> HIDE DEF x
  <1>4. \A b \in 0 .. ByteBits : b # 0 => b \in 1 .. ByteBits
    BY ByteBitsAssumption
  <1>5. f = Step(f)
    BY <1>2, <1>3, <1>4 DEF Doubles
  <1>6. PICK w : w = Step(w) /\ Byte(a, k) = w[ByteBits]
    BY <1>5 DEF Byte
  <1>7. /\ \A b \in 1 .. ByteBits : b \in 0 .. ByteBits /\ b # 0
        /\ 0 \in 0 .. ByteBits
    BY ByteBitsAssumption
  <1>8. w[0] = 0 /\ \A b \in 1 .. ByteBits : w[b] = 2 * w[b - 1] + a.bits[k * ByteBits + b]
    BY <1>6, <1>7
  <1>9. Weighs(w, x)
    BY <1>2, <1>8 DEF Weighs
  <1> QED BY <1>6, <1>9 DEF x

\* What bits write is a number.
LEMMA WeightIsNat ==
  ASSUME NEW w, NEW x, Weighs(w, x)
  PROVE  \A b \in 0 .. ByteBits : w[b] \in Nat
PROOF
  <1> DEFINE S == {b \in 0 .. ByteBits : w[b] \in Nat}
  <1>1. 0 \in S
    BY ByteBitsAssumption DEF Weighs
  <1>2. ASSUME NEW b \in 0 .. ByteBits - 1, b \in S PROVE b + 1 \in S
    <2>1. b + 1 \in 1 .. ByteBits /\ b + 1 - 1 = b /\ b + 1 \in 0 .. ByteBits
      BY ByteBitsAssumption
    <2>2. w[b + 1] = 2 * w[b] + x[b + 1] /\ x[b + 1] \in {0, 1} /\ w[b] \in Nat
      BY <1>2, <2>1 DEF Weighs
    <2> QED BY <2>1, <2>2
  <1> HIDE DEF S
  <1>3. \A b \in 0 .. ByteBits : b \in S
    BY <1>1, <1>2, UpTo, ByteBitsAssumption
  <1> QED BY <1>3 DEF S

\* Two write the same with their first bits if and only if these are the same.
LEMMA SameWeight ==
  ASSUME NEW w, NEW x, Weighs(w, x), NEW v, NEW y, Weighs(v, y)
  PROVE  \A n \in 0 .. ByteBits : w[n] = v[n] <=> \A b \in 1 .. n : x[b] = y[b]
PROOF
  <1> DEFINE S == {n \in 0 .. ByteBits : w[n] = v[n] <=> \A b \in 1 .. n : x[b] = y[b]}
  <1>1. 0 \in S
    BY ByteBitsAssumption DEF Weighs
  <1>2. ASSUME NEW n \in 0 .. ByteBits - 1, n \in S PROVE n + 1 \in S
    <2>1. /\ n + 1 \in 1 .. ByteBits /\ n + 1 - 1 = n /\ n \in 0 .. ByteBits
          /\ n + 1 \in 0 .. ByteBits
      BY ByteBitsAssumption
    <2>2. /\ w[n + 1] = 2 * w[n] + x[n + 1] /\ x[n + 1] \in {0, 1} /\ w[n] \in Nat
          /\ v[n + 1] = 2 * v[n] + y[n + 1] /\ y[n + 1] \in {0, 1} /\ v[n] \in Nat
      BY <2>1, WeightIsNat DEF Weighs
    <2>3. w[n + 1] = v[n + 1] <=> w[n] = v[n] /\ x[n + 1] = y[n + 1]
      BY <2>2
    <2>4. \A b \in 1 .. n + 1 : b = n + 1 \/ b \in 1 .. n
      BY <2>1
    <2>5. n + 1 \in 1 .. n + 1 /\ \A b \in 1 .. n : b \in 1 .. n + 1
      BY <2>1
    <2>6. (\A b \in 1 .. n + 1 : x[b] = y[b])
            <=> x[n + 1] = y[n + 1] /\ \A b \in 1 .. n : x[b] = y[b]
      BY <2>4, <2>5
    <2> QED BY <1>2, <2>1, <2>3, <2>6
  <1> HIDE DEF S
  <1>3. \A n \in 0 .. ByteBits : n \in S
    BY <1>1, <1>2, UpTo, ByteBitsAssumption
  <1> QED BY <1>3 DEF S

\* The last k bits are the rest of the division by a power of two, and the
\* bits before them the quotient.
LEMMA HighBits ==
  ASSUME NEW w, NEW x, Weighs(w, x), NEW k \in 0 .. ByteBits
  PROVE  LET byte == w[ByteBits]
             high == w[ByteBits - k]
         IN  /\ byte \div PowerOfTwo[k] = high
             /\ byte - (byte % PowerOfTwo[k]) = high * PowerOfTwo[k]
PROOF
  <1> DEFINE S == {n \in 0 .. ByteBits : \E r \in 0 .. PowerOfTwo[n] - 1 :
                     w[ByteBits] = w[ByteBits - n] * PowerOfTwo[n] + r}
  <1>1. 0 \in S
    <2>1. ByteBits \in 0 .. ByteBits /\ ByteBits - 0 = ByteBits /\ 0 \in 0 .. ByteBits
      BY ByteBitsAssumption
    <2>2. w[ByteBits] \in Nat /\ PowerOfTwo[0] = 1
      BY <2>1, WeightIsNat, PowersOfTwo
    <2>3. 0 \in 0 .. PowerOfTwo[0] - 1 /\ w[ByteBits] = w[ByteBits - 0] * PowerOfTwo[0] + 0
      BY <2>1, <2>2
    <2> QED BY <2>1, <2>3
  <1>2. ASSUME NEW n \in 0 .. ByteBits - 1, n \in S PROVE n + 1 \in S
    <2>1. /\ n + 1 \in 1 .. ByteBits /\ n + 1 - 1 = n /\ n \in 0 .. ByteBits
          /\ n + 1 \in 0 .. ByteBits
          /\ ByteBits - n \in 1 .. ByteBits /\ (ByteBits - n) - 1 = ByteBits - (n + 1)
          /\ ByteBits - (n + 1) \in 0 .. ByteBits
      BY ByteBitsAssumption
    <2> DEFINE p == PowerOfTwo[n]
               h == w[ByteBits - (n + 1)]
               b == x[ByteBits - n]
    <2>2. p \in Nat \ {0} /\ PowerOfTwo[n + 1] = 2 * p /\ h \in Nat /\ b \in {0, 1}
      BY <2>1, PowersOfTwo, WeightIsNat DEF Weighs
    <2>3. w[ByteBits - n] = 2 * h + b
      BY <2>1 DEF Weighs
    <2>4. PICK r \in 0 .. p - 1 : w[ByteBits] = (2 * h + b) * p + r
      BY <1>2, <2>3
    <2> HIDE DEF p, h, b
    <2>5. b * p + r \in 0 .. 2 * p - 1 /\ w[ByteBits] = h * (2 * p) + (b * p + r)
      <3>1. CASE b = 0
        BY <2>2, <2>4, <3>1
      <3>2. CASE b = 1
        BY <2>2, <2>4, <3>2
      <3> QED BY <2>2, <3>1, <3>2
    <2> QED BY <2>1, <2>2, <2>5 DEF h
  <1> HIDE DEF S
  <1>3. k \in S
    BY <1>1, <1>2, UpTo, ByteBitsAssumption
  <1> DEFINE p == PowerOfTwo[k]
             h == w[ByteBits - k]
             byte == w[ByteBits]
  <1>4. PICK r \in 0 .. p - 1 : byte = h * p + r
    BY <1>3 DEF S
  <1>5. p \in Nat \ {0} /\ h \in Nat
    <2>1. ByteBits - k \in 0 .. ByteBits
      BY ByteBitsAssumption
    <2> QED BY <2>1, PowersOfTwo, WeightIsNat
  <1> HIDE DEF p, h, byte
  <1>6. byte \div p = h /\ byte - (byte % p) = h * p
    BY <1>4, <1>5, QuotientIs
  <1> QED BY <1>6 DEF p, h, byte

\* Where a bit of an address stands: in which byte, and where in it.
LEMMA BitInByte ==
  ASSUME NEW f \in AddressFamily, NEW bit \in 0 .. Width[f] - 1
  PROVE  LET k == bit \div ByteBits
             c == bit % ByteBits
         IN  /\ k \in Nat /\ k < Width[f] \div ByteBits
             /\ c \in 0 .. ByteBits - 1 /\ k * ByteBits + (c + 1) = bit + 1
PROOF
  <1> DEFINE k == bit \div ByteBits
             c == bit % ByteBits
  <1>1. ByteBits \in Nat \ {0} /\ Width[f] \in Nat /\ bit \in Nat /\ bit < Width[f]
    BY ByteBitsAssumption, WidthAssumption
  <1>2. k \in Nat /\ c \in 0 .. ByteBits - 1 /\ bit = ByteBits * k + c
    BY <1>1
  <1> HIDE DEF k, c
  <1>3. /\ c + 1 \in 1 .. ByteBits /\ k * ByteBits + (c + 1) = bit + 1
        /\ k * ByteBits + (c + 1) \in 1 .. Width[f]
    BY <1>1, <1>2
  <1>4. k < Width[f] \div ByteBits
    BY <1>2, <1>3, BitPosition
  <1> QED BY <1>2, <1>3, <1>4 DEF k, c

\* The shifted and masked byte is not zero if and only if the bit is set.
LEMMA BitSetIsBit ==
  ASSUME NEW a \in IpAddress, NEW bit \in 0 .. Width[a.family] - 1
  PROVE  BitSet(a, bit) <=> a.bits[bit + 1] # 0
PROOF
  <1> DEFINE k == bit \div ByteBits
             c == bit % ByteBits
             n == ByteBits - 1 - c
  <1>1. a.family \in AddressFamily
    BY DEF IpAddress
  <1>2. /\ k \in Nat /\ k < Width[a.family] \div ByteBits
        /\ c \in 0 .. ByteBits - 1 /\ k * ByteBits + (c + 1) = bit + 1
    BY <1>1, BitInByte
  <1>3. BitSet(a, bit) <=> (Byte(a, k) \div PowerOfTwo[n]) % 2 # 0
    BY DEF BitSet
  <1> HIDE DEF k, c
  <1>4. PICK w : Weighs(w, BitsOf(a, k)) /\ Byte(a, k) = w[ByteBits]
    BY <1>2, ByteWeighs
  <1>5. /\ n \in 0 .. ByteBits /\ ByteBits - n = c + 1
        /\ c + 1 \in 1 .. ByteBits /\ c + 1 - 1 = c /\ c \in 0 .. ByteBits
    BY <1>2, ByteBitsAssumption
  <1> HIDE DEF n
  <1>6. Byte(a, k) \div PowerOfTwo[n] = w[c + 1]
    BY <1>4, <1>5, HighBits
  <1>7. w[c + 1] = 2 * w[c] + a.bits[bit + 1] /\ a.bits[bit + 1] \in {0, 1} /\ w[c] \in Nat
    <2>1. BitsOf(a, k)[c + 1] = a.bits[k * ByteBits + (c + 1)]
      BY <1>5 DEF BitsOf
    <2>2. BitsOf(a, k)[c + 1] = a.bits[bit + 1]
      BY <1>2, <2>1
    <2>3. w[c + 1] = 2 * w[c] + BitsOf(a, k)[c + 1] /\ BitsOf(a, k)[c + 1] \in {0, 1}
      BY <1>4, <1>5 DEF Weighs
    <2> QED BY <1>4, <1>5, <2>2, <2>3, WeightIsNat
  <1>8. w[c + 1] % 2 = a.bits[bit + 1]
    BY <1>7
  <1> QED BY <1>3, <1>6, <1>8

\* The loop over the host bits finds one if and only if there is one.
LEMMA HostBitsFound ==
  ASSUME NEW a \in IpAddress, NEW length \in 0 .. Width[a.family]
  PROVE  HasHostBits(a, length) <=> \E b \in length + 1 .. Width[a.family] : a.bits[b] # 0
PROOF
  <1>1. Width[a.family] \in Nat
    BY WidthAssumption DEF IpAddress
  <1>2. ASSUME NEW bit \in length .. Width[a.family] - 1, BitSet(a, bit)
        PROVE  \E b \in length + 1 .. Width[a.family] : a.bits[b] # 0
    <2>1. bit \in 0 .. Width[a.family] - 1 /\ bit + 1 \in length + 1 .. Width[a.family]
      BY <1>1
    <2>2. a.bits[bit + 1] # 0
      BY <1>2, <2>1, BitSetIsBit
    <2> QED BY <2>1, <2>2
  <1>3. ASSUME NEW b \in length + 1 .. Width[a.family], a.bits[b] # 0 PROVE HasHostBits(a, length)
    <2>1. /\ b - 1 \in 0 .. Width[a.family] - 1 /\ b - 1 \in length .. Width[a.family] - 1
          /\ b - 1 + 1 = b
      BY <1>1
    <2>2. BitSet(a, b - 1)
      BY <1>3, <2>1, BitSetIsBit
    <2> QED BY <2>1, <2>2 DEF HasHostBits
  <1> QED BY <1>2, <1>3 DEF HasHostBits

\* parse accepts a text with an address and a length if and only if it is a
\* prefix without host bits.
LEMMA ParseIsExact ==
  ASSUME NEW text, Readable(text), text.address \subseteq IpAddress
  PROVE  ParsePrefix(text) # {} <=> AsPrefix(text) \in IpPrefix
PROOF
  <1> DEFINE a == Value(text.address)
             length == LengthOf(text)
  <1>1. a \in IpAddress /\ length \in 0 .. Width[a.family]
    BY DEF Readable, HasValue, Value
  <1>2. AsPrefix(text) = [network |-> a, length |-> length]
    BY DEF AsPrefix
  <1>3. ParsePrefix(text) # {} <=> ~ HasHostBits(a, length)
    BY DEF ParsePrefix
  <1> HIDE DEF a, length
  <1> DEFINE prefix == [network |-> a, length |-> length]
             Whole == UNION {[network : {b}, length : 0 .. Width[b.family]] : b \in IpAddress}
  <1>4. prefix.network = a /\ prefix.length = length /\ prefix \in Whole
    BY <1>1
  <1>5. prefix \in IpPrefix <=> \A b \in length + 1 .. Width[a.family] : a.bits[b] = 0
    <2> HIDE DEF prefix
    <2> QED BY <1>4 DEF IpPrefix
  <1> HIDE DEF prefix
  <1>6. HasHostBits(a, length) <=> \E b \in length + 1 .. Width[a.family] : a.bits[b] # 0
    BY <1>1, HostBitsFound
  <1> QED BY <1>2, <1>3, <1>5, <1>6 DEF prefix

\* Two addresses have the same whole bytes, and the same rest of one under the
\* mask, if and only if they have the same first bits.
LEMMA ContainsIsExact ==
  ASSUME NEW a \in IpAddress, NEW length \in 0 .. Width[a.family], NEW b \in IpAddress,
         NEW prefix, prefix.network = a, prefix.length = length
  PROVE  Contains(prefix, b) <=> PrefixContains(prefix, b)
PROOF
  <1> DEFINE whole == length \div ByteBits
             rest == length % ByteBits
             Masked(byte) == byte - (byte % PowerOfTwo[ByteBits - rest])
             Same(k, c) == a.bits[k * ByteBits + c] = b.bits[k * ByteBits + c]
             bytes == Width[a.family] \div ByteBits
  <1> SUFFICES ASSUME a.family = b.family PROVE Contains(prefix, b) <=> PrefixContains(prefix, b)
    BY DEF Contains, PrefixContains
  <1>1. /\ a.family \in AddressFamily /\ ByteBits \in Nat \ {0}
        /\ Width[a.family] \in Nat /\ Width[a.family] % ByteBits = 0
    BY WidthAssumption, ByteBitsAssumption DEF IpAddress
  <1>2. /\ whole \in Nat /\ rest \in 0 .. ByteBits - 1 /\ length = ByteBits * whole + rest
        /\ bytes \in Nat /\ Width[a.family] = ByteBits * bytes
    BY <1>1
  <1>3. Contains(prefix, b) <=> /\ \A k \in 0 .. whole - 1 : Byte(a, k) = Byte(b, k)
                                /\ rest # 0 => Masked(Byte(a, whole)) = Masked(Byte(b, whole))
    BY DEF Contains
  <1> HIDE DEF whole, rest, bytes
  <1>4. /\ whole <= bytes
        /\ rest # 0 => whole < bytes
    <2>1. whole > bytes => ByteBits * whole >= ByteBits * bytes + ByteBits
      BY <1>1, <1>2
    <2>2. whole = bytes => ByteBits * whole = ByteBits * bytes
      OBVIOUS
    <2> QED BY <1>1, <1>2, <2>1, <2>2
  <1>5. ASSUME NEW k \in Nat, k < bytes, NEW n \in 0 .. ByteBits
        PROVE  /\ Byte(a, k) = Byte(b, k) <=> \A c \in 1 .. ByteBits : Same(k, c)
               /\ LET p == PowerOfTwo[ByteBits - n]
                  IN  Byte(a, k) - (Byte(a, k) % p) = Byte(b, k) - (Byte(b, k) % p)
                        <=> \A c \in 1 .. n : Same(k, c)
    <2>1. PICK w : Weighs(w, BitsOf(a, k)) /\ Byte(a, k) = w[ByteBits]
      BY <1>5, ByteWeighs DEF bytes
    <2>2. PICK v : Weighs(v, BitsOf(b, k)) /\ Byte(b, k) = v[ByteBits]
      BY <1>5, ByteWeighs DEF bytes
    <2>3. \A m \in 0 .. ByteBits : w[m] = v[m] <=> \A c \in 1 .. m : Same(k, c)
      <3>1. ASSUME NEW m \in 0 .. ByteBits
            PROVE  \A c \in 1 .. m : BitsOf(a, k)[c] = BitsOf(b, k)[c] <=> Same(k, c)
        <4>1. \A c \in 1 .. m : c \in 1 .. ByteBits
          BY <1>1
        <4> QED BY <4>1 DEF BitsOf
      <3>2. \A m \in 0 .. ByteBits :
              w[m] = v[m] <=> \A c \in 1 .. m : BitsOf(a, k)[c] = BitsOf(b, k)[c]
        BY <2>1, <2>2, SameWeight
      <3> HIDE DEF Same
      <3> QED BY <3>1, <3>2
    <2> HIDE DEF Same
    <2> DEFINE p == PowerOfTwo[ByteBits - n]
    <2>4. /\ ByteBits - n \in 0 .. ByteBits /\ ByteBits - (ByteBits - n) = n
          /\ ByteBits \in 0 .. ByteBits
      BY <1>1
    <2>5. /\ Byte(a, k) - (Byte(a, k) % p) = w[n] * p /\ Byte(b, k) - (Byte(b, k) % p) = v[n] * p
          /\ p \in Nat \ {0} /\ w[n] \in Nat /\ v[n] \in Nat
      BY <2>1, <2>2, <2>4, HighBits, PowersOfTwo, WeightIsNat
    <2> HIDE DEF p
    <2>6. w[n] * p = v[n] * p <=> w[n] = v[n]
      BY <2>5
    <2> QED BY <2>1, <2>2, <2>3, <2>4, <2>5, <2>6 DEF p
  <1>6. Contains(prefix, b) <=> /\ \A k \in 0 .. whole - 1 : \A c \in 1 .. ByteBits : Same(k, c)
                                /\ \A c \in 1 .. rest : Same(whole, c)
    <2>1. \A k \in 0 .. whole - 1 : k \in Nat /\ k < bytes
      BY <1>2, <1>4
    <2>2. ByteBits \in 0 .. ByteBits /\ rest \in 0 .. ByteBits
      BY <1>1, <1>2
    <2>3. \A k \in 0 .. whole - 1 :
            Byte(a, k) = Byte(b, k) <=> \A c \in 1 .. ByteBits : Same(k, c)
      BY <1>5, <2>1, <2>2
    <2>4. rest # 0 => (Masked(Byte(a, whole)) = Masked(Byte(b, whole))
                         <=> \A c \in 1 .. rest : Same(whole, c))
      BY <1>2, <1>4, <1>5, <2>2
    <2>5. rest = 0 => \A c \in 1 .. rest : Same(whole, c)
      OBVIOUS
    <2> HIDE DEF Same, Masked
    <2> QED BY <1>3, <2>3, <2>4, <2>5
  <1>7. PrefixContains(prefix, b) <=> \A x \in 1 .. length : a.bits[x] = b.bits[x]
    BY DEF PrefixContains
  <1>8. ASSUME NEW x \in 1 .. length
        PROVE  \/ \E k \in 0 .. whole - 1 : \E c \in 1 .. ByteBits : x = k * ByteBits + c
               \/ \E c \in 1 .. rest : x = whole * ByteBits + c
    <2> DEFINE k == (x - 1) \div ByteBits
               c == ((x - 1) % ByteBits) + 1
    <2>1. x - 1 \in Nat
      OBVIOUS
    <2>2. k \in Nat /\ c \in 1 .. ByteBits /\ x - 1 = ByteBits * k + (c - 1)
      BY <1>1, <2>1
    <2> HIDE DEF k, c
    <2>3. x = k * ByteBits + c
      BY <1>1, <2>2
    <2>4. ~ (k > whole)
      <3>1. k > whole => ByteBits * k >= ByteBits * whole + ByteBits
        BY <1>1, <1>2, <2>2
      <3> QED BY <1>1, <1>2, <2>2, <3>1
    <2>5. CASE k = whole
      BY <1>1, <1>2, <2>2, <2>3, <2>5
    <2>6. CASE k # whole
      <3>1. k \in 0 .. whole - 1
        BY <1>2, <2>2, <2>4, <2>6
      <3> QED BY <2>2, <2>3, <3>1
    <2> QED BY <2>5, <2>6
  <1>9. /\ \A k \in 0 .. whole - 1 : \A c \in 1 .. ByteBits : k * ByteBits + c \in 1 .. length
        /\ \A c \in 1 .. rest : whole * ByteBits + c \in 1 .. length
    <2>1. ASSUME NEW k \in 0 .. whole - 1, NEW c \in 1 .. ByteBits
          PROVE  k * ByteBits + c \in 1 .. length
      <3>1. (k + 1) * ByteBits <= whole * ByteBits
        BY <1>1, <1>2
      <3> QED BY <1>1, <1>2, <3>1
    <2>2. ASSUME NEW c \in 1 .. rest PROVE whole * ByteBits + c \in 1 .. length
      BY <1>1, <1>2
    <2> QED BY <2>1, <2>2
  <1> QED BY <1>6, <1>7, <1>8, <1>9

\* A text that the documents hold is one with an address of the two families,
\* if it has any.
LEMMA PrefixTextsHaveAddresses ==
  ASSUME FilesInv, NEW text \in PrefixTexts
  PROVE  Readable(text) /\ text.address \subseteq IpAddress
PROOF
  <1>1. /\ rulesFile # {} /\ RulesDoc.pdrs \notin {Missing, Mistyped}
        /\ \E k \in DOMAIN RulesDoc.pdrs : text = RulesDoc.pdrs[k].uePrefix
        /\ text \notin {Missing, Mistyped} /\ Readable(text)
    BY DEF PrefixTexts
  <1>2. RulesDoc \in DocumentsAt(RulesAt)
    BY <1>1 DEF FilesInv, RulesDoc, Value
  <1>3. \A k \in DOMAIN RulesDoc.pdrs : IsText(RulesDoc.pdrs[k].uePrefix)
    BY <1>1, <1>2, DocumentsAssumption DEF IsRulesDoc, IsList, IsPdrItem
  <1> QED BY <1>1, <1>3 DEF IsText

-----------------------------------------------------------------------------
(* The theorems.                                                           *)

\* The invariant holds in every state of the process, for every list of
\* arguments and all files.
THEOREM CommandLineInvariant == CliSpec => []CliInv
PROOF
  BY InitCliInv, NextKeepsCliInv, PTL DEF CliSpec

\* runFiles is all or nothing: a run that fails or aborts has decided no packet
\* and installed no ruleset of a file it reports as failed; one that completes
\* has decided every packet of the file under the validated ruleset of the file.
THEOREM RunsAreAtomic == CliSpec => []AllOrNothing
PROOF
  <1>1. CliInv => AllOrNothing
    BY DEF CliInv, RunInv, AllOrNothing
  <1> QED BY <1>1, CommandLineInvariant, PTL

\* main's exit status can be trusted: 0 if and only if a whole answer was
\* printed, 2 only when no file was opened, 4 and 134 only when no packet was
\* processed.
THEOREM ExitIsHonest == CliSpec => []ExitTellsOutcome
PROOF
  <1>1. CliInv => ExitTellsOutcome
    BY DEF CliInv
  <1> QED BY <1>1, CommandLineInvariant, PTL

\* The parser discharges what the pipeline assumes of its inputs: whatever
\* numbers, signs and lists the files hold, a ruleset or packet that
\* parseRules or parsePackets accepts has the ranges of the declared types.
THEOREM AcceptedAreTyped ==
  /\ \A rs \in AcceptedRuleSets : WellTypedRuleSet(rs)
  /\ \A p \in AcceptedPackets : WellTypedPacket(p)
PROOF
  <1>1. ASSUME NEW doc \in DocumentsAt(RulesAt), RulesStatus(doc) = "OK"
        PROVE  WellTypedRuleSet(RuleSetOf(doc))
    BY <1>1, RulesRead, DocumentsAssumption
  <1>2. ASSUME NEW doc \in DocumentsAt(PacketsAt), PacketsStatus(doc) = "OK",
               NEW k \in DOMAIN doc.packets
        PROVE  WellTypedPacket(PacketOf(doc.packets[k]))
    BY <1>2, PacketsRead, DocumentsAssumption
  <1> QED BY <1>1, <1>2 DEF AcceptedRuleSets, AcceptedPackets

\* The executable refines the pipeline: whatever its arguments and files, what
\* it does to the pipeline is a sequence of install and process calls on
\* accepted inputs.
THEOREM ProcessIsPipeline == CliSpec => Spec
PROOF
  <1>1. CliInit => Init /\ FilesInv
    BY InputsAssumption DEF CliInit, RunInit, Init, FilesInv
  <1> QED
    BY <1>1, InitCliInv, NextKeepsCliInv, CliKeepsFilesInv, CliCallsPipeline, PTL
    DEF CliSpec, Spec

\* Therefore a run from files keeps every promise of the pipeline: no packet,
\* byte, report or event of a file is lost or counted twice, no limit is
\* passed, and no rule is used that the validation did not see.
THEOREM FileRunsAreExact ==
  CliSpec => /\ []RuntimeFollowsRules /\ []SelectedIsServed /\ []UsageAccounted
             /\ []ReportsAccounted /\ []SinksAccounted /\ []EventsAccounted
             /\ []LimitsEnforced
PROOF
  BY ProcessIsPipeline, InstallsTogether, ValidationSuffices, UsageIsExact, ReportsAreExact,
     SinksAreExact, EventsAreExact, LimitsHold, PTL

\* What renderJson rebuilds and main prints is what the pipeline recorded.
THEOREM OutputTellsTheTruth == CliSpec => []OutputIsTruthful
PROOF
  <1>1. CliInit => Init /\ FilesInv /\ FilePipelineInv /\ CopyInv
    BY InputsAssumption, InitFile DEF CliInit, RunInit, Init, FilesInv
  <1>2. CliInv /\ IInv /\ FilePipelineInv /\ CopyInv => OutputIsTruthful
    <2> SUFFICES ASSUME CliInv, IInv, FilePipelineInv, CopyInv, pc = "done"
                 PROVE  LET json == RenderJson(result)
                        IN  /\ [k \in DOMAIN json.usageReports |-> json.usageReports[k].reportId]
                                 = reports
                            /\ json.observabilityDegraded = (droppedEvents > 0)
                            /\ json.droppedEventCount = droppedEvents
                            /\ json.n3Sink = sinks["N3"] /\ json.n6Sink = sinks["N6"]
      BY DEF OutputIsTruthful
    <2> DEFINE json == RenderJson(result)
    <2>1. /\ json.usageReports = UsageReportsJson(result.decisions)
          /\ json.observabilityDegraded = result.observabilityDegraded
          /\ json.droppedEventCount = result.droppedEvents
          /\ json.n3Sink = result.n3Sink /\ json.n6Sink = result.n6Sink
      BY DEF RenderJson
    <2> HIDE DEF json
    <2>2. [k \in DOMAIN json.usageReports |-> json.usageReports[k].reportId] = reports
      BY <2>1, ReportsRebuilt DEF CliInv
    <2>3. droppedEvents = 0
      BY NoEventDropped
    <2>4. /\ json.observabilityDegraded = (droppedEvents > 0)
          /\ json.droppedEventCount = droppedEvents
          /\ json.n3Sink = sinks["N3"] /\ json.n6Sink = sinks["N6"]
      <3>1. (droppedEvents > 0) = FALSE
        BY <2>3
      <3>2. /\ json.observabilityDegraded = FALSE /\ json.droppedEventCount = 0
            /\ json.n3Sink = sinks["N3"] /\ json.n6Sink = sinks["N6"]
        BY <2>1 DEF CopyInv
      <3> QED BY <2>3, <3>1, <3>2
    <2> QED BY <2>2, <2>4 DEF json
  <1>3. CliSpec => []IInv
    BY ProcessIsPipeline, PipelineInvariant, PTL
  <1> QED
    BY <1>1, <1>2, <1>3, CommandLineInvariant, CliKeepsFilesInv, CliKeepsFile, PTL DEF CliSpec

\* A reader of the output can follow every bucket and every counter from
\* decision to decision, and the equation that renderHuman prints adds up.
THEOREM OutputTellsTheStory == CliSpec => []OutputExplainsRun
PROOF
  <1>1. CliInit => Init /\ FilesInv /\ ExplainInv
    <2>1. NewResult.decisions = <<>>
      BY DEF NewResult
    <2> QED BY <2>1, EmptyStory, InputsAssumption
            DEF CliInit, RunInit, Constructed, Init, FilesInv
  <1>2. ExplainInv => OutputExplainsRun
    <2> SUFFICES ASSUME ExplainInv,
                        NEW k \in DOMAIN RenderHuman(result)
                 PROVE  LET human == RenderHuman(result)[k]
                            json  == RenderJson(result).decisions[k]
                        IN  /\ \A q \in json.qer, equation \in human.equation :
                                 LET burst  == RuleOf(Active.qers, q.qerId).burstBytes
                                     filled == Min({burst, equation[1] + equation[2]})
                                 IN  /\ equation[1] = TokensLeft(q.qerId, k)
                                     /\ equation[4] =
                                       CASE human.outcome = "ALLOW"        -> filled - equation[3]
                                         [] human.outcome = "RATE_LIMITED" -> filled
                                         [] OTHER                          -> equation[1]
                            /\ \A u \in json.urr :
                                 <<human.urr[1], human.urr[3]>> = UsageLeft(u.urrId, k)
      BY DEF OutputExplainsRun
    <2> DEFINE d == result.decisions[k]
               human == RenderHuman(result)[k]
               json == RenderJson(result).decisions[k]
    <2>1. k \in DOMAIN result.decisions
      BY DEF RenderHuman
    <2>2. /\ json.qer = d.qer /\ json.urr = d.urr
          /\ d.selected # {} => human.outcome = OutcomeJson(d)
          /\ \A equation \in human.equation : \E q \in d.qer :
               /\ equation[1] = q.tokensBefore /\ equation[2] = q.refillBytes
               /\ equation[3] = q.packetChargeBytes /\ equation[4] = q.tokensAfter
          /\ d.urr # {} => <<human.urr[1], human.urr[3]>>
                             = <<Value(d.urr).packetsBefore, Value(d.urr).bytesBefore>>
      BY <2>1, PrintedParts
    <2>3. /\ AtMostOne(d.qer) /\ AtMostOne(d.urr)
          /\ \A q \in d.qer :
               LET burst == RuleOf(Active.qers, q.qerId).burstBytes
               IN  /\ d.selected # {} /\ AddsUp(q, burst)
                   /\ q.tokensBefore = TokensIn(result.decisions, burst, q.qerId, k)
          /\ \A u \in d.urr :
               <<u.packetsBefore, u.bytesBefore>> = UsageIn(result.decisions, u.urrId, k)
      BY <2>1 DEF ExplainInv
    <2>4. /\ \A id : TokensLeft(id, k)
                       = TokensIn(result.decisions, RuleOf(Active.qers, id).burstBytes, id, k)
          /\ \A id : UsageLeft(id, k) = UsageIn(result.decisions, id, k)
      BY DEF TokensLeft, UsageLeft, TokensIn, UsageIn, TokensFrom, UsageFrom, StoredResults
    <2> HIDE DEF d, human, json
    <2>5. ASSUME NEW q \in json.qer, NEW equation \in human.equation
          PROVE  LET burst  == RuleOf(Active.qers, q.qerId).burstBytes
                     filled == Min({burst, equation[1] + equation[2]})
                 IN  /\ equation[1] = TokensLeft(q.qerId, k)
                     /\ equation[4] = CASE human.outcome = "ALLOW"        -> filled - equation[3]
                                        [] human.outcome = "RATE_LIMITED" -> filled
                                        [] OTHER                          -> equation[1]
      <3>1. d.qer = {q}
        BY <2>2, <2>3 DEF AtMostOne
      <3>2. /\ equation[1] = q.tokensBefore /\ equation[2] = q.refillBytes
            /\ equation[3] = q.packetChargeBytes /\ equation[4] = q.tokensAfter
        BY <2>2, <3>1
      <3>3. human.outcome = q.outcome
        BY <2>2, <2>3, <3>1, ValueOfSingleton DEF OutcomeJson
      <3>4. /\ AddsUp(q, RuleOf(Active.qers, q.qerId).burstBytes)
            /\ equation[1] = TokensLeft(q.qerId, k)
        BY <2>3, <2>4, <3>1, <3>2
      <3> QED BY <3>2, <3>3, <3>4 DEF AddsUp
    <2>6. ASSUME NEW u \in json.urr
          PROVE  <<human.urr[1], human.urr[3]>> = UsageLeft(u.urrId, k)
      <3>1. d.urr = {u}
        BY <2>2, <2>3 DEF AtMostOne
      <3>2. Value(d.urr) = u
        BY <3>1, ValueOfSingleton
      <3> QED BY <2>2, <2>3, <2>4, <3>1, <3>2
    <2> QED BY <2>5, <2>6 DEF human, json
  <1> QED
    BY <1>1, <1>2, InitCliInv, NextKeepsCliInv, CliKeepsFilesInv, CliTells, ProcessIsPipeline,
       PipelineInvariant, PTL
    DEF CliSpec

\* The files are documents found at some path, in every state.
LEMMA FilesAreDocuments == CliSpec => []FilesInv
PROOF
  <1>1. CliInit => FilesInv
    BY DEF CliInit, RunInit, FilesInv
  <1> QED BY <1>1, CliKeepsFilesInv, PTL DEF CliSpec

\* IpPrefix::parse looks for host bits with shifts in bytes, and finds them
\* wherever in a byte the length ends: it accepts a text with an address and a
\* length if and only if that is a prefix.
THEOREM ParseRefusesHostBits == CliSpec => []AcceptsPrefixes
PROOF
  <1>1. FilesInv => AcceptsPrefixes
    BY PrefixTextsHaveAddresses, ParseIsExact DEF AcceptsPrefixes
  <1> QED BY <1>1, FilesAreDocuments, PTL

\* IpPrefix::contains compares whole bytes and one under a mask, and thereby
\* the first bits and no other, at every length.
THEOREM ContainsComparesFirstBits == CliSpec => []ContainsFirstBits
PROOF
  <1>1. FilesInv => ContainsFirstBits
    <2> SUFFICES ASSUME FilesInv, NEW text \in PrefixTexts, NEW prefix \in ParsePrefix(text),
                        NEW address \in IpAddress
                 PROVE  Contains(prefix, address) <=> PrefixContains(prefix, address)
      BY DEF ContainsFirstBits, Contains, PrefixContains
    <2> DEFINE a == Value(text.address)
               length == LengthOf(text)
    <2>1. /\ prefix = [network |-> a, length |-> length]
          /\ text.address # {} /\ length \in 0 .. Width[a.family]
      BY DEF ParsePrefix, Readable, HasValue
    <2>2. a \in IpAddress
      BY <2>1, PrefixTextsHaveAddresses DEF Value
    <2>3. prefix.network = a /\ prefix.length = length
      BY <2>1
    <2> HIDE DEF a, length
    <2> QED BY <2>1, <2>2, <2>3, ContainsIsExact
  <1> QED BY <1>1, FilesAreDocuments, PTL

-----------------------------------------------------------------------------
(* When the statement of the documents holds that not every input obeys.   *)

\* The documents that the schemas allow: a PDR names a protocol they list, or
\* none, and a packet has a size of 32 bits.
ProtocolsKnown ==
  \A doc \in DocumentsAt(RulesAt) : RulesStatus(doc) = "OK" =>
    \A k \in DOMAIN doc.pdrs : doc.pdrs[k].protocol \in TransportProtocol \cup {Missing}
SizesFit ==
  \A doc \in DocumentsAt(PacketsAt) : PacketsStatus(doc) = "OK" =>
    \A k \in DOMAIN doc.packets : doc.packets[k].payloadBytes \in 0 .. Modulus[32] - 1

\* What is active is the ruleset of the file, and the k-th decision is about
\* the k-th packet of the file; both files have been accepted.
WrittenInv ==
  /\ \A rs \in rules :
       /\ rs = RuleSetOf(RulesDoc)
       /\ RulesDoc \in DocumentsAt(RulesAt) /\ RulesStatus(RulesDoc) = "OK"
  /\ \A k \in DOMAIN result.decisions :
       /\ result.decisions[k].packet = PacketOf(PacketsDoc.packets[k])
       /\ k \in DOMAIN PacketsDoc.packets
       /\ PacketsDoc \in DocumentsAt(PacketsAt) /\ PacketsStatus(PacketsDoc) = "OK"

\* What process returns, retained or not, is about the packet it was given.
LEMMA AnswerIsAboutPacket ==
  ASSUME IInv, NEW p \in Packets, Process(p)
  PROVE  LET d == IF HasResultSpace THEN decisions'[Len(decisions')] ELSE Refused(p)
         IN  d.packet = p
PROOF
  <1>1. CASE ~ HasResultSpace
    <2>1. IsDecision(Received(p)) /\ Received(p).packet = p
      BY DecisionStages
    <2>2. Refused(p).packet = p
      BY <2>1, ResultSet DEF Refused
    <2> QED BY <1>1, <2>2
  <1>2. CASE HasResultSpace
    <2>1. PICK d : IsDecision(d) /\ Retain(d) /\ d.packet = p
      BY <1>2, ProcessOutcomes DEF IInv, RejectFull, Refuses, Commits
    <2>2. decisions'[Len(decisions')].packet = p
      BY <2>1, Retained DEF IInv, CoreInv
    <2> QED BY <1>2, <2>2
  <1> QED BY <1>1, <1>2

\* Every step of runFiles keeps to the files.
LEMMA RunKeepsWritten ==
  ASSUME RunInv, FilesInv, IInv, WrittenInv, RunNext
  PROVE  WrittenInv'
PROOF
  <1>1. rulesFile' = rulesFile /\ packetsFile' = packetsFile
    BY DEF RunNext, Read, InstallRules, NameRun, ProcessPacket, Finish
  <1>2. RulesDoc' = RulesDoc /\ PacketsDoc' = PacketsDoc
    BY <1>1 DEF RulesDoc, PacketsDoc
  <1>3. ASSUME pc \in {"install", "name", "run", "done"}
        PROVE  /\ RulesDoc \in DocumentsAt(RulesAt) /\ RulesStatus(RulesDoc) = "OK"
               /\ PacketsDoc \in DocumentsAt(PacketsAt) /\ PacketsStatus(PacketsDoc) = "OK"
    BY <1>3 DEF FilesInv, RulesDoc, PacketsDoc, Value
  <1>4. CASE Read \/ NameRun
    BY <1>2, <1>4 DEF Read, NameRun, vars, WrittenInv
  <1>5. CASE InstallRules
    <2>1. (rules' = {RuleSetOf(RulesDoc)} \/ rules' = rules) /\ result' = result
      BY <1>5 DEF InstallRules, Install, RefuseInstall
    <2> QED BY <1>2, <1>3, <1>5, <2>1 DEF InstallRules, WrittenInv
  <1>6. CASE ProcessPacket
    <2> DEFINE n == Done + 1
               p == PacketOf(PacketsDoc.packets[n])
               d == IF HasResultSpace THEN decisions'[Len(decisions')] ELSE Refused(p)
    <2>1. /\ IsVector(PacketsDoc.packets)
          /\ \A k \in DOMAIN PacketsDoc.packets : PacketOf(PacketsDoc.packets[k]) \in Packets
      BY <1>6, ReadInputs DEF ProcessPacket
    <2>2. Done \in Nat /\ Done < Len(PacketsDoc.packets)
      BY <1>6, Appended DEF ProcessPacket, Done, RunInv
    <2>3. n \in DOMAIN PacketsDoc.packets
      BY <2>1, <2>2 DEF IsVector
    <2>4. /\ Process(p) /\ rules' = rules
          /\ result' = [result EXCEPT !.decisions = Append(result.decisions, d)]
      BY <1>6 DEF ProcessPacket
    <2>5. d.packet = p
      BY <2>1, <2>3, <2>4, AnswerIsAboutPacket
    <2> HIDE DEF d
    <2>6. result'.decisions = Append(result.decisions, d)
      BY <2>4 DEF RunInv, IsResult
    <2>7. /\ DOMAIN result'.decisions = 1 .. n /\ DOMAIN result.decisions = 1 .. n - 1
          /\ \A k \in DOMAIN result.decisions : result'.decisions[k] = result.decisions[k]
          /\ result'.decisions[n] = d
      BY <2>6, Appended DEF RunInv, Done
    <2>8. \A k \in DOMAIN result'.decisions : k = n \/ k \in DOMAIN result.decisions
      BY <2>2, <2>7
    <2> HIDE DEF n
    <2>9. ASSUME NEW k \in DOMAIN result'.decisions
          PROVE  /\ result'.decisions[k].packet = PacketOf(PacketsDoc.packets[k])
                 /\ k \in DOMAIN PacketsDoc.packets
      BY <2>3, <2>5, <2>7, <2>8 DEF WrittenInv
    <2> QED BY <1>2, <1>3, <1>6, <2>4, <2>9 DEF ProcessPacket, WrittenInv
  <1>7. CASE Finish
    <2>1. result'.decisions = result.decisions /\ rules' = rules
      BY <1>7 DEF Finish, RunInv, IsResult, vars
    <2> QED BY <1>2, <2>1 DEF WrittenInv
  <1> QED BY <1>4, <1>5, <1>6, <1>7 DEF RunNext

\* So does every step of the process.
LEMMA CliKeepsWritten ==
  CliInv /\ FilesInv /\ IInv /\ WrittenInv /\ [CliNext]_cliVars => WrittenInv'
PROOF
  <1> SUFFICES ASSUME CliInv, FilesInv, IInv, WrittenInv, [CliNext]_cliVars PROVE WrittenInv'
    OBVIOUS
  <1>1. CASE UNCHANGED runVars
    BY <1>1 DEF runVars, vars, WrittenInv, RulesDoc, PacketsDoc
  <1>2. CASE StartFiles
    <2>1. pc = "idle" /\ UNCHANGED <<vars, result>>
      BY <1>2 DEF StartFiles, Start
    <2>2. rules = {} /\ DOMAIN result.decisions = {}
      BY <2>1, EmptyIsSeq DEF CliInv, RunInv, NewResult
    <2> QED BY <2>1, <2>2 DEF vars, WrittenInv
  <1>3. CASE RunNext
    BY <1>3, RunKeepsWritten DEF CliInv
  <1> QED BY <1>1, <1>2, <1>3 DEF CliNext, cliVars

\* README.md's "Input rejects unknown fields, invalid ranges" holds of files
\* that stay within the schemas: each is then run as it reads, every decision
\* about its own packet (parseRules, parsePackets, runFiles).
THEOREM WithinSchemasAsWritten ==
  ASSUME ProtocolsKnown, SizesFit
  PROVE  CliSpec => []AcceptedAsWritten
PROOF
  <1>1. CliInit => Init /\ FilesInv /\ WrittenInv
    <2>1. NewResult.decisions = <<>>
      BY DEF NewResult
    <2> QED BY <2>1, EmptyIsSeq, InputsAssumption
            DEF CliInit, RunInit, Constructed, Init, FilesInv, WrittenInv
  <1>2. WrittenInv => AcceptedAsWritten
    <2> SUFFICES ASSUME WrittenInv PROVE AcceptedAsWritten
      OBVIOUS
    <2>1. ASSUME NEW rs \in rules, NEW k \in DOMAIN rs.pdrs, RulesDoc.pdrs[k].protocol # Missing
          PROVE  rs.pdrs[k].protocol = {RulesDoc.pdrs[k].protocol}
      <3>1. /\ rs = RuleSetOf(RulesDoc)
            /\ RulesDoc \in DocumentsAt(RulesAt) /\ RulesStatus(RulesDoc) = "OK"
        BY DEF WrittenInv
      <3>2. rs.pdrs = [x \in DOMAIN RulesDoc.pdrs |-> PdrOf(RulesDoc.pdrs[x])]
        BY <3>1 DEF RuleSetOf, Map
      <3>3. RulesDoc.pdrs[k].protocol \in TransportProtocol
        BY <2>1, <3>1, <3>2 DEF ProtocolsKnown
      <3>4. rs.pdrs[k].protocol = ProtocolOf(RulesDoc.pdrs[k].protocol)
        BY <2>1, <3>2 DEF PdrOf
      <3> QED BY <3>3, <3>4 DEF ProtocolOf
    <2>2. ASSUME NEW k \in DOMAIN result.decisions
          PROVE  result.decisions[k].packet.payloadBytes = PacketsDoc.packets[k].payloadBytes
      <3> DEFINE size == PacketsDoc.packets[k].payloadBytes
      <3>1. result.decisions[k].packet.payloadBytes = size % Modulus[32]
        <4>1. \A item : PacketOf(item).payloadBytes = Number(item.payloadBytes, 32)
          BY DEF PacketOf
        <4>2. result.decisions[k].packet = PacketOf(PacketsDoc.packets[k])
          BY DEF WrittenInv
        <4> QED BY <4>1, <4>2 DEF Number
      <3>2. size \in 0 .. Modulus[32] - 1
        BY DEF WrittenInv, SizesFit
      <3>3. Modulus[32] \in Nat \ {0}
        BY ModulusAssumption
      <3> HIDE DEF size
      <3>4. size % Modulus[32] = size
        BY <3>2, <3>3
      <3> QED BY <3>1, <3>4 DEF size
    <2> QED BY <2>1, <2>2 DEF AcceptedAsWritten
  <1> QED
    BY <1>1, <1>2, InitCliInv, NextKeepsCliInv, CliKeepsFilesInv, CliKeepsWritten,
       ProcessIsPipeline, PipelineInvariant, PTL
    DEF CliSpec

\* A run from files installs once, and before it has decided anything.
LEMMA RunInstallsFresh ==
  CliInv /\ FilesInv /\ IInv /\ [CliNext]_cliVars => [FreshGenerations]_vars
PROOF
  <1> SUFFICES ASSUME CliInv, IInv, [CliNext]_cliVars PROVE FreshGenerations \/ UNCHANGED vars
    OBVIOUS
  <1>1. CASE UNCHANGED runVars \/ StartFiles \/ Read \/ NameRun \/ Finish
    BY <1>1 DEF runVars, StartFiles, Start, Read, NameRun, Finish
  <1>2. CASE InstallRules
    <2>1. decisions = <<>>
      BY <1>2 DEF InstallRules, CliInv, RunInv
    <2>2. Reporting = {}
      BY <2>1, EmptyIsSeq DEF Reporting
    <2>3. Len(reports) = 0 /\ DOMAIN reports = 1 .. Len(reports)
      BY <2>2, FS_EmptySet, Appended DEF IInv, CoreInv, ReportsAccounted
    <2>4. \A u : ReportsNaming(u) = {}
      BY <2>3 DEF ReportsNaming
    <2> QED BY <2>4 DEF FreshGenerations
  <1>3. CASE ProcessPacket
    <2>1. rules' = rules
      BY <1>3 DEF ProcessPacket
    <2>2. ASSUME NEW rs \in rules, NEW k \in DOMAIN rs.urrs
          PROVE  Survives(runtime.urrs, runtime.urrGenerations, rs.urrs[k])
      <3>1. WellTypedRuleSet(rs) /\ ValidateRuleSet(rs) /\ RuntimeOf(runtime, rs)
        BY CoreFacts DEF IInv
      <3>2. rs.urrs[k].id \in Ids(rs.urrs) /\ RuleOf(rs.urrs, rs.urrs[k].id) = rs.urrs[k]
        BY <3>1, RuleIsFound, ValidListsAreUnique DEF WellTypedRuleSet, Ids
      <3> QED BY <3>1, <3>2, SurvivesInRuntime
    <2> QED BY <2>1, <2>2 DEF FreshGenerations
  <1> QED BY <1>1, <1>2, <1>3 DEF CliNext, cliVars, RunNext

\* README.md's "one threshold report per generation" holds of every run from
\* files: it takes two installs to break it (runFiles, install).
THEOREM FileRunsReportOnce == CliSpec => []OneReportPerGeneration
PROOF
  <1>1. CliInit => FilesInv
    BY DEF CliInit, RunInit, FilesInv
  <1>2. CliSpec => []IInv
    BY ProcessIsPipeline, PipelineInvariant, PTL
  <1>3. CliSpec => [][FreshGenerations]_vars
    BY <1>1, <1>2, InitCliInv, NextKeepsCliInv, CliKeepsFilesInv, RunInstallsFresh, PTL DEF CliSpec
  <1> QED BY <1>3, ProcessIsPipeline, OneReportHolds, PTL

\* Of the decisions of a run: a packet that is committed is no larger than the
\* burst of its QER.
BurstsOfRun ==
  \A k \in DOMAIN decisions : \A q \in decisions[k].qer :
    decisions[k].result \in CommittedResults =>
      decisions[k].packet.payloadBytes <= RuleOf(Active.qers, q.qerId).burstBytes

\* A call of process keeps to it, while no bucket holds more than its burst.
LEMMA ProcessKeepsBursts ==
  ASSUME CoreInv, BucketsFilled, BurstsOfRun, NEW p \in Packets, Process(p),
         UNCHANGED <<limits, rules, since>>
  PROVE  BurstsOfRun'
PROOF
  <1>1. Active' = Active
    BY DEF Active
  <1>2. ASSUME NEW d, IsDecision(d), Retain(d),
               \A q \in d.qer : d.result \in CommittedResults =>
                 d.packet.payloadBytes <= RuleOf(Active.qers, q.qerId).burstBytes
        PROVE  BurstsOfRun'
    <2> DEFINE n == Len(decisions) + 1
    <2>1. /\ n \in Nat /\ DOMAIN decisions = 1 .. n - 1 /\ DOMAIN decisions' = 1 .. n
          /\ \A k \in DOMAIN decisions : decisions'[k] = decisions[k]
          /\ decisions'[n].packet = d.packet /\ decisions'[n].qer = d.qer
          /\ decisions'[n].result = d.result
      BY <1>2, Retained DEF CoreInv
    <2> HIDE DEF n
    <2>2. \A k \in DOMAIN decisions' : k \in DOMAIN decisions \/ k = n
      BY <2>1
    <2> QED BY <1>1, <1>2, <2>1, <2>2 DEF BurstsOfRun
  <1>3. CASE RejectFull(p)
    BY <1>1, <1>3 DEF RejectFull, BurstsOfRun
  <1>4. ASSUME NEW d, Refuses(p, d) PROVE BurstsOfRun'
    BY <1>2, <1>4 DEF Refuses
  <1>5. ASSUME NEW pdr, NEW d, Commits(pdr, p, d) PROVE BurstsOfRun'
    <2>1. IsDecision(d) /\ Retain(d) /\ d.packet = p
      BY <1>5 DEF Commits
    <2>2. CommitsPacket(pdr, p, d)
      BY <1>5 DEF CommitsPacket
    <2>3. \A q \in d.qer : p.payloadBytes <= RuleOf(Active.qers, q.qerId).burstBytes
      BY <2>2, CommitWithinBurst DEF BucketsFilled
    <2> QED BY <1>2, <2>1, <2>3
  <1> QED BY <1>3, <1>4, <1>5, ProcessOutcomes

\* Every step of the process keeps to it.
LEMMA CliKeepsBursts ==
  CliInv /\ FilesInv /\ IInv /\ ExplainInv /\ BurstsOfRun /\ [CliNext]_cliVars => BurstsOfRun'
PROOF
  <1> SUFFICES ASSUME CliInv, FilesInv, IInv, ExplainInv, BurstsOfRun, [CliNext]_cliVars
               PROVE  BurstsOfRun'
    OBVIOUS
  <1>1. CASE UNCHANGED runVars \/ StartFiles \/ Read \/ NameRun \/ Finish
    <2>1. UNCHANGED vars
      BY <1>1 DEF runVars, StartFiles, Start, Read, NameRun, Finish
    <2> QED BY <2>1 DEF vars, BurstsOfRun, Active
  <1>2. CASE InstallRules
    <2>1. decisions' = <<>>
      BY <1>2 DEF InstallRules, CliInv, RunInv
    <2> QED BY <2>1, EmptyIsSeq DEF BurstsOfRun
  <1>3. CASE ProcessPacket
    <2>1. /\ IsVector(PacketsDoc.packets)
          /\ \A k \in DOMAIN PacketsDoc.packets : PacketOf(PacketsDoc.packets[k]) \in Packets
      BY <1>3, ReadInputs DEF ProcessPacket
    <2>2. Done \in Nat /\ Done < Len(PacketsDoc.packets)
      BY <1>3, Appended DEF ProcessPacket, Done, CliInv, RunInv
    <2>3. Done + 1 \in DOMAIN PacketsDoc.packets
      BY <2>1, <2>2 DEF IsVector
    <2>4. Process(PacketOf(PacketsDoc.packets[Done + 1])) /\ UNCHANGED <<limits, rules, since>>
      BY <1>3 DEF ProcessPacket
    <2> QED BY <2>1, <2>3, <2>4, ProcessKeepsBursts DEF IInv, ExplainInv
  <1> QED BY <1>1, <1>2, <1>3 DEF CliNext, cliVars, RunNext

\* README.md's "zero burst permits none" holds of every run from files, as
\* does the more general: a packet larger than the burst never passes.
THEOREM FileRunsKeepBursts == CliSpec => []BurstsOfRun
PROOF
  <1>1. CliInit => Init /\ FilesInv /\ ExplainInv /\ BurstsOfRun
    <2>1. NewResult.decisions = <<>>
      BY DEF NewResult
    <2> QED BY <2>1, EmptyStory, EmptyIsSeq, InputsAssumption
            DEF CliInit, RunInit, Constructed, Init, FilesInv, BurstsOfRun
  <1> QED
    BY <1>1, InitCliInv, NextKeepsCliInv, CliKeepsFilesInv, CliTells, CliKeepsBursts,
       ProcessIsPipeline, PipelineInvariant, PTL
    DEF CliSpec

=============================================================================
