-------------------------- MODULE MatchLoop_proofs --------------------------
(***************************************************************************)
(* Proofs about PDR matching: validation's overlap test is wide enough,    *)
(* and the candidate loop finds the one PDR it leaves.                     *)
(***************************************************************************)
EXTENDS MatchLoop, TLAPS

\* Two prefixes that contain one address are nested.
LEMMA NestedPrefixes ==
  ASSUME NEW p, NEW q, NEW address, p.length \in Nat, q.length \in Nat,
         PrefixContains(p, address), PrefixContains(q, address)
  PROVE  PrefixContains(p, q.network) \/ PrefixContains(q, p.network)
PROOF
  <1>1. CASE p.length <= q.length
    <2>1. ASSUME NEW k \in 1 .. p.length PROVE p.network.bits[k] = q.network.bits[k]
      <3>1. k \in 1 .. q.length
        BY <1>1
      <3> QED BY <3>1 DEF PrefixContains
    <2> QED BY <2>1 DEF PrefixContains
  <1>2. CASE q.length <= p.length
    <2>1. ASSUME NEW k \in 1 .. q.length PROVE q.network.bits[k] = p.network.bits[k]
      <3>1. k \in 1 .. p.length
        BY <1>2
      <3> QED BY <3>1 DEF PrefixContains
    <2> QED BY <2>1 DEF PrefixContains
  <1> QED BY <1>1, <1>2

\* Two port ranges that contain one port overlap.
LEMMA CommonPort ==
  ASSUME NEW a, NEW b, NEW port \in Nat,
         \A r \in a : r.first \in Nat /\ r.last \in Nat /\ PortRangeContains(r, port),
         \A r \in b : r.first \in Nat /\ r.last \in Nat /\ PortRangeContains(r, port)
  PROVE  RangesOverlap(a, b)
PROOF
  BY DEF RangesOverlap, PortRangeContains, PortRangeValid

\* Two optional values that both agree with one value overlap.
LEMMA CommonValue ==
  ASSUME NEW a, NEW b, NEW v, AtMostOne(a), AtMostOne(b),
         \A x \in a : x = v, \A x \in b : x = v
  PROVE  OptionalValuesOverlap(a, b)
PROOF
  BY DEF OptionalValuesOverlap

\* The heart of deterministic matching: two PDRs that match one packet have
\* overlapping match spaces in the sense of validation.cpp.
LEMMA MatchedOverlap ==
  ASSUME NEW a, NEW b, NEW p \in LoopPackets, WellTypedPdr(a), WellTypedPdr(b),
         Matches(a, p), Matches(b, p)
  PROVE  MatchSpacesOverlap(a, b)
PROOF
  <1>1. /\ AtMostOne(p.tunnel) /\ LocalPort(p) \in Nat /\ RemotePort(p) \in Nat
    BY LoopPacketsAssumption DEF WellTypedPacket, LocalPort, RemotePort
  <1>2. a.sourceInterface = b.sourceInterface
    BY DEF Matches, Criteria
  <1>3. OptionalValuesOverlap(a.teid, b.teid)
    <2>1. CASE p.tunnel = {}
      BY <2>1 DEF Matches, Criteria, OptionalValuesOverlap
    <2>2. CASE p.tunnel # {}
      <3>1. PICK t \in p.tunnel : TRUE
        BY <2>2
      <3>2. \A s \in p.tunnel : s = t
        BY <1>1, <3>1 DEF AtMostOne
      <3>3. \A x \in a.teid : x = t.teid
        BY <3>2 DEF Matches, Criteria
      <3>4. \A x \in b.teid : x = t.teid
        BY <3>2 DEF Matches, Criteria
      <3> QED BY <3>3, <3>4, CommonValue DEF WellTypedPdr
    <2> QED BY <2>1, <2>2
  <1>4. OptionalValuesOverlap(a.qfi, b.qfi)
    <2>1. CASE p.tunnel = {}
      BY <2>1 DEF Matches, Criteria, OptionalValuesOverlap
    <2>2. CASE p.tunnel # {}
      <3>1. PICK t \in p.tunnel : TRUE
        BY <2>2
      <3>2. \A s \in p.tunnel : s = t
        BY <1>1, <3>1 DEF AtMostOne
      <3>3. \A x \in a.qfi : x = t.qfi
        BY <3>2 DEF Matches, Criteria
      <3>4. \A x \in b.qfi : x = t.qfi
        BY <3>2 DEF Matches, Criteria
      <3> QED BY <3>3, <3>4, CommonValue DEF WellTypedPdr
    <2> QED BY <2>1, <2>2
  <1>5. OptionalValuesOverlap(a.protocol, b.protocol)
    <2>1. \A x \in a.protocol : x = p.protocol
      BY DEF Matches, Criteria
    <2>2. \A x \in b.protocol : x = p.protocol
      BY DEF Matches, Criteria
    <2> QED BY <2>1, <2>2, CommonValue DEF WellTypedPdr
  <1>6. \/ PrefixContains(a.uePrefix, b.uePrefix.network)
        \/ PrefixContains(b.uePrefix, a.uePrefix.network)
    <2>1. /\ PrefixContains(a.uePrefix, UeAddress(p)) /\ PrefixContains(b.uePrefix, UeAddress(p))
      BY DEF Matches, Criteria
    <2> QED BY <2>1, NestedPrefixes DEF WellTypedPdr
  <1>7. RangesOverlap(a.localPorts, b.localPorts)
    <2>1. /\ \A r \in a.localPorts : PortRangeContains(r, LocalPort(p))
          /\ \A r \in b.localPorts : PortRangeContains(r, LocalPort(p))
      BY DEF Matches, Criteria
    <2> QED BY <1>1, <2>1, CommonPort DEF WellTypedPdr
  <1>8. RangesOverlap(a.remotePorts, b.remotePorts)
    <2>1. /\ \A r \in a.remotePorts : PortRangeContains(r, RemotePort(p))
          /\ \A r \in b.remotePorts : PortRangeContains(r, RemotePort(p))
      BY DEF Matches, Criteria
    <2> QED BY <1>1, <2>1, CommonPort DEF WellTypedPdr
  <1> QED
    BY <1>2, <1>3, <1>4, <1>5, <1>6, <1>7, <1>8 DEF MatchSpacesOverlap

-----------------------------------------------------------------------------
\* PDR k is the best match among the first n.
Best(k, n) ==
  /\ Matches(rules.pdrs[k], packet)
  /\ \A j \in 1 .. n :
       Matches(rules.pdrs[j], packet) =>
         \/ rules.pdrs[k].precedence < rules.pdrs[j].precedence
         \/ rules.pdrs[k].precedence = rules.pdrs[j].precedence /\ k <= j

\* The loop invariant: winner is the best match among the PDRs already seen.
LoopInv ==
  /\ rules \in LoopRuleSets /\ ValidateRuleSet(rules) /\ packet \in LoopPackets
  /\ i \in 1 .. Len(rules.pdrs) + 1
  /\ winner = {} => \A j \in 1 .. i - 1 : ~ Matches(rules.pdrs[j], packet)
  /\ winner # {} => \E k \in 1 .. i - 1 : winner = {rules.pdrs[k]} /\ Best(k, i - 1)

\* A step of the loop keeps it.
LEMMA StepKeepsLoopInv ==
  LoopInv /\ [Next]_vars => LoopInv'
PROOF
  <1> SUFFICES ASSUME LoopInv, [Next]_vars PROVE LoopInv'
    OBVIOUS
  <1>1. ASSUME UNCHANGED vars PROVE LoopInv'
    BY <1>1 DEF vars, LoopInv, Best
  <1>2. ASSUME Step PROVE LoopInv'
    <2> DEFINE n == Len(rules.pdrs)
               M(j) == Matches(rules.pdrs[j], packet)
               prec(j) == rules.pdrs[j].precedence
    <2>1. /\ n \in Nat /\ i \in 1 .. n /\ i - 1 \in 0 .. n /\ i' - 1 = i
          /\ rules' = rules /\ packet' = packet /\ i' = i + 1 /\ i' \in 1 .. n + 1
      BY <1>2, LoopRuleSetsAssumption DEF IsVector, Step, LoopInv
    <2>2. \A j \in 1 .. n : prec(j) \in Nat
      BY LoopRuleSetsAssumption DEF LoopInv, WellTypedPdr
    <2>3. \A j \in 1 .. i : j \in 1 .. i - 1 \/ j = i
      BY <2>1
    <2> DEFINE Goal == /\ winner' = {} => \A j \in 1 .. i : ~ M(j)
                       /\ winner' # {} => \E k \in 1 .. i : winner' = {rules.pdrs[k]} /\ Best(k, i)
    <2> SUFFICES Goal
      <3> SUFFICES ASSUME Goal PROVE LoopInv'
        OBVIOUS
      <3>1. /\ winner' = {} => \A j \in 1 .. i' - 1 : ~ Matches(rules'.pdrs[j], packet')
        BY <2>1
      <3>2. ASSUME winner' # {}
            PROVE  \E k \in 1 .. i' - 1 : winner' = {rules'.pdrs[k]} /\ Best(k, i - 1)'
        <4>1. PICK k \in 1 .. i : winner' = {rules.pdrs[k]} /\ Best(k, i)
          BY <3>2
        <4>2. Best(k, i - 1)'
          BY <2>1, <4>1 DEF Best
        <4> QED BY <2>1, <4>1, <4>2
      <3> QED BY <2>1, <3>1, <3>2 DEF LoopInv
    <2>4. CASE winner = {} /\ M(i)
      <3>1. winner' = {rules.pdrs[i]}
        BY <1>2, <2>4 DEF Step, Beats
      <3>2. \A j \in 1 .. i : M(j) => j = i
        BY <2>3, <2>4 DEF LoopInv
      <3>3. Best(i, i)
        BY <2>1, <2>4, <3>2 DEF Best
      <3> QED BY <2>1, <3>1, <3>3
    <2>5. CASE ~ M(i)
      <3>1. winner' = winner
        BY <1>2, <2>5 DEF Step, Beats
      <3>2. CASE winner = {}
        <4>1. \A j \in 1 .. i : ~ M(j)
          BY <2>3, <2>5, <3>2 DEF LoopInv
        <4> QED BY <3>1, <3>2, <4>1
      <3>3. CASE winner # {}
        <4>1. PICK k \in 1 .. i - 1 : winner = {rules.pdrs[k]} /\ Best(k, i - 1)
          BY <3>3 DEF LoopInv
        <4>2. k \in 1 .. i /\ Best(k, i)
          BY <2>1, <2>3, <2>5, <4>1 DEF Best
        <4> QED BY <3>1, <3>3, <4>1, <4>2
      <3> QED BY <3>2, <3>3
    <2>6. CASE winner # {} /\ M(i)
      <3>1. PICK k \in 1 .. i - 1 : winner = {rules.pdrs[k]} /\ Best(k, i - 1)
        BY <2>6 DEF LoopInv
      <3>2. k \in 1 .. n /\ k \in 1 .. i /\ k < i /\ M(k)
        BY <2>1, <3>1 DEF Best
      <3>3. \A j \in 1 .. i - 1 : M(j) => (prec(k) < prec(j) \/ (prec(k) = prec(j) /\ k <= j))
        BY <3>1 DEF Best
      <3>4. CASE prec(i) < prec(k)
        <4>1. winner' = {rules.pdrs[i]}
          BY <1>2, <2>6, <3>1, <3>4 DEF Step, Beats
        <4>2. ASSUME NEW j \in 1 .. i, M(j)
              PROVE  prec(i) < prec(j) \/ (prec(i) = prec(j) /\ i <= j)
          <5>1. CASE j = i
            BY <2>1, <5>1
          <5>2. CASE j \in 1 .. i - 1
            <6>1. prec(k) <= prec(j) /\ j \in 1 .. n
              BY <2>1, <2>2, <3>2, <3>3, <4>2, <5>2
            <6>2. prec(i) \in Nat /\ prec(j) \in Nat /\ prec(k) \in Nat
              BY <2>1, <2>2, <3>2, <6>1
            <6> HIDE DEF prec
            <6> QED BY <3>4, <6>1, <6>2
          <5> QED BY <2>3, <5>1, <5>2
        <4>3. Best(i, i)
          BY <2>6, <4>2 DEF Best
        <4> QED BY <2>1, <4>1, <4>3
      <3>5. CASE ~ (prec(i) < prec(k))
        <4>1. winner' = winner
          BY <1>2, <2>6, <3>1, <3>5 DEF Step, Beats
        <4>2. prec(k) < prec(i) \/ (prec(k) = prec(i) /\ k <= i)
          BY <2>1, <2>2, <3>2, <3>5
        <4>3. Best(k, i)
          BY <2>3, <3>2, <3>3, <4>2 DEF Best
        <4> QED BY <2>6, <3>1, <3>2, <4>1, <4>3
      <3> QED BY <3>4, <3>5
    <2> QED BY <2>4, <2>5, <2>6
  <1> QED BY <1>1, <1>2 DEF Next

\* The loop starts with the invariant.
LEMMA InitLoopInv == Init => LoopInv
PROOF
  <1> SUFFICES ASSUME Init PROVE LoopInv
    OBVIOUS
  <1>1. rules \in LoopRuleSets /\ ValidateRuleSet(rules) /\ packet \in LoopPackets
    BY DEF Init
  <1>2. i = 1 /\ winner = {} /\ 1 \in 1 .. Len(rules.pdrs) + 1
    BY <1>1, LoopRuleSetsAssumption DEF IsVector, Init
  <1> QED BY <1>1, <1>2 DEF LoopInv

\* When the loop is done its pointer is Winner, and unique.
LEMMA LoopInvSuffices == LoopInv => LoopFindsWinner /\ WinnerIsUnique
PROOF
  <1> SUFFICES ASSUME LoopInv, Done PROVE
        /\ winner = Winner(rules, packet)
        /\ \A k \in DOMAIN rules.pdrs :
             Matches(rules.pdrs[k], packet) =>
               \E w \in winner : rules.pdrs[k] = w \/ w.precedence < rules.pdrs[k].precedence
    BY DEF LoopFindsWinner, WinnerIsUnique
  <1> DEFINE n == Len(rules.pdrs)
             M(j) == Matches(rules.pdrs[j], packet)
             prec(j) == rules.pdrs[j].precedence
  <1>1. n \in Nat /\ i - 1 = n /\ DOMAIN rules.pdrs = 1 .. n
    BY LoopRuleSetsAssumption DEF IsVector, LoopInv, Done
  <1>2. \A j \in 1 .. n : prec(j) \in Nat /\ WellTypedPdr(rules.pdrs[j])
    BY <1>1, LoopRuleSetsAssumption DEF LoopInv, WellTypedPdr
  <1>3. CASE winner = {}
    <2>1. \A j \in 1 .. n : ~ M(j)
      BY <1>1, <1>3 DEF LoopInv
    <2>2. Winner(rules, packet) = {}
      BY <1>1, <2>1 DEF Winner
    <2> QED BY <1>1, <1>3, <2>1, <2>2
  <1>4. CASE winner # {}
    <2>1. PICK k \in 1 .. n : winner = {rules.pdrs[k]} /\ Best(k, n)
      BY <1>1, <1>4 DEF LoopInv
    <2>2. /\ M(k)
          /\ \A j \in 1 .. n : M(j) => prec(k) < prec(j) \/ (prec(k) = prec(j) /\ k <= j)
      BY <2>1 DEF Best
    <2> DEFINE W == {m \in DOMAIN rules.pdrs :
                       /\ Matches(rules.pdrs[m], packet)
                       /\ \A j \in DOMAIN rules.pdrs :
                            Matches(rules.pdrs[j], packet) =>
                              \/ rules.pdrs[m].precedence < rules.pdrs[j].precedence
                              \/ rules.pdrs[m].precedence = rules.pdrs[j].precedence /\ m <= j}
    <2>3. \A m \in W : m = k
      <3> SUFFICES ASSUME NEW m \in W PROVE m = k
        OBVIOUS
      <3>1. /\ m \in 1 .. n /\ M(m)
            /\ prec(m) < prec(k) \/ (prec(m) = prec(k) /\ m <= k)
        BY <1>1, <2>1, <2>2
      <3>2. prec(k) < prec(m) \/ (prec(k) = prec(m) /\ k <= m)
        BY <2>2, <3>1
      <3>3. prec(k) \in Nat /\ prec(m) \in Nat /\ k \in Nat /\ m \in Nat
        BY <1>1, <1>2, <2>1, <3>1
      <3> HIDE DEF prec
      <3> QED BY <3>1, <3>2, <3>3
    <2>4. k \in W
      BY <1>1, <2>1, <2>2
    <2>5. W = {k}
      BY <2>3, <2>4
    <2>6. winner = Winner(rules, packet)
      <3>1. Winner(rules, packet) = {rules.pdrs[m] : m \in W}
        BY DEF Winner
      <3> HIDE DEF W
      <3> QED BY <2>1, <2>5, <3>1
    <2>7. ASSUME NEW j \in 1 .. n, M(j)
          PROVE  rules.pdrs[j] = rules.pdrs[k] \/ prec(k) < prec(j)
      <3>1. CASE j = k
        BY <3>1
      <3>2. CASE j # k
        <4>1. MatchSpacesOverlap(rules.pdrs[k], rules.pdrs[j])
              /\ MatchSpacesOverlap(rules.pdrs[j], rules.pdrs[k])
          BY <1>2, <2>1, <2>2, <2>7, MatchedOverlap DEF LoopInv
        <4>2. \A x, y \in 1 .. n :
                x < y => ~ (prec(x) = prec(y) /\ MatchSpacesOverlap(rules.pdrs[x], rules.pdrs[y]))
          BY <1>1 DEF LoopInv, ValidateRuleSet
        <4>3. j < k \/ k < j
          BY <1>1, <2>1, <3>2
        <4>4. prec(k) # prec(j)
          <5> HIDE DEF prec
          <5> QED BY <2>1, <4>1, <4>2, <4>3
        <4> QED BY <2>2, <2>7, <4>4
      <3> QED BY <3>1, <3>2
    <2> QED BY <1>1, <2>1, <2>6, <2>7
  <1> QED BY <1>3, <1>4

\* For every validated ruleset and every packet the loop selects the PDR the
\* pipeline's model calls Winner, and no other match of that precedence
\* exists: the outcome does not depend on the order of the PDRs.
THEOREM MatchingIsDeterministic ==
  Spec => []LoopFindsWinner /\ []WinnerIsUnique
PROOF
  BY InitLoopInv, StepKeepsLoopInv, LoopInvSuffices, PTL DEF Spec

\* The loop of selectPdr, which keeps the smallest precedence seen so far,
\* answers the PDR that the definition by minimum names, at every validated
\* ruleset, packet and order of the PDRs.
THEOREM LoopIsExact == Spec => []LoopFindsWinner
PROOF
  BY MatchingIsDeterministic, PTL
=============================================================================
