-------------------------------- MODULE Rules --------------------------------
(***************************************************************************)
(* Rulesets and their validation (include/upf/domain/rules.hpp,            *)
(* src/domain/validation.cpp).  A ruleset is a record of a session, a      *)
(* version and four sequences of rules; a rule refers to another by id.    *)
(* validateRuleSet answers yes or no here: its error texts are left out.   *)
(***************************************************************************)
EXTENDS UpfTypes, Address, Sequences

CONSTANT RulesPerType   \* CapacityLimits::rulesPerType

ASSUME RulesPerTypeAssumption == RulesPerType \in Nat

RuleLists(rules) == <<rules.pdrs, rules.fars, rules.qers, rules.urrs>>

-----------------------------------------------------------------------------
(* What the declared types of the fields say, where a proof needs it.      *)

IsVector(list) == Len(list) \in Nat /\ DOMAIN list = 1 .. Len(list)

WellTypedPdr(pdr) ==
  /\ pdr.precedence \in Nat /\ pdr.uePrefix.length \in Nat
  /\ AtMostOne(pdr.teid) /\ AtMostOne(pdr.protocol) /\ AtMostOne(pdr.qfi)
  /\ AtMostOne(pdr.qerId) /\ AtMostOne(pdr.urrId)
  /\ \A r \in pdr.localPorts \cup pdr.remotePorts : r.first \in Nat /\ r.last \in Nat

WellTypedFar(far) ==
  far.action \in FarAction /\ AtMostOne(far.destination) /\ AtMostOne(far.tunnel)

WellTypedQer(qer) ==
  /\ qer.gate \in GateStatus /\ qer.generation \in UInt64
  /\ qer.rateBitsPerSecond \in UInt64 /\ qer.burstBytes \in UInt64

WellTypedUrr(urr) == urr.volumeThresholdBytes \in UInt64 /\ urr.generation \in UInt64

WellTypedRuleSet(rules) ==
  /\ rules.version \in UInt64
  /\ IsVector(rules.pdrs) /\ \A i \in DOMAIN rules.pdrs : WellTypedPdr(rules.pdrs[i])
  /\ IsVector(rules.fars) /\ \A i \in DOMAIN rules.fars : WellTypedFar(rules.fars[i])
  /\ IsVector(rules.qers) /\ \A i \in DOMAIN rules.qers : WellTypedQer(rules.qers[i])
  /\ IsVector(rules.urrs) /\ \A i \in DOMAIN rules.urrs : WellTypedUrr(rules.urrs[i])

-----------------------------------------------------------------------------

\* findFar, findQer and findUrr: the first rule of the list with that id.
FindRule(list, id) ==
  {list[i] : i \in {k \in DOMAIN list :
                      /\ list[k].id = id
                      /\ \A j \in 1 .. k - 1 : list[j].id # id}}

UniqueIds(list) ==
  /\ \A i \in DOMAIN list : list[i].id # 0
  /\ \A i, j \in DOMAIN list : list[i].id = list[j].id => i = j

OptionalValuesOverlap(a, b) == a = {} \/ b = {} \/ a = b

RangesOverlap(a, b) ==
  \A r \in a, s \in b : r.first <= s.last /\ s.first <= r.last

\* Mutant: only the first prefix may contain the second.
MatchSpacesOverlapOneWay(a, b) ==
  /\ a.sourceInterface = b.sourceInterface
  /\ OptionalValuesOverlap(a.teid, b.teid)
  /\ PrefixContains(a.uePrefix, b.uePrefix.network)
  /\ OptionalValuesOverlap(a.protocol, b.protocol)
  /\ RangesOverlap(a.localPorts, b.localPorts)
  /\ RangesOverlap(a.remotePorts, b.remotePorts)
  /\ OptionalValuesOverlap(a.qfi, b.qfi)

\* Two PDRs overlap when some packet could match both.
MatchSpacesOverlap(a, b) ==
  /\ a.sourceInterface = b.sourceInterface
  /\ OptionalValuesOverlap(a.teid, b.teid)
  /\ \/ PrefixContains(a.uePrefix, b.uePrefix.network)
     \/ PrefixContains(b.uePrefix, a.uePrefix.network)
  /\ OptionalValuesOverlap(a.protocol, b.protocol)
  /\ RangesOverlap(a.localPorts, b.localPorts)
  /\ RangesOverlap(a.remotePorts, b.remotePorts)
  /\ OptionalValuesOverlap(a.qfi, b.qfi)

\* Mutant: a forwarding FAR is not compared with the PDR's direction.
FarFitsEither(pdr, far) ==
  IF far.action = "FORWARD"
  THEN \/ far.destination = {"N6"} /\ far.operation = "REMOVE"
       \/ /\ far.destination = {"N3"} /\ far.operation = "ADD"
          /\ \E tunnel \in far.tunnel : TunnelValid(tunnel)
  ELSE far.destination = {} /\ far.operation = "TUNNEL_NONE"

\* The FAR of a PDR fits the direction of the PDR.
FarFits(pdr, far) ==
  IF far.action = "FORWARD"
  THEN \/ /\ pdr.sourceInterface = "N3"
          /\ far.destination = {"N6"}
          /\ far.operation = "REMOVE"
       \/ /\ pdr.sourceInterface = "N6"
          /\ far.destination = {"N3"}
          /\ far.operation = "ADD"
          /\ \E tunnel \in far.tunnel : TunnelValid(tunnel)
  ELSE far.destination = {} /\ far.operation = "TUNNEL_NONE"

PdrValid(rules, pdr) ==
  /\ \E far \in FindRule(rules.fars, pdr.farId) : FarFits(pdr, far)
  /\ \A q \in pdr.qerId : FindRule(rules.qers, q) # {}
  /\ \A u \in pdr.urrId : FindRule(rules.urrs, u) # {}
  /\ HasValue(pdr.teid) <=> pdr.sourceInterface = "N3"
  /\ \A r \in pdr.localPorts \cup pdr.remotePorts : PortRangeValid(r)

ValidateRuleSet(rules) ==
  /\ rules.sessionId # "" /\ rules.version # 0
  /\ \A k \in 1 .. 4 : Len(RuleLists(rules)[k]) <= RulesPerType
  /\ \A k \in 1 .. 4 : UniqueIds(RuleLists(rules)[k])
  /\ \A i \in DOMAIN rules.pdrs : PdrValid(rules, rules.pdrs[i])
  /\ \A i, j \in DOMAIN rules.pdrs :
       i < j => ~ /\ rules.pdrs[i].precedence = rules.pdrs[j].precedence
                  /\ MatchSpacesOverlap(rules.pdrs[i], rules.pdrs[j])
=============================================================================
