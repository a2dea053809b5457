------------------------------ MODULE MatchLoop ------------------------------
(***************************************************************************)
(* The candidate loop of PacketPipeline::process, one PDR per step, for a  *)
(* validated ruleset and a valid packet (src/application/                  *)
(* packet_pipeline.cpp).  The pipeline's module uses the closed form       *)
(* Winner of what this loop computes.                                      *)
(***************************************************************************)
EXTENDS Matcher

CONSTANTS LoopRuleSets,   \* rulesets given to install
          LoopPackets     \* packets given to process

ASSUME LoopRuleSetsAssumption ==
  \A rs \in LoopRuleSets :
    IsVector(rs.pdrs) /\ \A k \in DOMAIN rs.pdrs : WellTypedPdr(rs.pdrs[k])
ASSUME LoopPacketsAssumption == \A p \in LoopPackets : WellTypedPacket(p)

VARIABLES rules,    \* rules_, installed
          packet,   \* the packet being processed
          i,        \* the next index of the loop
          winner    \* the pointer winner, Optional

vars == <<rules, packet, i, winner>>

Init ==
  /\ rules \in {rs \in LoopRuleSets : ValidateRuleSet(rs)}
  /\ packet \in {p \in LoopPackets : ValidPacket(p) /\ p.sessionId = rules.sessionId}
  /\ i = 1
  /\ winner = {}

\* Mutant: the last match wins.
BeatsAny(pdr) == Matches(pdr, packet)

\* candidate.matched && (winner == 0 || precedence < winner->precedence)
Beats(pdr) ==
  /\ Matches(pdr, packet)
  /\ \A w \in winner : pdr.precedence < w.precedence

Step ==
  /\ i <= Len(rules.pdrs)
  /\ winner' = IF Beats(rules.pdrs[i]) THEN {rules.pdrs[i]} ELSE winner
  /\ i' = i + 1
  /\ UNCHANGED <<rules, packet>>

Next == Step

Spec == Init /\ [][Next]_vars

-----------------------------------------------------------------------------
Done == i > Len(rules.pdrs)

\* The pointer left by the loop is the first matching PDR of the lowest
\* precedence (the closed form Winner of the pipeline's model), whatever the
\* order in which better and worse matches come.
LoopFindsWinner == Done => winner = Winner(rules, packet)

\* "Deterministic PDR matching": because validation refuses two PDRs of one
\* precedence with overlapping match spaces (validation.cpp,
\* matchSpacesOverlap), every other matching PDR has a strictly higher
\* precedence, so the order of the PDRs in the ruleset never decides.  It
\* fails if any of the seven overlap tests is narrower than the criterion of
\* evaluateCandidate it stands for.
WinnerIsUnique ==
  Done => \A k \in DOMAIN rules.pdrs :
    Matches(rules.pdrs[k], packet) =>
      \E w \in winner : rules.pdrs[k] = w \/ w.precedence < rules.pdrs[k].precedence
=============================================================================
