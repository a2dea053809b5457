--------------------------- MODULE MCControlPlane ---------------------------
(***************************************************************************)
(* Three versions of a session's ruleset, of which the last renews the     *)
(* URR, an invalid one, two update ids and the empty one, and adapters     *)
(* with every script of at most two outcomes.                              *)
(***************************************************************************)
EXTENDS ControlPlane

MCWidth == [IPV4 |-> 1, IPV6 |-> 1]

MCRules(version, generation) ==
  [sessionId |-> "s1", version |-> version, pdrs |-> <<>>, fars |-> <<>>, qers |-> <<>>,
   urrs |-> <<[id |-> 1, volumeThresholdBytes |-> 4, generation |-> generation]>>]

MCRuleSets ==
  {MCRules(1, 1), MCRules(2, 1), MCRules(3, 2),
   [MCRules(4, 1) EXCEPT !.urrs[1].id = 0]}
MCUpdateIds == {"", "u1", "u2"}
MCRemoveVersions == 1 .. 4
MCScripts == UNION {[1 .. n -> AdapterOutcome] : n \in 0 .. 2}
=============================================================================
