------------------------------- MODULE Runtime -------------------------------
(***************************************************************************)
(* RuntimeState (include/upf/domain/runtime_state.hpp): the token buckets  *)
(* and usage counters of the rules, by rule id, with the generation each   *)
(* belongs to, and what a new ruleset makes of them.  PacketPipeline and   *)
(* RuleService hold one each and migrate it with the same loops.           *)
(***************************************************************************)
EXTENDS Rules, Engine

NoRuntime == [qers |-> <<>>, urrs |-> <<>>, qerGenerations |-> <<>>, urrGenerations |-> <<>>]

Ids(list) == {list[i].id : i \in DOMAIN list}
RuleOf(list, id) == Value(FindRule(list, id))

\* Mutant: the generation is not compared.
SurvivesById(states, generations, rule) == rule.id \in DOMAIN states

\* A rule keeps its state when the installed one of its id has its generation.
Survives(states, generations, rule) ==
  /\ rule.id \in DOMAIN generations
  /\ generations[rule.id] = rule.generation
  /\ rule.id \in DOMAIN states

Generations(list) == [id \in Ids(list) |-> RuleOf(list, id).generation]

\* The runtime state for the rules of rs and for no other.
Migrated(state, rs) ==
  [qers |-> [id \in Ids(rs.qers) |->
               IF Survives(state.qers, state.qerGenerations, RuleOf(rs.qers, id))
               THEN state.qers[id] ELSE FreshBucket(RuleOf(rs.qers, id))],
   urrs |-> [id \in Ids(rs.urrs) |->
               IF Survives(state.urrs, state.urrGenerations, RuleOf(rs.urrs, id))
               THEN state.urrs[id] ELSE FreshUsage],
   qerGenerations |-> Generations(rs.qers),
   urrGenerations |-> Generations(rs.urrs)]
=============================================================================
