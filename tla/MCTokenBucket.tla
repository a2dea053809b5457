---------------------------- MODULE MCTokenBucket ----------------------------
(***************************************************************************)
(* One QER id with four configurations: two of the first generation that   *)
(* trade rate against burst, the same with its gate closed, and one of a   *)
(* second generation.  Integers have the values 0..31.                     *)
(***************************************************************************)
EXTENDS TokenBucket

MCQer(gate, rate, burst, generation) ==
  [id |-> 1, gate |-> gate, rateBitsPerSecond |-> rate, burstBytes |-> burst,
   generation |-> generation]

MCQers ==
  {MCQer("OPEN", 3, 4, 1), MCQer("OPEN", 5, 2, 1), MCQer("CLOSED", 3, 4, 1),
   MCQer("OPEN", 0, 3, 2)}
MCSizes == {0, 1, 3, 5}
MCTimes == 0 .. 12
=============================================================================
