--------------------------- MODULE MCScenarioRunner ---------------------------
(***************************************************************************)
(* All ten scenarios in any order, with addresses of 32 bits and the       *)
(* numbers of the code; only the largest 64-bit integer is 2^31 - 1.       *)
(***************************************************************************)
EXTENDS ScenarioRunner

MCWidth == [IPV4 |-> 32, IPV6 |-> 128]
=============================================================================
