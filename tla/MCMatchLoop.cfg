SPECIFICATION Spec
CONSTANTS
  UInt64Max = 15
  RulesPerType = 2
  Width <- MCWidth
  LoopRuleSets <- MCRuleSets
  LoopPackets <- MCPackets
CHECK_DEADLOCK FALSE
INVARIANTS
  WinnerIsUnique
  LoopFindsWinner
