SPECIFICATION ScenarioSpec
CONSTANTS
  UInt64Max = 2147483647
  BitMicrosPerByte = 8000000
  RulesPerType = 256
  Width <- MCWidth
  RuleSets = {}
  Packets = {}
  Limits = {}
  ScenarioNames <- BuiltInScenarios
  Garbage = {0, 1}
INVARIANTS
  ScenariosDemonstrate
  DecidedScenariosRepeat
