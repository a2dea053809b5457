SPECIFICATION Spec
CONSTANTS
  UInt64Max = 15
  UInt32Max = 3
  BitMicrosPerByte = 8
  RulesPerType = 2
  Width <- MCWidth
  RuleSets <- MCRuleSets
  UpdateIds <- MCUpdateIds
  RemoveVersions <- MCRemoveVersions
  Scripts <- MCScripts
  MaximumAttempts = 2
  MaxUsage = 1
INVARIANTS
  TypeOK
  ConvergedIsApplied
  StatusIsTruthful
PROPERTIES
  StaleNeverApplied
  CountersSurvive
  ReconciliationConverges
