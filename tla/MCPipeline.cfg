SPECIFICATION BucketsSpec
CONSTANTS
  QerId = 1
  MaxBurst = 9
  MaxRate = 4
  UInt64Max = 15
  BitMicrosPerByte = 8
  RulesPerType = 2
  Width <- MCWidth
  RuleSets <- MCRuleSets
  Packets <- MCPackets
  Limits <- MCLimits
INVARIANTS
  TypeOK
  RuntimeFollowsRules
  SelectedIsServed
  UsageAccounted
  ReportsAccounted
  SinksAccounted
  EventsAccounted
  LimitsEnforced
PROPERTIES
  RefusedChangesNothing
  EventsAreASink
  SinksArePorts
  ImplementsTokenBucket
