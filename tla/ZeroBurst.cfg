SPECIFICATION BucketsSpec
CONSTANTS
  QerId = 1
  MaxBurst = 9
  MaxRate = 4
  UInt64Max = 15
  BitMicrosPerByte = 8
  RulesPerType = 2
  Width <- MCWidth
  RuleSets <- MCZeroRuleSets
  Packets <- MCPackets
  Limits <- MCLimits
INVARIANT
  ZeroBurstPermitsNone
