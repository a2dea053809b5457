SPECIFICATION CliSpec
CONSTANTS
  UInt64Max = 16777215
  BitMicrosPerByte = 8
  RulesPerType = 2
  LimitScale = 512
  Missing = Missing
  Mistyped = Mistyped
  ByteBits = 3
  Width <- MCWidth
  Modulus <- MCModulus
  RuleSets <- MCRuleSets
  Packets <- MCPackets
  Limits <- MCLimits
  Argvs <- MCOddArgvs
  RulesAt <- MCRulesAt
  PacketsAt <- MCPacketsAt
  ScenarioNames = {"overload"}
CHECK_DEADLOCK FALSE
INVARIANT
  AcceptedAsWritten
