SPECIFICATION Spec
CONSTANTS
  UInt64Max = 31
  BitMicrosPerByte = 8
  Qers <- MCQers
  Sizes <- MCSizes
  Times <- MCTimes
  MaxBurst = 4
  MaxRate = 5
INVARIANTS
  TypeOK
  Conformance
  WithinBurst
PROPERTIES
  RefillMovesForward
  OverflowIsPermanent
