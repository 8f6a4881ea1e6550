SPECIFICATION Spec
CONSTANTS
  ShortBits = 2
  IntBits = 3
  LongBits = 4
  SmallBits = 3
  WideBits = 6
  DoubleBits = 3
  FloatBits = 2
  VectorBits = 2
  CharN = 3
  ArrayN = 2
  Text <- TheText
  Lists <- TheLists
  Times <- TheTimes
  Documents <- TheDocuments
  NoNumber = NoNumber
INVARIANTS
  NumbersSurvive
  RoundTrips
  FailureKeepsDestination
