SPECIFICATION FairSpec
CONSTANTS
  Size = 6
  Limit = 9
  ab = ab
  ca = ca
  d22 = d22
  Data = {ff, ab, ca, d22}
  Ones = ff
  TestData <- TestPattern
  MaxCalls = 3
  MaxFaults = 1
INVARIANTS TypeOK SelfTestMeasuresDisk
PROPERTIES CallsAreAtomic CommandsFindDriveResting CallsReturn SelfTestEnds
CHECK_DEADLOCK FALSE
