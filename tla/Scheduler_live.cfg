SPECIFICATION FairSpec
CONSTANTS
  RTThread = {t1, t2}
  FG = fg1
  TopPriority = 2
  Saturated = 4
  OverloadThreshold = 1
  Calls = {"PlainReturn", "ForegroundYield", "TimedYield"}
  MaxNesting = 2
  MaxFrames = 4
PROPERTIES
  ReliefValve
