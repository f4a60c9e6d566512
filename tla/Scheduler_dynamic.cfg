SPECIFICATION Spec
CONSTANTS
  RTThread = {t1, t2}
  FG = fg1
  TopPriority = 2
  Saturated = 4
  OverloadThreshold = 1
  Calls = {"ChangePriority", "TimedYield", "Abort"}
  MaxNesting = 1
  MaxFrames = 3
SYMMETRY ThreadSymmetry
INVARIANTS
  NoFault
  PreemptedOwnsFrame
  PriorityTableCounts
PROPERTIES
  AbortedStaysStopped
