SPECIFICATION Spec
CONSTANTS
  RTThread = {t1, t2}
  FG = fg1
  TopPriority = 3
  Saturated = 4
  OverloadThreshold = 1
  Calls = {"ChangePriority", "PlainReturn", "ForegroundYield"}
  MaxNesting = 1
  MaxFrames = 3
SYMMETRY ThreadSymmetry
CHECK_DEADLOCK FALSE
INVARIANTS
  PreemptedOwnsFrame
