SPECIFICATION Spec
CONSTANTS
  RTThread = {t1, t2, t3}
  FG = fg1
  TopPriority = 2
  Saturated = 2
  OverloadThreshold = 1
  Calls = {"Deregister", "PlainReturn"}
  MaxNesting = 2
  MaxFrames = 3
SYMMETRY ThreadSymmetry
INVARIANTS
  TypeOK
  ContextNamesRunner
  InterruptContextDetected
  OneMidFlightPerPriority
  LastExecutedInTable
PROPERTIES
  HighestPriorityRuns
