SPECIFICATION Spec
CONSTANTS
  Routine = {r1, r2, r3}
  MB = 32
  ROUTINES = 4
  EMERGENCY_STACKS = 2
  Base = {16}
  Grants = {0, 1, 2}
  MaxLost = 2
SYMMETRY RoutineSymmetry
CHECK_DEADLOCK FALSE
INVARIANTS
  StacksApart
  NoneElseLost
  MemoryBehind
  EmergencyReserve
