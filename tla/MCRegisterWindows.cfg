\* Three windows deep: a child, its parent and the root, so that
\* a frame is saved and restored while another one is suspended below it.
SPECIFICATION MCSpec
CONSTANTS
  Word = {0, 65536}
  Written = {8, 16, 24}
  MaxDepth = 3
  MaxPins = 1
INVARIANTS
  WindowTypeOK
  DisabledStaysFlat
PROPERTIES
  ImplementsLogicalWindows
  SuspendedPinsKept
\* A thrown exception ends the run.
CHECK_DEADLOCK FALSE
