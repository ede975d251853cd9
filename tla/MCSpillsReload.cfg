\* A function without frame pointer reloads a spilled value as an argument.
SPECIFICATION MCSpec
CONSTANTS
  Block = 2
  Function <- MCFunction
  FramePointer <- MCFramePointer
  StackSize <- MCStackSize
  Locals <- MCLocals
  StackArguments <- MCPlainArgument
  Value = {1, 2}
  StackTop = 14
  MaxCalls = 3
  MaxBuffers = 1
INVARIANTS
  SpillsReload
CHECK_DEADLOCK FALSE
