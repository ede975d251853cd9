\* A function with a frame pointer looks for its stack arguments.
SPECIFICATION MCSpec
CONSTANTS
  Block = 2
  Function <- MCFunction
  FramePointer <- MCFramePointer
  StackSize <- MCStackSize
  Locals <- MCLocals
  StackArguments <- MCDynamicArgument
  Value = {1}
  StackTop = 14
  MaxCalls = 3
  MaxBuffers = 1
INVARIANTS
  StackArgumentsPassed
CHECK_DEADLOCK FALSE
