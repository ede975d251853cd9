\* Three open calls with and without frame pointers, each call with room for its
\* argument, one allocation of one or two units per activation.
SPECIFICATION MCSpec
CONSTANTS
  Block = 2
  Function <- MCFunction
  FramePointer <- MCFramePointer
  StackSize <- MCStackSize
  Locals <- MCLocals
  StackArguments <- MCPlainArgument
  Value = {1, 2}
  StackTop = 14
  MaxCalls = 3
  MaxBuffers = 1
INVARIANTS
  FrameTypeOK
  ObjectsReachable
  ArgumentsReachable
  BuffersKept
  ReturnRestores
\* The outermost function returns to the host.
CHECK_DEADLOCK FALSE

