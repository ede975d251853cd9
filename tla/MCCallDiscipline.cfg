\* Two slots of memory: a function may call one more, and the third call
\* overflows.  Nine steps reach a return from the second.
SPECIFICATION MCSpec
CONSTANTS
  Half = 8
  HalfWord = 4
  WordBits = 4
  MemorySlots = 3
  StepLimit = 14
  HostedStatus = 10
  Programs <- MCPrograms
  InputTokens <- MCTokens
  Inputs <- MCInputs
INVARIANTS
  RunTypeOK
  StacksAgree
  StackNeverDamaged
PROPERTIES
  ResumesCaller
  Termination
\* The run ends when the function returns or throws.
CHECK_DEADLOCK FALSE
