\* The same programs as MCCallDiscipline.
SPECIFICATION MCSpec
CONSTANTS
  Half = 8
  HalfWord = 4
  WordBits = 4
  MemorySlots = 3
  StepLimit = 14
  HostedStatus = 10
  Programs <- MCPrograms
  InputTokens <- MCTokens
  Inputs <- MCInputs
PROPERTY ReturnIsAtomic
CHECK_DEADLOCK FALSE
