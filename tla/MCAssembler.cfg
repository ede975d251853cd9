\* Five-line sources; 64-bit objects with and without windows, 32-bit objects.
SPECIFICATION AsmSpec
CONSTANTS
  Menu <- MCMenu
  Targets <- MCTargets
  Globals <- MCGlobals
INVARIANTS
  AsmTypeOK
  DisassemblyFaithful
  MachineInStep
  BranchesLand
  RelocationsNameTheField
  CompleteAtLastByte
  ProfileMatchesObject
  DisassemblyFinishes
PROPERTIES
  OnlyLabelFieldsPatched
\* An assembly ends with an error, and a reader with the end of the code.
CHECK_DEADLOCK FALSE
