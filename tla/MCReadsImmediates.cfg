\* The objects of MCAssembler, against the immediate field of the instruction set.
SPECIFICATION AsmSpec
CONSTANTS
  Menu <- MCMenu
  Targets <- MCTargets
  Globals <- MCGlobals
INVARIANTS
  MachineReadsImmediates
\* An assembly ends with an error, and a reader with the end of the code.
CHECK_DEADLOCK FALSE
