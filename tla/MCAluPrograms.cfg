\* Every pair of words meets every instruction.
SPECIFICATION MCSpec
CONSTANTS
  Half = 8
  HalfWord = 4
  WordBits = 4
  AluReg = {0, 1}
  Immediate = {3, 15}
INVARIANTS
  ProgTypeOK
  JumpsDecideComparison
PROPERTIES
  WideSum
  WideDifference
  HighProduct
\* A division by zero ends the run.
CHECK_DEADLOCK FALSE
