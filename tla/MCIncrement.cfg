\* As MCAluPrograms, for one statement of the instruction set.
SPECIFICATION MCSpec
CONSTANTS
  Half = 8
  HalfWord = 4
  WordBits = 4
  AluReg = {0, 1}
  Immediate = {3, 15}
PROPERTY IncrementDefinesFlags
CHECK_DEADLOCK FALSE
