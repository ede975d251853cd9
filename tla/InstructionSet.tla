--------------------------- MODULE InstructionSet ---------------------------
(***************************************************************************)
(* The instruction records the LLVM back end of SeaBird is generated from: *)
(* for each instruction its opcode byte and record class                   *)
(* (SeaBirdGenOpcodes.td), for each class the extension group and form     *)
(* kept in TSFlags (SeaBirdInstrInfo.td).  One to five instructions of     *)
(* every class are listed: those the encoder, the decoder and the          *)
(* reference machine single out, and one plain member.                     *)
(*                                                                         *)
(* An operand is a triple: <<"r", n, 0>> a general register, <<"v", n, 0>> *)
(* a vector register, <<"noidx", 0, 0>> the absent index register,         *)
(* <<"i", lo, hi>> a 64-bit immediate as two signed 32-bit halves, and     *)
(* <<"x", l, 0>> the address of label l.                                   *)
(***************************************************************************)
EXTENDS Integers, Sequences

Marker == [none |-> 0, assume |-> 1, likely |-> 2, unlikely |-> 3,
           stream |-> 4, prefetch |-> 5, temporary |-> 6, persistent |-> 7,
           independent |-> 8, reuse |-> 9, leaf |-> 10]

(* Class |-> <<extension group, form>>. *)
Class ==
  [CopyRR |-> <<0, "CopyRR">>, CopyVV |-> <<0, "CopyVV">>, ALURR |-> <<0, "ALURR">>,
   CarryALURR |-> <<0, "ALURR">>, UnaryInPlace |-> <<0, "UnaryInPlace">>,
   UnaryRR |-> <<0, "UnaryRR">>, CompareRR |-> <<0, "CompareRR">>,
   RI64 |-> <<0, "RI64">>, ALURI |-> <<0, "ALURI">>,
   CompareRI |-> <<0, "CompareRI">>, TernaryRI |-> <<0, "TernaryRI">>,
   TernaryByte |-> <<0, "TernaryByte">>, TernaryRR |-> <<0, "FPBinary">>,
   StringCopy |-> <<0, "FPBinary">>, StringFill |-> <<0, "FPBinary">>,
   PairLoad |-> <<0, "FPBinary">>, PairStore |-> <<0, "StoreQ">>,
   LoadQ |-> <<0, "LoadQ">>, StoreQ |-> <<0, "StoreQ">>,
   AddressCalc |-> <<0, "AddressCalc">>, FPBinary |-> <<0, "FPBinary">>,
   FPUnary |-> <<0, "CopyVV">>, FPCompare |-> <<0, "CopyVV">>,
   VBinary |-> <<0, "VBinary">>, VUnary |-> <<0, "CopyVV">>,
   VShiftImm |-> <<0, "TernaryByte">>, VectorLoad |-> <<0, "VectorLoad">>,
   VectorStore |-> <<0, "VectorStore">>, IntToFP |-> <<0, "IntToFP">>,
   FPToInt |-> <<0, "FPToInt">>, UncondBranch |-> <<0, "BranchRel32">>,
   CondBranch |-> <<0, "BranchRel32">>, Call |-> <<0, "BranchRel32">>,
   TxnBeginRel |-> <<0, "BranchRel32">>, RegCondBranch |-> <<0, "RegCondBranch">>,
   IndirectCall |-> <<0, "IndirectCall">>, IndirectBranch |-> <<0, "IndirectCall">>,
   TxnBeginAbs |-> <<0, "IndirectCall">>, TrapImm |-> <<0, "TrapImm">>,
   TxnAbortImm |-> <<0, "TrapImm">>, PushReg |-> <<0, "StackReg">>,
   PopReg |-> <<0, "StackReg">>, TxnAbortReg |-> <<0, "StackReg">>,
   FrameImm |-> <<0, "FrameImm">>, SleepImm |-> <<0, "FrameImm">>,
   ReadReg |-> <<0, "ReadReg">>, TxnReadReg |-> <<0, "ReadReg">>,
   ReadControl |-> <<0, "ControlReg">>, WriteControl |-> <<0, "ControlReg">>,
   SystemNoOperand |-> <<0, "NoOperand">>, NoOperand |-> <<0, "NoOperand">>,
   TxnNoOperand |-> <<0, "NoOperand">>, Return |-> <<0, "NoOperand">>,
   AtomicMem |-> <<0, "LoadQ">>, AtomicCAS |-> <<0, "LoadQ">>,
   AtomicExchange |-> <<0, "LoadQ">>, AtomicLoad |-> <<0, "LoadQ">>,
   AtomicExchange128 |-> <<0, "VectorLoad">>, MemoryOnly |-> <<0, "LoadQ">>,
   AVXBinary |-> <<1, "VBinary">>, AVXUnary |-> <<1, "CopyVV">>,
   AVXRegImm |-> <<1, "TernaryByte">>, AVXBinaryImm |-> <<1, "FPBinary">>,
   AVXGather |-> <<1, "VectorLoad">>, AVXScatter |-> <<1, "VectorStore">>,
   AVXNoOperand |-> <<1, "NoOperand">>,
   CryptoBinary |-> <<2, "VBinary">>, CryptoUnary |-> <<2, "CopyVV">>,
   DSPTernary |-> <<3, "FPBinary">>, DSPQuaternary |-> <<3, "FPBinary">>,
   DSPPairOut |-> <<3, "FPBinary">>, DSPUnary |-> <<3, "CopyVV">>,
   DSPRegImm |-> <<3, "TernaryByte">>, DSPDot |-> <<3, "VBinary">>,
   DSPSumDot |-> <<3, "CopyVV">>,
   SysXQuery |-> <<4, "CompareRR">>, SysXReadImm |-> <<4, "ControlReg">>,
   SysXWriteImm |-> <<4, "ControlReg">>, SysXMaskedMemory |-> <<4, "StoreQ">>,
   SysXNoOperand |-> <<4, "NoOperand">>, WindowTransition |-> <<4, "NoOperand">>,
   SysXPair |-> <<4, "CompareRR">>, SysXTernary |-> <<4, "FPBinary">>,
   SysXReg |-> <<4, "StackReg">>, SysXReadReg |-> <<4, "ReadReg">>,
   SysXMemory |-> <<4, "LoadQ">>, SysXStoreMemory |-> <<4, "StoreQ">>,
   SysXImm |-> <<4, "TrapImm">>,
   FPXFused |-> <<5, "FPBinary">>, FPXBinary |-> <<5, "FPBinary">>,
   FPXUnary |-> <<5, "CopyVV">>, FPXLoad |-> <<5, "ScalarFPLoad">>,
   FPXStore |-> <<5, "ScalarFPStore">>]

(* Instruction |-> <<opcode byte, class>>, as in the opcode map. *)
Opcodes ==
  [MOVrr |-> <<0, "CopyRR">>, MOVI64 |-> <<1, "RI64">>, LDBrr |-> <<19, "LoadQ">>,
   LDQrr |-> <<22, "LoadQ">>, STBrr |-> <<23, "StoreQ">>, STQrr |-> <<26, "StoreQ">>,
   LDP |-> <<27, "PairLoad">>, STP |-> <<28, "PairStore">>,
   LEA |-> <<29, "AddressCalc">>, ADDrr |-> <<32, "ALURR">>,
   ADDI |-> <<33, "ALURI">>, INC |-> <<43, "UnaryInPlace">>,
   ABSrr |-> <<52, "UnaryRR">>, EXTri |-> <<81, "TernaryByte">>,
   CMPrr |-> <<82, "CompareRR">>, CMPI |-> <<83, "CompareRI">>,
   JMP |-> <<92, "UncondBranch">>, JMPA |-> <<93, "IndirectBranch">>,
   CALL |-> <<94, "Call">>, CALLA |-> <<95, "IndirectCall">>,
   RET |-> <<96, "Return">>, JE |-> <<97, "CondBranch">>,
   JZR |-> <<109, "RegCondBranch">>, TRAP |-> <<112, "TrapImm">>,
   YIELD |-> <<113, "NoOperand">>, PREFETCH |-> <<114, "MemoryOnly">>,
   FLUSH |-> <<115, "MemoryOnly">>, CPYBrrr |-> <<123, "StringCopy">>,
   CPYWrrr |-> <<124, "StringCopy">>, MEMFILLrrr |-> <<125, "StringFill">>,
   HLT |-> <<126, "SystemNoOperand">>, RDCR |-> <<128, "ReadControl">>,
   WRCR |-> <<129, "WriteControl">>, SYSCALL |-> <<130, "NoOperand">>,
   RDTIME |-> <<136, "ReadReg">>, SLEEP |-> <<138, "SleepImm">>,
   PUSH |-> <<141, "PushReg">>, POP |-> <<142, "PopReg">>,
   ENTER |-> <<145, "FrameImm">>, PUSHQ |-> <<149, "PushReg">>,
   POPQ |-> <<150, "PopReg">>, VADD128 |-> <<151, "VBinary">>,
   VSHL128 |-> <<158, "VShiftImm">>, VLD128 |-> <<161, "VectorLoad">>,
   VST128 |-> <<162, "VectorStore">>, VABS128 |-> <<163, "VUnary">>,
   FADD64 |-> <<166, "FPBinary">>, FSQRT64 |-> <<170, "FPUnary">>,
   FCMP64 |-> <<171, "FPCompare">>, FCVTI64 |-> <<172, "IntToFP">>,
   FCVTS64 |-> <<173, "FPToInt">>, XCHGmem |-> <<177, "AtomicExchange">>,
   CMPXCHG |-> <<178, "AtomicCAS">>, ATADD |-> <<179, "AtomicMem">>,
   LL |-> <<184, "AtomicLoad">>, SC |-> <<185, "AtomicMem">>,
   XCHG128 |-> <<191, "AtomicExchange128">>, PDEPrrr |-> <<192, "TernaryRR">>,
   PEXTrrr |-> <<193, "TernaryRR">>, RORXri |-> <<202, "TernaryRI">>,
   XBEGIN |-> <<208, "TxnBeginRel">>, XBEGINA |-> <<209, "TxnBeginAbs">>,
   XEND |-> <<210, "TxnNoOperand">>, XABORTi |-> <<211, "TxnAbortImm">>,
   XABORTr |-> <<212, "TxnAbortReg">>, XTEST |-> <<213, "TxnReadReg">>,
   ADCrr |-> <<216, "CarryALURR">>, FCVTU64 |-> <<219, "IntToFP">>,
   VFMADD128 |-> <<0, "AVXBinary">>, VPERMUTE128 |-> <<4, "AVXRegImm">>,
   VSHUFFLE128 |-> <<5, "AVXBinaryImm">>, VTEST128 |-> <<7, "AVXUnary">>,
   VGATHER128 |-> <<15, "AVXGather">>, VSCATTER128 |-> <<16, "AVXScatter">>,
   VZEROALL |-> <<31, "AVXNoOperand">>, AESENC128 |-> <<0, "CryptoBinary">>,
   AESIMC128 |-> <<2, "CryptoUnary">>, MAC32 |-> <<0, "DSPTernary">>,
   FIXED_MUL |-> <<6, "DSPQuaternary">>, CMPLX_MUL |-> <<10, "DSPPairOut">>,
   BITREV |-> <<11, "DSPRegImm">>, UNPACK_EXP |-> <<15, "DSPUnary">>,
   DOTP |-> <<18, "DSPDot">>, SUMDOTP |-> <<19, "DSPSumDot">>,
   QUERY |-> <<0, "SysXQuery">>, OUT |-> <<2, "SysXWriteImm">>,
   XSAVE |-> <<3, "SysXMaskedMemory">>, ISYNC |-> <<8, "SysXNoOperand">>,
   INVTLB |-> <<9, "SysXPair">>, INVTLBASID |-> <<10, "SysXReg">>,
   SENDIPI |-> <<12, "SysXTernary">>, VMENTER |-> <<14, "SysXMemory">>,
   WRSS |-> <<19, "SysXStoreMemory">>, RDPMC |-> <<20, "SysXReadImm">>,
   RNGGET |-> <<21, "SysXReadReg">>, SETMODE |-> <<26, "SysXImm">>,
   WINNEW |-> <<27, "WindowTransition">>, FMADD64 |-> <<0, "FPXFused">>,
   FMIN64 |-> <<4, "FPXBinary">>, FRECIP64 |-> <<6, "FPXUnary">>,
   FLD64 |-> <<16, "FPXLoad">>, FST64 |-> <<17, "FPXStore">>]

(* The scalar records that share an opcode with a binary64 instruction and *)
(* differ in ScalarWidth, by lane width: 2 is binary32, 4 is binary128.    *)
ScalarVariants ==
  [FADD64 |-> <<"FADD32CG", "FADD128CG">>, FSQRT64 |-> <<"FSQRT32CG", "FSQRT128CG">>,
   FCMP64 |-> <<"FCMP32CG", "FCMP128CG">>, FMADD64 |-> <<"FMADD32CG", "FMADD128CG">>,
   FMIN64 |-> <<"FMIN32CG", "FMIN128CG">>, FCVTI64 |-> <<"FCVTI32CG", "FCVTI128CG">>,
   FCVTS64 |-> <<"FCVTS32CG", "FCVTS128CG">>, FCVTU64 |-> <<"FCVTU32CG", "FCVTU128CG">>,
   FLD64 |-> <<"FLD32CG", "FLD128CG">>, FST64 |-> <<"FST32CG", "FST128CG">>]

(* The records that have no place of their own in the opcode map: the      *)
(* vector move, and the scalar variants with their ScalarWidth.            *)
Variants ==
  [MOVV128 |-> <<0, "CopyVV", 0>>,
   FADD32CG |-> <<166, "FPBinary", 3>>, FADD128CG |-> <<166, "FPBinary", 5>>,
   FSQRT32CG |-> <<170, "FPUnary", 3>>, FSQRT128CG |-> <<170, "FPUnary", 5>>,
   FCMP32CG |-> <<171, "FPCompare", 3>>, FCMP128CG |-> <<171, "FPCompare", 5>>,
   FMADD32CG |-> <<0, "FPXFused", 3>>, FMADD128CG |-> <<0, "FPXFused", 5>>,
   FMIN32CG |-> <<4, "FPXBinary", 3>>, FMIN128CG |-> <<4, "FPXBinary", 5>>,
   FCVTI32CG |-> <<172, "IntToFP", 3>>, FCVTI128CG |-> <<172, "IntToFP", 5>>,
   FCVTS32CG |-> <<173, "FPToInt", 3>>, FCVTS128CG |-> <<173, "FPToInt", 5>>,
   FCVTU32CG |-> <<219, "IntToFP", 3>>, FCVTU128CG |-> <<219, "IntToFP", 5>>,
   FLD32CG |-> <<16, "FPXLoad", 3>>, FLD128CG |-> <<16, "FPXLoad", 5>>,
   FST32CG |-> <<17, "FPXStore", 3>>, FST128CG |-> <<17, "FPXStore", 5>>]

(* Instruction |-> <<opcode byte, class, ScalarWidth>>. *)
Records ==
  [name \in DOMAIN Opcodes \cup DOMAIN Variants |->
     IF name \in DOMAIN Opcodes THEN <<Opcodes[name][1], Opcodes[name][2], 0>>
     ELSE Variants[name]]

OpcodeOf(name) == Records[name][1]
ClassOf(name)  == Records[name][2]
WidthOf(name)  == Records[name][3]
GroupOf(name)  == Class[ClassOf(name)][1]
FormOf(name)   == Class[ClassOf(name)][2]

(* The instruction an opcode byte stands for in an extension group. *)
OpcodeKey(name) == <<GroupOf(name), OpcodeOf(name)>>
OpcodeMap ==
  [key \in {OpcodeKey(n) : n \in DOMAIN Opcodes} |->
     CHOOSE n \in DOMAIN Opcodes : OpcodeKey(n) = key]

(* The flags of the classes the performance markers are checked against.   *)
MayLoad ==
  {"StringCopy", "PairLoad", "LoadQ", "VectorLoad", "AVXGather", "FPXLoad", "Call",
   "IndirectCall", "PopReg", "SysXMaskedMemory", "SysXMemory", "WindowTransition",
   "AtomicMem", "AtomicCAS", "AtomicExchange", "AtomicExchange128", "AtomicLoad",
   "MemoryOnly", "Return"}
MayStore ==
  {"StringCopy", "StringFill", "PairStore", "StoreQ", "VectorStore", "AVXScatter",
   "FPXStore", "Call", "IndirectCall", "PushReg", "FrameImm", "SysXMaskedMemory",
   "SysXMemory", "SysXStoreMemory", "WindowTransition", "AtomicMem", "AtomicCAS",
   "AtomicExchange", "AtomicExchange128", "Return"}
ConditionalBranches == {"CondBranch", "RegCondBranch"}
Branches == ConditionalBranches \cup {"UncondBranch", "IndirectBranch"}
Calls    == {"Call", "IndirectCall"}
Barriers ==
  {"UncondBranch", "IndirectBranch", "TrapImm", "SleepImm", "WriteControl",
   "SystemNoOperand", "SysXNoOperand", "WindowTransition", "SysXPair", "SysXImm",
   "TxnAbortImm", "TxnAbortReg", "Return"}
NoResult ==
  Branches \cup Calls \cup Barriers \cup
  {"CompareRR", "CompareRI", "PairStore", "StoreQ",
   "FPCompare", "AVXScatter", "AVXNoOperand", "VectorStore", "FPXStore", "PushReg",
   "FrameImm", "NoOperand", "SysXQuery", "SysXWriteImm", "SysXMaskedMemory",
   "SysXTernary", "SysXReg", "SysXMemory", "SysXStoreMemory", "MemoryOnly",
   "TxnBeginRel", "TxnBeginAbs", "TxnNoOperand"}

(* The kinds of the operands a statement writes, in the order of the       *)
(* assembly string: a general register "r", a vector register "v", a       *)
(* memory operand "m", an immediate or a label "i".                        *)
OperandKinds ==
  [CopyRR |-> <<"r", "r">>, CopyVV |-> <<"v", "v">>, ALURR |-> <<"r", "r">>,
   CarryALURR |-> <<"r", "r">>, UnaryInPlace |-> <<"r">>, UnaryRR |-> <<"r", "r">>,
   CompareRR |-> <<"r", "r">>, RI64 |-> <<"r", "i">>, ALURI |-> <<"r", "i">>,
   CompareRI |-> <<"r", "i">>, TernaryRI |-> <<"r", "r", "i">>,
   TernaryByte |-> <<"r", "r", "i">>, TernaryRR |-> <<"r", "r", "r">>,
   StringCopy |-> <<"r", "r", "r">>, StringFill |-> <<"r", "r", "r">>,
   PairLoad |-> <<"r", "r", "m">>, PairStore |-> <<"m", "r", "r">>,
   LoadQ |-> <<"r", "m">>, StoreQ |-> <<"m", "r">>, AddressCalc |-> <<"r", "m">>,
   FPBinary |-> <<"v", "v", "v">>, FPUnary |-> <<"v", "v">>, FPCompare |-> <<"v", "v">>,
   VBinary |-> <<"v", "v", "v">>, VUnary |-> <<"v", "v">>, VShiftImm |-> <<"v", "v", "i">>,
   VectorLoad |-> <<"v", "m">>, VectorStore |-> <<"m", "v">>, IntToFP |-> <<"v", "r">>,
   FPToInt |-> <<"r", "v">>, UncondBranch |-> <<"i">>, CondBranch |-> <<"i">>,
   Call |-> <<"i">>, TxnBeginRel |-> <<"i">>, RegCondBranch |-> <<"r", "i">>,
   IndirectCall |-> <<"r">>, IndirectBranch |-> <<"r">>, TxnBeginAbs |-> <<"r">>,
   TrapImm |-> <<"i">>, TxnAbortImm |-> <<"i">>, PushReg |-> <<"r">>, PopReg |-> <<"r">>,
   TxnAbortReg |-> <<"r">>, FrameImm |-> <<"i">>, SleepImm |-> <<"i">>,
   ReadReg |-> <<"r">>, TxnReadReg |-> <<"r">>, ReadControl |-> <<"r", "i">>,
   WriteControl |-> <<"i", "r">>, SystemNoOperand |-> <<>>, NoOperand |-> <<>>,
   TxnNoOperand |-> <<>>, Return |-> <<>>, AtomicMem |-> <<"r", "m">>,
   AtomicCAS |-> <<"r", "r", "m">>, AtomicExchange |-> <<"r", "m">>,
   AtomicLoad |-> <<"r", "m">>, AtomicExchange128 |-> <<"v", "m">>, MemoryOnly |-> <<"m">>,
   AVXBinary |-> <<"v", "v", "v">>, AVXUnary |-> <<"v", "v">>,
   AVXRegImm |-> <<"v", "v", "i">>, AVXBinaryImm |-> <<"v", "v", "v", "i">>,
   AVXGather |-> <<"v", "m", "i">>, AVXScatter |-> <<"m", "v", "i">>, AVXNoOperand |-> <<>>,
   CryptoBinary |-> <<"v", "v", "v">>, CryptoUnary |-> <<"v", "v">>,
   DSPTernary |-> <<"r", "r", "r">>, DSPQuaternary |-> <<"r", "r", "r", "r">>,
   DSPPairOut |-> <<"r", "r", "r", "r">>, DSPUnary |-> <<"r", "r">>,
   DSPRegImm |-> <<"r", "r", "i">>, DSPDot |-> <<"r", "v", "v">>, DSPSumDot |-> <<"r", "v">>,
   SysXQuery |-> <<"r", "r">>, SysXReadImm |-> <<"r", "i">>, SysXWriteImm |-> <<"i", "r">>,
   SysXMaskedMemory |-> <<"m", "r">>, SysXNoOperand |-> <<>>, WindowTransition |-> <<>>,
   SysXPair |-> <<"r", "r">>, SysXTernary |-> <<"r", "r", "r">>, SysXReg |-> <<"r">>,
   SysXReadReg |-> <<"r">>, SysXMemory |-> <<"m">>, SysXStoreMemory |-> <<"m", "r">>,
   SysXImm |-> <<"i">>, FPXFused |-> <<"v", "v", "v", "v">>,
   FPXBinary |-> <<"v", "v", "v">>, FPXUnary |-> <<"v", "v">>, FPXLoad |-> <<"v", "m">>,
   FPXStore |-> <<"m", "v">>]

(* The classes whose first operand is tied to the result.                  *)
Tied == {"ALURR", "CarryALURR", "UnaryInPlace", "ALURI", "AtomicMem", "AtomicCAS",
         "AtomicExchange", "AtomicExchange128"}

(* The instructions of every profile; the others, but for the window       *)
(* operations, need a processor that is not Tritium.                       *)
EveryProfile ==
  {"MOVrr", "MOVI64", "LDBrr", "STBrr", "LEA", "ADDrr", "ADDI", "INC", "ABSrr", "EXTri",
   "CMPrr", "CMPI", "JMP", "JMPA", "CALL", "CALLA", "RET", "JE", "JZR", "TRAP", "YIELD",
   "HLT", "RDCR", "WRCR", "RDTIME", "SLEEP", "PUSH", "POP", "ENTER", "CMPXCHG", "ATADD",
   "LL", "SC", "ADCrr", "QUERY", "MOVV128"}
Available(name, features) ==
  IF name = "WINNEW" THEN "register-windows" \in features
  ELSE name \in EveryProfile \/ "tritium" \notin features

GPR(n)  == <<"r", n, 0>>
Vec(n)  == <<"v", n, 0>>
NoIndex == <<"noidx", 0, 0>>
Imm(lo) == <<"i", lo, IF lo < 0 THEN -1 ELSE 0>>
Wide(lo, hi) == <<"i", lo, hi>>
Label(l) == <<"x", l, 0>>
=============================================================================
