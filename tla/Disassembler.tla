---------------------------- MODULE Disassembler ----------------------------
(***************************************************************************)
(* SeaBirdDisassembler::getInstruction: reads one instruction from the     *)
(* front of a byte string.  The result is the instruction as an MCInst     *)
(* (name, marker, operands) with its size, or Fail.                        *)
(*                                                                         *)
(* At(bytes, k) is Bytes[k] of the source, counted from zero.  The source  *)
(* tests the length before every read; a read past the end, which a        *)
(* missing test would make, yields 0 here.                                 *)
(***************************************************************************)
EXTENDS InstructionSet

(* Class |-> the form the decoder reads it by. *)
DecodeForm ==
  [CopyRR |-> "CopyRR", ALURR |-> "ALURR", CarryALURR |-> "ALURR",
   CompareRR |-> "CompareRR", RI64 |-> "RI64", LoadQ |-> "LoadQ", StoreQ |-> "StoreQ",
   IndirectCall |-> "IndirectCall", FPBinary |-> "FPBinary", FPUnary |-> "CopyVV",
   FPCompare |-> "CopyVV", VBinary |-> "VBinary", VUnary |-> "CopyVV",
   VShiftImm |-> "TernaryByte", AddressCalc |-> "AddressCalc",
   VectorLoad |-> "VectorLoad", VectorStore |-> "VectorStore", IntToFP |-> "IntToFP",
   FPToInt |-> "FPToInt", UnaryInPlace |-> "UnaryInPlace", UnaryRR |-> "UnaryRR",
   ALURI |-> "ALURI", CompareRI |-> "CompareRI", TrapImm |-> "TrapImm",
   RegCondBranch |-> "RegCondBranch", PushReg |-> "StackReg", PopReg |-> "StackReg",
   FrameImm |-> "FrameImm", TernaryRI |-> "TernaryRI", TernaryByte |-> "TernaryByte",
   ReadReg |-> "ReadReg", ReadControl |-> "ControlReg", WriteControl |-> "ControlReg",
   SleepImm |-> "FrameImm", SystemNoOperand |-> "NoOperand",
   AtomicMem |-> "AtomicMem", AtomicLoad |-> "AtomicLoad", TernaryRR |-> "TernaryRR",
   StringCopy |-> "TernaryRR", StringFill |-> "TernaryRR", MemoryOnly |-> "MemoryOnly",
   PairLoad |-> "PairLoad", PairStore |-> "PairStore", AtomicCAS |-> "AtomicCAS",
   AtomicExchange |-> "AtomicMem", AtomicExchange128 |-> "VectorAtomic",
   TxnBeginRel |-> "Branch", TxnBeginAbs |-> "IndirectCall",
   TxnNoOperand |-> "NoOperand", TxnAbortImm |-> "TrapImm", TxnAbortReg |-> "StackReg",
   TxnReadReg |-> "ReadReg", IndirectBranch |-> "IndirectCall",
   UncondBranch |-> "Branch", CondBranch |-> "Branch", Call |-> "Branch",
   NoOperand |-> "NoOperand", Return |-> "NoOperand"]

SysXDecodeForm ==
  [SysXQuery |-> "CompareRR", SysXReadImm |-> "ControlReg",
   SysXWriteImm |-> "SysXWriteImm", SysXMaskedMemory |-> "SysXMaskedMemory",
   SysXNoOperand |-> "NoOperand", WindowTransition |-> "NoOperand",
   SysXPair |-> "CompareRR", SysXTernary |-> "TernaryRR", SysXReg |-> "StackReg",
   SysXReadReg |-> "ReadReg", SysXMemory |-> "SysXMemory",
   SysXStoreMemory |-> "SysXStoreMemory", SysXImm |-> "TrapImm"]
FPXDecodeForm ==
  [FPXFused |-> "FPXFused", FPXBinary |-> "FPBinary", FPXUnary |-> "CopyVV",
   FPXLoad |-> "ScalarFPLoad", FPXStore |-> "ScalarFPStore"]
CryptoDecodeForm == [CryptoBinary |-> "VBinary", CryptoUnary |-> "CopyVV"]
DSPDecodeForm ==
  [DSPTernary |-> "DSPTernary", DSPQuaternary |-> "DSPQuaternary",
   DSPPairOut |-> "DSPQuaternary", DSPUnary |-> "CompareRR",
   DSPRegImm |-> "TernaryByte", DSPDot |-> "DSPDot", DSPSumDot |-> "DSPSumDot"]
AVXDecodeForm ==
  [AVXBinary |-> "VBinary", AVXUnary |-> "CopyVV", AVXRegImm |-> "AVXRegImm",
   AVXBinaryImm |-> "AVXBinaryImm", AVXGather |-> "AVXGather",
   AVXScatter |-> "AVXScatter", AVXNoOperand |-> "NoOperand"]

FormTable == <<AVXDecodeForm, CryptoDecodeForm, DSPDecodeForm, SysXDecodeForm,
               FPXDecodeForm>>

Fail == [ok |-> FALSE]
At(bytes, k) == IF k < Len(bytes) THEN bytes[k + 1] ELSE 0
Holds(bytes, at, n) == Len(bytes) >= at + n
Unsigned16(bytes, at) == At(bytes, at) + 256 * At(bytes, at + 1)
Signed8(b) == IF b < 128 THEN b ELSE b - 256
Signed32(bytes, at) == Unsigned16(bytes, at) + 65536 * At(bytes, at + 2)
                         + 16777216 * Signed8(At(bytes, at + 3))
ExtraBits(orex, shift) == 8 * ((orex \div shift) % 4)

(* What has been read of an instruction: from bytes, up to at.             *)
Reading(bytes) ==
  [ok |-> TRUE, bytes |-> bytes, at |-> 0, marker |-> Marker.none, extended |-> FALSE,
   vector |-> FALSE, width |-> 0, opcode |-> "", name |-> "", form |-> "", mod |-> 0,
   sib |-> FALSE, reg |-> 0, rm |-> 0, index |-> 4, scale |-> 1, lane |-> 0, extra |-> 0,
   disp |-> 0]

(* The marker and the FE prefix: where the opcode is, and what follows it. *)
ReadPrefixes(bytes) ==
  LET marked == At(bytes, 0) = 253
      start == IF marked THEN 2 ELSE 0
      prefixed == At(bytes, start) = 254
      control == IF prefixed THEN At(bytes, start + 1) ELSE 0
  IN IF \/ Len(bytes) = 0
        \/ marked /\ (~Holds(bytes, 0, 3) \/ At(bytes, 1) \notin 1 .. Marker.leaf)
        \/ prefixed /\ (~Holds(bytes, start, 3) \/ control % 8 # 0)
     THEN Fail
     ELSE [Reading(bytes) EXCEPT
             !.marker = IF marked THEN At(bytes, 1) ELSE Marker.none,
             !.extended = control >= 128, !.vector = (control \div 64) % 2 = 1,
             !.width = (control \div 8) % 8, !.at = IF prefixed THEN start + 2 ELSE start]

(* The opcode maps: one byte, or FF, group, byte.  From here on each stage *)
(* is handed what the one before it read, and hands on a failure.          *)
ReadOpcode(p) ==
  LET group == IF At(p.bytes, p.at) = 255 /\ Holds(p.bytes, p.at, 3)
               THEN At(p.bytes, p.at + 1) ELSE 0
      key == <<group, At(p.bytes, IF group = 0 THEN p.at ELSE p.at + 2)>>
      found == OpcodeMap[key]
      vectorMove == p.vector /\ found = "MOVrr"
  IN IF ~p.ok THEN p
     ELSE IF key \notin DOMAIN OpcodeMap THEN Fail
     ELSE [p EXCEPT !.at = @ + (IF group = 0 THEN 1 ELSE 3), !.opcode = found,
             !.name = IF vectorMove THEN "MOVV128" ELSE found,
             !.form = IF vectorMove THEN "CopyVV"
                      ELSE IF group = 0 THEN DecodeForm[ClassOf(found)]
                      ELSE FormTable[group][ClassOf(found)]]

Success(c, ops, size) ==
  [ok |-> TRUE, name |-> c.name, marker |-> c.marker, ops |-> ops, size |-> size]

(************************** forms without ModR/M **************************)
ReadNoOperand(c) == IF c.extended \/ c.vector THEN Fail ELSE Success(c, <<>>, c.at)

ReadTrapImm(c) ==
  IF c.extended \/ c.vector \/ ~Holds(c.bytes, c.at, 1) THEN Fail
  ELSE Success(c, <<Imm(At(c.bytes, c.at))>>, c.at + 1)

AddressWidth(is64) == IF is64 THEN 8 ELSE 4
ReadAddress(bytes, at, is64, high) ==
  Wide(Signed32(bytes, at), IF is64 THEN Signed32(bytes, at + 4) ELSE high)

ReadFrameImm(c, is64) ==
  IF c.extended \/ c.vector \/ ~Holds(c.bytes, c.at, AddressWidth(is64)) THEN Fail
  ELSE Success(c, <<ReadAddress(c.bytes, c.at, is64, 0)>>, c.at + AddressWidth(is64))

\* Mutant of ReadBranch: the length is not tested.
ReadBranch_Unbounded(c) ==
  IF c.extended \/ c.vector THEN Fail
  ELSE Success(c, <<Imm(Signed32(c.bytes, c.at))>>, c.at + 4)

ReadBranch(c) ==
  IF c.extended \/ c.vector \/ ~Holds(c.bytes, c.at, 4) THEN Fail
  ELSE Success(c, <<Imm(Signed32(c.bytes, c.at))>>, c.at + 4)

(************************ ModR/M, SIB, OREX, VectorCtl ********************)
MemoryForms ==
  {"LoadQ", "StoreQ", "AddressCalc", "SysXMemory", "SysXMaskedMemory",
   "SysXStoreMemory", "AtomicMem", "AtomicLoad", "MemoryOnly", "PairStore",
   "AtomicCAS", "VectorAtomic", "AVXGather", "AVXScatter", "VectorLoad",
   "VectorStore", "ScalarFPLoad", "ScalarFPStore"}

ReadModRM(c) ==
  LET modrm == At(c.bytes, c.at)
      mod == modrm \div 64
      sib == c.form \in MemoryForms /\ modrm % 8 = 4
      sibByte == At(c.bytes, c.at + 1)
      afterSib == c.at + (IF sib THEN 2 ELSE 1)
      orex == IF c.extended THEN At(c.bytes, afterSib) ELSE 0
      low == IF sib THEN sibByte % 8 ELSE modrm % 8
  IN IF \/ ~Holds(c.bytes, c.at, 1)
        \/ (c.form \in MemoryForms) = (mod = 3)
        \/ sib /\ ~Holds(c.bytes, c.at + 1, 1)
        \/ c.extended /\ (~Holds(c.bytes, afterSib, 1) \/ (~sib /\ orex >= 16))
     THEN Fail
     ELSE [c EXCEPT !.at = afterSib + (IF c.extended THEN 1 ELSE 0),
             !.mod = mod, !.sib = sib, !.reg = ((modrm \div 8) % 8) + ExtraBits(orex, 1),
             !.rm = low + (IF sib THEN ExtraBits(orex, 64) ELSE ExtraBits(orex, 4)),
             !.index = IF sib THEN ((sibByte \div 8) % 8) + ExtraBits(orex, 16) ELSE 4,
             !.scale = IF sib THEN 2 ^ (sibByte \div 64) ELSE 1]

\* Mutant of ReadVectorCtl: binary128 lanes are out of range.
ReadVectorCtl_NarrowLanes(c) ==
  LET control == At(c.bytes, c.at) IN
  IF ~c.ok \/ ~c.vector THEN c
  ELSE IF ~Holds(c.bytes, c.at, 1) \/ control % 8 # 0 \/ control >= 32 THEN Fail
  ELSE [c EXCEPT !.at = @ + 1, !.lane = control \div 8]

ReadVectorCtl(c) ==
  LET control == At(c.bytes, c.at) IN
  IF ~c.ok \/ ~c.vector THEN c
  ELSE IF ~Holds(c.bytes, c.at, 1) \/ control % 8 # 0 \/ control >= 64 THEN Fail
  ELSE [c EXCEPT !.at = @ + 1, !.lane = control \div 8]

(* The binary32 and binary128 records share their opcode with binary64. *)
ScalarRecord(c) ==
  LET memory == c.opcode \in {"FLD64", "FST64"} IN
  CASE c.opcode \notin DOMAIN ScalarVariants -> c.name
    [] memory /\ c.width = 3 -> ScalarVariants[c.opcode][1]
    [] memory /\ c.width = 5 -> ScalarVariants[c.opcode][2]
    [] ~memory /\ c.vector /\ c.lane = 2 -> ScalarVariants[c.opcode][1]
    [] ~memory /\ c.vector /\ c.lane = 4 -> ScalarVariants[c.opcode][2]
    [] OTHER -> c.name
ScalarName(c) == IF ~c.ok THEN c ELSE [c EXCEPT !.name = ScalarRecord(c)]

(************************* forms with mod = 3 *****************************)
ReadPairLoad(c) ==
  IF c.vector \/ ~Holds(c.bytes, c.at, 1) \/ At(c.bytes, c.at) > 31 THEN Fail
  ELSE Success(c, <<GPR(c.reg), GPR(c.rm), GPR(At(c.bytes, c.at)), GPR(4), Imm(1), Imm(0)>>,
               c.at + 1)

ReadAddressImm(c, is64) ==
  LET signed == IF c.form # "RI64" /\ Signed32(c.bytes, c.at) < 0 THEN -1 ELSE 0
      imm == ReadAddress(c.bytes, c.at, is64, signed)
  IN IF c.reg # 0 \/ ~Holds(c.bytes, c.at, AddressWidth(is64)) THEN Fail
     ELSE Success(c, (IF c.form = "ALURI" THEN <<GPR(c.rm)>> ELSE <<>>)
                       \o <<GPR(c.rm), imm>>, c.at + AddressWidth(is64))

ReadIndirectCall(c) == IF c.reg # 0 THEN Fail ELSE Success(c, <<GPR(c.rm)>>, c.at)

ReadRegCondBranch(c) ==
  IF c.reg # 0 \/ ~Holds(c.bytes, c.at, 4) THEN Fail
  ELSE Success(c, <<GPR(c.rm), Imm(Signed32(c.bytes, c.at))>>, c.at + 4)

ReadUnaryInPlace(c) == IF c.reg # 0 THEN Fail ELSE Success(c, <<GPR(c.rm), GPR(c.rm)>>, c.at)

ReadOneRegister(c) ==
  IF \/ c.reg # 0
     \/ c.name \in {"PUSHQ", "POPQ"} /\ (c.rm % 2 = 1 \/ c.rm = 31)
  THEN Fail ELSE Success(c, <<GPR(c.rm)>>, c.at)

ReadControl(c) ==
  LET control == Imm(Unsigned16(c.bytes, c.at)) IN
  IF c.reg # 0 \/ ~Holds(c.bytes, c.at, 2) THEN Fail
  ELSE Success(c, IF c.name = "WRCR" \/ c.form = "SysXWriteImm"
                  THEN <<control, GPR(c.rm)>> ELSE <<GPR(c.rm), control>>, c.at + 2)

ReadTernaryImm(c, is64) ==
  LET shift == c.name \in {"VSHL128", "VSHR128"}
      width == IF c.form = "TernaryByte" THEN 1 ELSE AddressWidth(is64)
      imm == IF c.form = "TernaryByte" THEN Imm(At(c.bytes, c.at))
             ELSE ReadAddress(c.bytes, c.at, is64,
                              IF Signed32(c.bytes, c.at) < 0 THEN -1 ELSE 0)
  IN IF ~Holds(c.bytes, c.at, width) \/ ~(shift <=> c.vector) THEN Fail
     ELSE Success(c, (IF shift THEN <<Vec(c.reg), Vec(c.rm)>>
                               ELSE <<GPR(c.reg), GPR(c.rm)>>) \o <<imm>>, c.at + width)

ReadAVXRegImm(c) ==
  IF ~c.vector \/ ~Holds(c.bytes, c.at, 1) THEN Fail
  ELSE Success(c, <<Vec(c.reg), Vec(c.rm), Imm(At(c.bytes, c.at))>>, c.at + 1)

IsXop(byte) == byte \div 32 = 1

ReadAVXBinaryImm(c) ==
  LET xop == At(c.bytes, c.at) IN
  IF ~c.vector \/ ~Holds(c.bytes, c.at, 2) \/ ~IsXop(xop) THEN Fail
  ELSE Success(c, <<Vec(c.reg), Vec(c.rm), Vec(xop % 32), Imm(At(c.bytes, c.at + 1))>>,
               c.at + 2)

ReadTernaryRR(c) ==
  IF c.vector \/ ~Holds(c.bytes, c.at, 1) \/ At(c.bytes, c.at) > 31 THEN Fail
  ELSE Success(c, <<GPR(c.reg), GPR(c.rm), GPR(At(c.bytes, c.at))>>, c.at + 1)

ReadDSPRegisters(c) ==
  LET count == IF c.form = "DSPTernary" THEN 1 ELSE 2
      extra(k) == At(c.bytes, c.at + k - 1)
  IN IF c.vector \/ ~Holds(c.bytes, c.at, count) \/ \E k \in 1 .. count : extra(k) > 31
     THEN Fail
     ELSE Success(c, <<GPR(c.reg), GPR(c.rm)>> \o [k \in 1 .. count |-> GPR(extra(k))],
                  c.at + count)

ReadDSPDot(c) ==
  LET extra == At(c.bytes, c.at) IN
  CASE ~c.vector -> Fail
    [] c.vector /\ c.form = "DSPSumDot" -> Success(c, <<GPR(c.reg), Vec(c.rm)>>, c.at)
    [] OTHER -> IF ~Holds(c.bytes, c.at, 1) \/ ~IsXop(extra) THEN Fail
                ELSE Success(c, <<GPR(c.reg), Vec(c.rm), Vec(extra % 32)>>, c.at + 1)

ReadVectorBinary(c) ==
  LET xop == At(c.bytes, c.at) IN
  IF ~c.vector \/ ~Holds(c.bytes, c.at, 1) \/ ~IsXop(xop) THEN Fail
  ELSE Success(c, <<Vec(c.reg), Vec(c.rm), Vec(xop % 32)>>, c.at + 1)

ReadFPXFused(c) ==
  LET rhs == At(c.bytes, c.at)
      addend == At(c.bytes, c.at + 1)
  IN IF ~c.vector \/ ~Holds(c.bytes, c.at, 2) \/ ~IsXop(rhs) \/ ~IsXop(addend) THEN Fail
     ELSE Success(c, <<Vec(c.reg), Vec(c.rm), Vec(rhs % 32), Vec(addend % 32)>>, c.at + 2)

ReadCopyVV(c) == IF ~c.vector THEN Fail ELSE Success(c, <<Vec(c.reg), Vec(c.rm)>>, c.at)

ReadConversion(c) ==
  Success(c, IF c.form = "IntToFP" THEN <<Vec(c.reg), GPR(c.rm)>>
                                   ELSE <<GPR(c.reg), Vec(c.rm)>>, c.at)

ReadRegisterPair(c) ==
  Success(c, (IF c.form = "ALURR" THEN <<GPR(c.reg)>> ELSE <<>>)
               \o <<GPR(c.reg), GPR(c.rm)>>, c.at)

(**************************** memory forms ********************************)
(* The byte read between VectorCtl and the displacement: the AVX mask, the *)
(* second register of STP, the desired register of CMPXCHG.                *)
ExtraByteForms == {"AVXGather", "AVXScatter", "PairStore", "AtomicCAS"}

ReadExtraByte(c) ==
  LET extra == At(c.bytes, c.at) IN
  IF c.form \notin ExtraByteForms THEN c
  ELSE IF \/ ~Holds(c.bytes, c.at, 1)
          \/ c.form \in {"AVXGather", "AVXScatter"} /\ ~c.vector
          \/ c.form \in {"PairStore", "AtomicCAS"} /\ extra > 31
       THEN Fail
       ELSE [c EXCEPT !.at = @ + 1, !.extra = extra]

ReadDisplacement(c) ==
  IF ~c.ok THEN c
  ELSE IF \/ ~c.sib /\ c.mod = 0 /\ c.rm % 8 = 5
          \/ c.mod = 1 /\ ~Holds(c.bytes, c.at, 1)
          \/ c.mod = 2 /\ ~Holds(c.bytes, c.at, 4)
       THEN Fail
       ELSE [c EXCEPT
               !.at = @ + (CASE c.mod = 0 -> 0 [] c.mod = 1 -> 1 [] c.mod = 2 -> 4),
               !.disp = CASE c.mod = 0 -> 0
                          [] c.mod = 1 -> Signed8(At(c.bytes, c.at))
                          [] c.mod = 2 -> Signed32(c.bytes, c.at)]

AddressOf(c) == <<GPR(c.rm), GPR(c.index), Imm(c.scale), Imm(c.disp)>>
RegisterOf(c) ==
  IF c.form \in {"ScalarFPLoad", "ScalarFPStore", "VectorLoad", "VectorStore"}
  THEN Vec(c.reg) ELSE GPR(c.reg)

ReadGather(c)  == Success(c, <<Vec(c.reg)>> \o AddressOf(c) \o <<Imm(c.extra)>>, c.at)
ReadScatter(c) == Success(c, AddressOf(c) \o <<Vec(c.reg), Imm(c.extra)>>, c.at)
ReadAddressOnly(c) == IF c.reg # 0 THEN Fail ELSE Success(c, AddressOf(c), c.at)
ReadAtomic(c) ==
  Success(c, (IF c.form = "AtomicMem" THEN <<GPR(c.reg)>> ELSE <<>>)
               \o <<GPR(c.reg)>> \o AddressOf(c), c.at)
ReadPairStore(c) == Success(c, AddressOf(c) \o <<GPR(c.reg), GPR(c.extra)>>, c.at)
ReadAtomicCAS(c) ==
  Success(c, <<GPR(c.reg), GPR(c.reg), GPR(c.extra)>> \o AddressOf(c), c.at)
ReadVectorAtomic(c) ==
  IF ~c.vector THEN Fail ELSE Success(c, <<Vec(c.reg), Vec(c.reg)>> \o AddressOf(c), c.at)
ReadLoad(c)  == Success(c, <<RegisterOf(c)>> \o AddressOf(c), c.at)
ReadStore(c) == Success(c, AddressOf(c) \o <<RegisterOf(c)>>, c.at)

ReadMemory(c) ==
  IF ~c.ok THEN c ELSE
  CASE c.form = "AVXGather" -> ReadGather(c)
    [] c.form = "AVXScatter" -> ReadScatter(c)
    [] c.form \in {"SysXMemory", "MemoryOnly"} -> ReadAddressOnly(c)
    [] c.form \in {"AtomicMem", "AtomicLoad"} -> ReadAtomic(c)
    [] c.form = "PairStore" -> ReadPairStore(c)
    [] c.form = "AtomicCAS" -> ReadAtomicCAS(c)
    [] c.form = "VectorAtomic" -> ReadVectorAtomic(c)
    [] c.form \in {"LoadQ", "ScalarFPLoad", "AddressCalc", "VectorLoad"} -> ReadLoad(c)
    [] c.form \in {"StoreQ", "ScalarFPStore", "VectorStore", "SysXMaskedMemory",
                   "SysXStoreMemory"} -> ReadStore(c)

ReadMemoryForm(c) == ReadMemory(ReadDisplacement(ReadExtraByte(c)))

ReadOperands(c, is64) ==
  IF ~c.ok THEN c ELSE
  CASE c.form \in MemoryForms -> ReadMemoryForm(c)
    [] c.form = "PairLoad" -> ReadPairLoad(c)
    [] c.form \in {"RI64", "ALURI", "CompareRI"} -> ReadAddressImm(c, is64)
    [] c.form = "IndirectCall" -> ReadIndirectCall(c)
    [] c.form = "RegCondBranch" -> ReadRegCondBranch(c)
    [] c.form = "UnaryInPlace" -> ReadUnaryInPlace(c)
    [] c.form \in {"StackReg", "ReadReg"} -> ReadOneRegister(c)
    [] c.form \in {"ControlReg", "SysXWriteImm"} -> ReadControl(c)
    [] c.form \in {"TernaryRI", "TernaryByte"} -> ReadTernaryImm(c, is64)
    [] c.form = "AVXRegImm" -> ReadAVXRegImm(c)
    [] c.form = "AVXBinaryImm" -> ReadAVXBinaryImm(c)
    [] c.form = "TernaryRR" -> ReadTernaryRR(c)
    [] c.form \in {"DSPTernary", "DSPQuaternary"} -> ReadDSPRegisters(c)
    [] c.form \in {"DSPDot", "DSPSumDot"} -> ReadDSPDot(c)
    [] c.form \in {"FPBinary", "VBinary"} -> ReadVectorBinary(c)
    [] c.form = "FPXFused" -> ReadFPXFused(c)
    [] c.form = "CopyVV" -> ReadCopyVV(c)
    [] c.form \in {"IntToFP", "FPToInt"} -> ReadConversion(c)
    [] c.form \in {"CopyRR", "ALURR", "CompareRR", "UnaryRR"} -> ReadRegisterPair(c)

ReadWithModRM(c, is64) == ReadOperands(ScalarName(ReadVectorCtl(ReadModRM(c))), is64)

ReadInstruction(c, is64) ==
  IF ~c.ok THEN c ELSE
  CASE c.form = "NoOperand" -> ReadNoOperand(c)
    [] c.form = "TrapImm" -> ReadTrapImm(c)
    [] c.form = "FrameImm" -> ReadFrameImm(c, is64)
    [] c.form = "Branch" -> ReadBranch(c)
    [] OTHER -> ReadWithModRM(c, is64)

GetInstruction(bytes, is64) == ReadInstruction(ReadOpcode(ReadPrefixes(bytes)), is64)
=============================================================================
