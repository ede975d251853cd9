----------------------------- MODULE CodeEmitter -----------------------------
(***************************************************************************)
(* SeaBirdMCCodeEmitter::encodeInstruction: the bytes and fixups of one    *)
(* instruction.  An instruction is a record [name, marker, ops] as the     *)
(* matcher leaves it, tied operands included.  Where the code reports an   *)
(* error the assembly produces no object, so the result is Rejected and    *)
(* the bytes it had begun are dropped.                                     *)
(***************************************************************************)
EXTENDS InstructionSet, SequencesExt

Emitted(bytes, fixups) == [ok |-> TRUE, bytes |-> bytes, fixups |-> fixups]
Rejected == [ok |-> FALSE, bytes |-> <<>>, fixups |-> <<>>]
Bytes(bytes) == Emitted(bytes, <<>>)
EmitIf(fits, bytes) == IF fits THEN Bytes(bytes) ELSE Rejected

(* emitLittleEndian: a 32-bit value in k <= 4 bytes, a 64-bit one by halves. *)
LittleEndian(v, k) == [i \in 1 .. k |-> (v \div (256 ^ (i - 1))) % 256]
AddressBytes(imm, is64) == LittleEndian(imm[2], 4) \o
                             (IF is64 THEN LittleEndian(imm[3], 4) ELSE <<>>)

IsImm(op)  == op[1] = "i"
SInt8(v)   == v \in -128 .. 127
Word32 == {v \in Int : -2147483647 - 1 <= v /\ v <= 2147483647}
SInt32(op) == IsImm(op) /\ op[2] \in Word32 /\ op[3] = (IF op[2] < 0 THEN -1 ELSE 0)
UInt(op, bits) == IsImm(op) /\ op[3] = 0 /\ op[2] \in 0 .. 2 ^ bits - 1

Low3(n)  == n % 8
High2(n) == (n \div 8) % 4
Bit(b, value) == IF b THEN value ELSE 0

(* The FE prefix: 80 announces OREX, 40 VectorCtl, 38 the operand width. *)
Prefix(extended, control) ==
  IF extended \/ control # 0 THEN <<254, control + Bit(extended, 128)>> ELSE <<>>

\* Mutant of RegForm: the two halves of OREX the other way round.
RegForm_OrexSwapped(control, opcode, reg, rm, tail) ==
  LET extended == reg > 7 \/ rm > 7 IN
    Prefix(extended, control) \o opcode \o <<192 + 8 * Low3(reg) + Low3(rm)>>
      \o (IF extended THEN <<High2(rm) + 4 * High2(reg)>> ELSE <<>>) \o tail

(* ModR/M with mod = 3, and OREX when a register needs its high bits. *)
RegForm(control, opcode, reg, rm, tail) ==
  LET extended == reg > 7 \/ rm > 7 IN
    Prefix(extended, control) \o opcode \o <<192 + 8 * Low3(reg) + Low3(rm)>>
      \o (IF extended THEN <<High2(reg) + 4 * High2(rm)>> ELSE <<>>) \o tail

HasIndex(index) == index \notin {GPR(4), NoIndex}
ScaleBits(scale) == IF scale \in {1, 2, 4} THEN scale \div 2 ELSE 3

(* ModR/M, SIB, OREX, then the bytes a form puts before the displacement.  *)
(* mem is the operand group base, index, scale, displacement.              *)
MemForm(control, opcode, reg, mem, middle) ==
  LET base == mem[1][2]
      indexed == HasIndex(mem[2])
      index == IF indexed THEN mem[2][2] ELSE 4
      disp == mem[4][2]
      sib == indexed \/ Low3(base) = 4
      mod == IF disp = 0 /\ Low3(base) # 5 THEN 0 ELSE IF SInt8(disp) THEN 1 ELSE 2
      extended == reg > 7 \/ base > 7 \/ (indexed /\ index > 7)
      orex == High2(reg) + (IF sib THEN 16 * High2(index) + 64 * High2(base)
                                   ELSE 4 * High2(base))
  IN IF ~SInt32(mem[4]) THEN Rejected
     ELSE Bytes(Prefix(extended, control) \o opcode
            \o <<64 * mod + 8 * Low3(reg) + (IF sib THEN 4 ELSE Low3(base))>>
            \o (IF sib THEN <<64 * ScaleBits(mem[3][2]) + 8 * Low3(index) + Low3(base)>>
                       ELSE <<>>)
            \o (IF extended THEN <<orex>> ELSE <<>>) \o middle
            \o (CASE mod = 0 -> <<>>
                  [] mod = 1 -> LittleEndian(disp, 1)
                  [] mod = 2 -> LittleEndian(disp, 4)))

Mem(i, at) == SubSeq(i.ops, at, at + 3)
Num(i, at) == i.ops[at][2]
LastOp(i)  == i.ops[Len(i.ops)]
OpcodeBytes(i) == IF GroupOf(i.name) = 0 THEN <<OpcodeOf(i.name)>>
                  ELSE <<255, GroupOf(i.name), OpcodeOf(i.name)>>
ScalarVectorCtl(i) == IF WidthOf(i.name) # 0 THEN 8 * (WidthOf(i.name) - 1) ELSE 24
ScalarOperandControl(i) == IF WidthOf(i.name) # 0 THEN 8 * WidthOf(i.name) ELSE 32
Xop(n) == 32 + n

(****************************** group 1: AVX ******************************)
EmitAVXMemory(i) ==
  LET gather == FormOf(i.name) = "VectorLoad"
      mem == IF gather THEN Mem(i, 2) ELSE Mem(i, 1)
      reg == IF gather THEN Num(i, 1) ELSE Num(i, 5)
  IN IF ~UInt(i.ops[6], 8) \/ mem[3][2] \notin {1, 2, 4, 8} THEN Rejected
     ELSE MemForm(64, OpcodeBytes(i), reg, mem, <<24, Num(i, 6)>>)

EmitAVXRegister(i) ==
  LET form == FormOf(i.name)
      xop == IF form \in {"VBinary", "FPBinary"} THEN <<Xop(Num(i, 3))>> ELSE <<>>
      body(imm) == RegForm(64, OpcodeBytes(i), Num(i, 1), Num(i, 2), <<24>> \o xop \o imm)
  IN IF form \in {"TernaryByte", "FPBinary"}
     THEN EmitIf(UInt(LastOp(i), 8), body(<<LastOp(i)[2] % 256>>))
     ELSE Bytes(body(<<>>))

EmitAVX(i) ==
  CASE FormOf(i.name) = "NoOperand" -> Bytes(OpcodeBytes(i))
    [] FormOf(i.name) \in {"VectorLoad", "VectorStore"} -> EmitAVXMemory(i)
    [] OTHER -> EmitAVXRegister(i)

(************************ groups 3, 2: DSP, CRYPTO ************************)
EmitDSP(i) ==
  LET vector == i.name \in {"DOTP", "SUMDOTP"}
      extras == [k \in 1 .. Len(i.ops) - 2 |-> Num(i, k + 2) + Bit(vector, 32)]
      body(tail) == RegForm(Bit(vector, 64), OpcodeBytes(i), Num(i, 1), Num(i, 2),
                            (IF vector THEN <<24>> ELSE <<>>) \o tail)
  IN IF FormOf(i.name) = "TernaryByte"
     THEN EmitIf(UInt(i.ops[3], 8), body(<<Num(i, 3) % 256>>))
     ELSE Bytes(body(extras))

EmitCrypto(i) ==
  Bytes(RegForm(64, OpcodeBytes(i), Num(i, 1), Num(i, 2),
                <<24>> \o [k \in 1 .. Len(i.ops) - 2 |-> Xop(Num(i, k + 2))]))

(****************************** group 5: FPX ******************************)
EmitFPXMemory(i) ==
  IF FormOf(i.name) = "ScalarFPLoad"
  THEN MemForm(ScalarOperandControl(i), OpcodeBytes(i), Num(i, 1), Mem(i, 2), <<>>)
  ELSE MemForm(ScalarOperandControl(i), OpcodeBytes(i), Num(i, 5), Mem(i, 1), <<>>)

EmitFPXRegister(i) ==
  Bytes(RegForm(64, OpcodeBytes(i), Num(i, 1), Num(i, 2),
                <<ScalarVectorCtl(i)>>
                  \o [k \in 1 .. Len(i.ops) - 2 |-> Xop(Num(i, k + 2))]))

EmitFPX(i) == IF FormOf(i.name) \in {"ScalarFPLoad", "ScalarFPStore"}
              THEN EmitFPXMemory(i) ELSE EmitFPXRegister(i)

(****************************** group 4: SYSX *****************************)
EmitSetMode(i) == EmitIf(UInt(i.ops[1], 8), OpcodeBytes(i) \o <<Num(i, 1) % 256>>)

EmitSelectorRead(i) ==
  EmitIf(UInt(i.ops[2], 16),
         RegForm(0, OpcodeBytes(i), 0, Num(i, 1), LittleEndian(Num(i, 2), 2)))

EmitSelectorWrite(i) ==
  EmitIf(UInt(i.ops[1], 16),
         RegForm(0, OpcodeBytes(i), 0, Num(i, 2), LittleEndian(Num(i, 1), 2)))

EmitSysXPair(i) == Bytes(RegForm(0, OpcodeBytes(i), Num(i, 1), Num(i, 2), <<>>))
EmitSysXReg(i)  == Bytes(RegForm(0, OpcodeBytes(i), 0, Num(i, 1), <<>>))
EmitSendIPI(i)  == Bytes(RegForm(0, OpcodeBytes(i), Num(i, 1), Num(i, 2), <<Num(i, 3)>>))

EmitSysXMemory(i) ==
  LET reg == IF i.name \in {"XSAVE", "XRSTOR", "WRSS"} THEN Num(i, 5) ELSE 0 IN
    MemForm(0, OpcodeBytes(i), reg, Mem(i, 1), <<>>)

EmitSysX(i) ==
  CASE FormOf(i.name) = "NoOperand" -> Bytes(OpcodeBytes(i))
    [] i.name = "SETMODE" -> EmitSetMode(i)
    [] i.name \in {"IN", "VMREAD", "RDPMC"} -> EmitSelectorRead(i)
    [] i.name \in {"OUT", "VMWRITE"} -> EmitSelectorWrite(i)
    [] i.name \in {"QUERY", "INVTLB"} -> EmitSysXPair(i)
    [] i.name \in {"EOI", "GETCPL", "INVTLBASID", "RNGGET"} -> EmitSysXReg(i)
    [] i.name = "SENDIPI" -> EmitSendIPI(i)
    [] OTHER -> EmitSysXMemory(i)

(********************** group 0: immediates, branches *********************)
EmitTrapImm(i) == EmitIf(UInt(i.ops[1], 8), OpcodeBytes(i) \o <<Num(i, 1) % 256>>)

EmitFrameImm(i, is64) ==
  EmitIf(IsImm(i.ops[1]) /\ i.ops[1][3] >= 0 /\ (is64 \/ i.ops[1][3] = 0),
         OpcodeBytes(i) \o AddressBytes(i.ops[1], is64))

\* Mutant of Rel32: the displacement counts from the field, not from its end.
Rel32_FromField(before, target) ==
  IF IsImm(target) THEN EmitIf(SInt32(target), before \o LittleEndian(target[2], 4))
  ELSE Emitted(before \o <<0, 0, 0, 0>>,
               <<[offset |-> Len(before), label |-> target[2], addend |-> 0,
                  kind |-> "pcrel32", pcrel |-> TRUE]>>)

(* The four displacement bytes, or a PC-relative fixup on label - 4. *)
Rel32(before, target) ==
  IF IsImm(target) THEN EmitIf(SInt32(target), before \o LittleEndian(target[2], 4))
  ELSE Emitted(before \o <<0, 0, 0, 0>>,
               <<[offset |-> Len(before), label |-> target[2], addend |-> -4,
                  kind |-> "pcrel32", pcrel |-> TRUE]>>)

EmitBranchRel32(i) == Rel32(OpcodeBytes(i), i.ops[1])
EmitRegCondBranch(i) == Rel32(RegForm(0, OpcodeBytes(i), 0, Num(i, 1), <<>>), i.ops[2])
EmitIndirectCall(i) == Bytes(RegForm(0, OpcodeBytes(i), 0, Num(i, 1), <<>>))

(* The last argument of MCFixup::create marks the fixup PC-relative, in    *)
(* this absolute field too.                                                *)
EmitAddressImm(i, is64) ==
  LET before == RegForm(0, OpcodeBytes(i), 0, Num(i, 1), <<>>) IN
    IF IsImm(LastOp(i)) THEN Bytes(before \o AddressBytes(LastOp(i), is64))
    ELSE Emitted(before \o AddressBytes(Imm(0), is64),
                 <<[offset |-> Len(before), label |-> LastOp(i)[2], addend |-> 0,
                    kind |-> IF is64 THEN "data8" ELSE "data4", pcrel |-> TRUE]>>)

EmitOneRegister(i) ==
  EmitIf(~(i.name \in {"PUSHQ", "POPQ"} /\ (Num(i, 1) % 2 = 1 \/ Num(i, 1) = 31)),
         RegForm(0, OpcodeBytes(i), 0, Num(i, 1), <<>>))

EmitControlReg(i) ==
  LET reg == IF i.name = "WRCR" THEN i.ops[2] ELSE i.ops[1]
      control == IF i.name = "WRCR" THEN i.ops[1] ELSE i.ops[2]
  IN EmitIf(UInt(control, 16),
            RegForm(0, OpcodeBytes(i), 0, reg[2], LittleEndian(control[2], 2)))

EmitTernaryImm(i, is64) ==
  LET shift == i.name \in {"VSHL128", "VSHR128"}
      byte == FormOf(i.name) = "TernaryByte"
      imm == i.ops[3]
  IN EmitIf(IsImm(imm) /\ (byte => UInt(imm, 8)),
            RegForm(Bit(shift, 64), OpcodeBytes(i), Num(i, 1), Num(i, 2),
                    (IF shift THEN <<24>> ELSE <<>>)
                      \o (IF byte THEN LittleEndian(imm[2], 1)
                                  ELSE AddressBytes(imm, is64))))

(********************** group 0: registers and memory *********************)
EmitTernaryRegister(i) ==
  Bytes(RegForm(0, OpcodeBytes(i), Num(i, 1), Num(i, 2), <<Num(i, 3)>>))

EmitPairLoad(i) ==
  EmitIf(~HasIndex(i.ops[4]) /\ i.ops[5] = Imm(1) /\ i.ops[6] = Imm(0),
         RegForm(0, OpcodeBytes(i), Num(i, 1), Num(i, 2), <<Num(i, 3)>>))

EmitVectorBinary(i) ==
  Bytes(RegForm(64, OpcodeBytes(i), Num(i, 1), Num(i, 2),
                <<ScalarVectorCtl(i), Xop(Num(i, 3))>>))

EmitVectorUnary(i) ==
  Bytes(RegForm(64, OpcodeBytes(i), Num(i, 1), Num(i, 2), <<ScalarVectorCtl(i)>>))

EmitConversion(i) ==
  Bytes(RegForm(64, OpcodeBytes(i), Num(i, 1), Num(i, 2), <<ScalarVectorCtl(i)>>))

EmitVectorMemory(i) ==
  LET load == FormOf(i.name) = "VectorLoad"
      reg == IF load THEN Num(i, 1) ELSE Num(i, 5)
      mem == IF i.name = "XCHG128" THEN Mem(i, 3) ELSE IF load THEN Mem(i, 2) ELSE Mem(i, 1)
  IN MemForm(64, OpcodeBytes(i), reg, mem, <<ScalarVectorCtl(i)>>)

EmitMemory(i) ==
  LET atomic == i.name \in {"ATADD", "ATSUB", "ATAND", "ATOR", "ATXOR", "SC", "XCHGmem"}
      memoryOnly == i.name \in {"PREFETCH", "FLUSH", "INVIC", "INVDC"}
      registerFirst == FormOf(i.name) # "StoreQ"
      mem == CASE memoryOnly -> Mem(i, 1)
               [] i.name = "CMPXCHG" -> Mem(i, 4)
               [] atomic -> Mem(i, 3)
               [] OTHER -> IF registerFirst THEN Mem(i, 2) ELSE Mem(i, 1)
      reg == IF memoryOnly THEN 0 ELSE IF registerFirst THEN Num(i, 1) ELSE Num(i, 5)
      extra == CASE i.name = "STP" -> <<Num(i, 6)>>
                 [] i.name = "CMPXCHG" -> <<Num(i, 3)>>
                 [] OTHER -> <<>>
  IN MemForm(0, OpcodeBytes(i), reg, mem, extra)

EmitRegisterPair(i) ==
  Bytes(RegForm(0, OpcodeBytes(i), Num(i, 1), LastOp(i)[2], <<>>))

EmitBase(i, is64) ==
  LET form == FormOf(i.name) IN
  CASE form = "NoOperand" -> Bytes(OpcodeBytes(i))
    [] form = "TrapImm" -> EmitTrapImm(i)
    [] form = "FrameImm" -> EmitFrameImm(i, is64)
    [] form = "BranchRel32" -> EmitBranchRel32(i)
    [] form \in {"RI64", "ALURI", "CompareRI"} -> EmitAddressImm(i, is64)
    [] form = "IndirectCall" -> EmitIndirectCall(i)
    [] form = "RegCondBranch" -> EmitRegCondBranch(i)
    [] form \in {"UnaryInPlace", "StackReg", "ReadReg"} -> EmitOneRegister(i)
    [] form = "ControlReg" -> EmitControlReg(i)
    [] form \in {"TernaryRI", "TernaryByte"} -> EmitTernaryImm(i, is64)
    [] form = "FPBinary" /\ i.name \in {"PDEPrrr", "PEXTrrr", "CPYBrrr", "CPYWrrr",
                                        "MEMFILLrrr"} -> EmitTernaryRegister(i)
    [] form = "FPBinary" /\ i.name = "LDP" -> EmitPairLoad(i)
    [] form \in {"FPBinary", "VBinary"} /\ ClassOf(i.name) \in {"FPBinary", "VBinary"} ->
         EmitVectorBinary(i)
    [] form = "CopyVV" -> EmitVectorUnary(i)
    [] form \in {"VectorLoad", "VectorStore"} -> EmitVectorMemory(i)
    [] form \in {"IntToFP", "FPToInt"} -> EmitConversion(i)
    [] form \in {"LoadQ", "StoreQ", "AddressCalc"} -> EmitMemory(i)
    [] form \in {"CopyRR", "ALURR", "CompareRR", "UnaryRR"} -> EmitRegisterPair(i)

EmitBody(i, is64) ==
  CASE GroupOf(i.name) = 0 -> EmitBase(i, is64)
    [] GroupOf(i.name) = 1 -> EmitAVX(i)
    [] GroupOf(i.name) = 2 -> EmitCrypto(i)
    [] GroupOf(i.name) = 3 -> EmitDSP(i)
    [] GroupOf(i.name) = 4 -> EmitSysX(i)
    [] GroupOf(i.name) = 5 -> EmitFPX(i)
    [] OTHER -> Rejected

MarkerBytes(i) == IF i.marker = Marker.none THEN <<>> ELSE <<253, i.marker>>

\* Mutant of Placed: a fixup counts from the opcode, as before markers.
Placed_FromOpcode(i, body) == Emitted(MarkerBytes(i) \o body.bytes, body.fixups)

\* Mutant of Placed: the marker is counted twice.
Placed_MarkerTwice(i, body) ==
  Emitted(MarkerBytes(i) \o body.bytes,
          [k \in 1 .. Len(body.fixups) |->
             [body.fixups[k] EXCEPT !.offset = @ + 2 * Len(MarkerBytes(i))]])

(* The marker escape, then the instruction; a fixup counts from the first  *)
(* byte of the marker.                                                     *)
Placed(i, body) ==
  Emitted(MarkerBytes(i) \o body.bytes,
          [k \in 1 .. Len(body.fixups) |->
             [body.fixups[k] EXCEPT !.offset = @ + Len(MarkerBytes(i))]])

WithMarker(i, body) ==
  IF i.marker > Marker.leaf \/ ~body.ok THEN Rejected ELSE Placed(i, body)

(* encodeInstruction. *)
Encode(i, is64) == WithMarker(i, EmitBody(i, is64))
=============================================================================
