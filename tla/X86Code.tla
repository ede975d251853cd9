------------------------------ MODULE X86Code ------------------------------
(***************************************************************************)
(* The part of the x86-64 instruction set pebble-xlate reads, as its       *)
(* manual defines it: which byte strings encode an instruction, and when   *)
(* a condition holds.  External to the repository; src/main.cpp decodes    *)
(* it.                                                                     *)
(*                                                                         *)
(* An instruction is a record [mnemonic, cc, ops].  A register operand is  *)
(* XReg(n) with the number of the hardware, RSP = 4, RBP = 5; an immediate *)
(* or the address a branch goes to is Imm or Wide; a memory operand is     *)
(* XMem of an address record.                                              *)
(***************************************************************************)
EXTENDS CodeEmitter

NONE == -1
XReg(n) == <<"reg", n, 0>>
XMem(m) == <<"mem", m, 0>>
At64(base, index, scale, disp) ==
  [rip |-> FALSE, base |-> base, index |-> index, scale |-> scale, disp |-> disp]
AtRip(disp) == [rip |-> TRUE, base |-> NONE, index |-> NONE, scale |-> 1, disp |-> disp]

IsReg(op) == op[1] = "reg"
IsMem(op) == op[1] = "mem"

(* What operands there are.  RSP is no index, and without an index there   *)
(* is no scale.                                                            *)
Register == 0 .. 15
Address ==
  {m \in [rip : BOOLEAN, base : Register \cup {NONE}, index : (Register \ {4}) \cup {NONE},
          scale : {1, 2, 4, 8}, disp : Word32] :
     /\ m.rip => m.base = NONE /\ m.index = NONE
     /\ m.index = NONE => m.scale = 1}
RegOperand == {"reg"} \X Register \X {0}
MemOperand == {"mem"} \X Address \X {0}
ImmOperand == {"i"} \X Word32 \X Word32

(***************************************************************************)
(* ModR/M without its reg field, SIB and displacement: every way to name   *)
(* the operand.  RBP and R13 have no form without displacement, RSP and    *)
(* R12 none without SIB; an absent index is 4.                             *)
(***************************************************************************)
SibByte(m, base) ==
  64 * ScaleBits(m.scale) + 8 * (IF m.index = NONE THEN 4 ELSE Low3(m.index)) + base

Mods(m) == {mod \in 0 .. 2 : /\ mod = 0 => m.disp = 0 /\ Low3(m.base) # 5
                             /\ mod = 1 => SInt8(m.disp)}
BaseForms(m) ==
  {<<64 * mod + Low3(m.base)>> : mod \in IF m.index = NONE /\ Low3(m.base) # 4
                                         THEN Mods(m) ELSE {}}
    \cup {<<64 * mod + 4, SibByte(m, Low3(m.base))>> : mod \in Mods(m)}
Displacement(mod, disp) ==
  LittleEndian(disp, CASE mod = 0 -> 0 [] mod = 1 -> 1 [] mod = 2 -> 4)

RmForms(op) ==
  IF IsReg(op) THEN {<<192 + Low3(op[2])>>}
  ELSE IF op[2].rip THEN {<<5>> \o LittleEndian(op[2].disp, 4)}
  ELSE IF op[2].base = NONE
       THEN {<<4, SibByte(op[2], 5)>> \o LittleEndian(op[2].disp, 4)}
       ELSE {form \o Displacement(form[1] \div 64, op[2].disp) : form \in BaseForms(op[2])}

(* REX.W, R, X and B carry the fourth bit of each register. *)
High(n) == IF n > 7 THEN 1 ELSE 0
Rex(w, reg, index, base) ==
  LET bits == 8 * w + 4 * High(reg) + 2 * High(index) + High(base)
  IN IF bits = 0 THEN <<>> ELSE <<64 + bits>>
RexOf(reg, op) ==
  IF IsReg(op) THEN Rex(1, reg, 0, op[2]) ELSE Rex(1, reg, op[2].index, op[2].base)

ModRMForms(opcode, reg, op) ==
  {RexOf(reg, op) \o <<opcode, form[1] + 8 * Low3(reg)>> \o Tail(form) : form \in RmForms(op)}

(* The instructions and the operands they take.                            *)
BinaryOpcode == [ADD |-> 1, OR |-> 9, AND |-> 33, SUB |-> 41, XOR |-> 49, CMP |-> 57, MOV |-> 137]

MovesImmediate(x) == x.mnemonic = "MOV" /\ IsImm(x.ops[2])
IsInstruction(x) ==
  \/ x.mnemonic \in {"RET", "NOP", "SYSCALL", "INT3", "UD2"} /\ x.ops = <<>>
  \/ x.mnemonic \in {"PUSH", "POP"} /\ x.ops \in {<<r>> : r \in RegOperand}
  \/ /\ x.mnemonic \in {"CALL", "JMP", "Jcc"}
     /\ x.mnemonic = "Jcc" => x.cc \in 0 .. 15
     /\ x.ops = <<Imm(x.ops[1][2])>> /\ x.ops[1][2] \in Word32
  \/ /\ x.mnemonic \in DOMAIN BinaryOpcode
     /\ \/ x.ops \in RegOperand \X (RegOperand \cup MemOperand)
        \/ x.ops \in MemOperand \X RegOperand
  \/ x.mnemonic = "MOV" /\ x.ops \in (RegOperand \cup MemOperand) \X ImmOperand

(* Register to r/m, or two more: r/m to register; a locked read and write. *)
BinaryForms(mnemonic, dst, src) ==
  LET to_rm == IF IsReg(src) THEN ModRMForms(BinaryOpcode[mnemonic], src[2], dst) ELSE {}
      locked == IF mnemonic \in {"MOV", "CMP"} \/ IsReg(dst) THEN {}
                ELSE {<<240>> \o form : form \in to_rm}
      to_reg == IF IsReg(dst) THEN ModRMForms(BinaryOpcode[mnemonic] + 2, dst[2], src) ELSE {}
  IN to_rm \cup locked \cup to_reg

(* A move of an immediate: all eight bytes, four that are zero-extended by *)
(* the 32-bit move, four that are sign-extended.                           *)
MoveForms(dst, imm) ==
  LET fixed(w) == Rex(w, 0, 0, dst[2]) \o <<184 + Low3(dst[2])>>
      sign == {form \o LittleEndian(imm[2], 4) : form \in ModRMForms(199, 0, dst)}
  IN (IF SInt32(imm) THEN sign ELSE {})
       \cup (IF IsReg(dst) THEN {fixed(1) \o AddressBytes(imm, TRUE)} ELSE {})
       \cup (IF IsReg(dst) /\ imm[3] = 0
             THEN {fixed(0) \o LittleEndian(imm[2], 4)} ELSE {})

(* A branch reaches what its displacement can express. *)
Far(code, target, at) ==
  LET distance == target - (at + Len(code) + 4)
  IN IF distance \in Word32 THEN {code \o LittleEndian(distance, 4)} ELSE {}
Near(byte, target, at) ==
  IF SInt8(target - (at + 2)) THEN {<<byte>> \o LittleEndian(target - (at + 2), 1)} ELSE {}

(* Every encoding of an instruction at address at, prefixes that do not    *)
(* change it included.  The last two are not known to pebble-xlate.        *)
Encodings(x, at) ==
  LET m == x.mnemonic IN
  CASE m = "PUSH" -> {Rex(0, 0, 0, x.ops[1][2]) \o <<80 + Low3(x.ops[1][2])>>}
    [] m = "POP" -> {Rex(0, 0, 0, x.ops[1][2]) \o <<88 + Low3(x.ops[1][2])>>}
    [] m = "RET" -> {<<195>>, <<243, 195>>}
    [] m = "NOP" -> {<<144>>, <<102, 144>>}
    [] m = "SYSCALL" -> {<<15, 5>>}
    [] m = "CALL" -> Far(<<232>>, x.ops[1][2], at)
    [] m = "JMP" -> Far(<<233>>, x.ops[1][2], at) \cup Near(235, x.ops[1][2], at)
    [] m = "Jcc" -> Far(<<15, 128 + x.cc>>, x.ops[1][2], at)
                      \cup Near(112 + x.cc, x.ops[1][2], at)
    [] MovesImmediate(x) -> MoveForms(x.ops[1], x.ops[2])
    [] m \in DOMAIN BinaryOpcode /\ ~MovesImmediate(x) -> BinaryForms(m, x.ops[1], x.ops[2])
    [] m = "INT3" -> {<<204>>}
    [] m = "UD2" -> {<<15, 11>>}

-----------------------------------------------------------------------------
(* The flags, and condition cc of a jump: an odd one negates the even one  *)
(* before it.                                                              *)
XFlags == [cf : BOOLEAN, zf : BOOLEAN, sf : BOOLEAN, of : BOOLEAN, pf : BOOLEAN]

EvenCondition(cc, f) ==
  CASE cc = 0 -> f.of
    [] cc = 2 -> f.cf
    [] cc = 4 -> f.zf
    [] cc = 6 -> f.cf \/ f.zf
    [] cc = 8 -> f.sf
    [] cc = 10 -> f.pf
    [] cc = 12 -> f.sf # f.of
    [] cc = 14 -> f.zf \/ f.sf # f.of

ConditionHolds(cc, f) == EvenCondition(cc - (cc % 2), f) # (cc % 2 = 1)
=============================================================================
