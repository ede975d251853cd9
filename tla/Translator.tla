----------------------------- MODULE Translator -----------------------------
(***************************************************************************)
(* pebble-xlate (src/main.cpp): decode_all reads an x86-64 program,        *)
(* lower() writes it as SeaBird assembly, as SeaBird bytes for what it can *)
(* encode, and as notes on what it cannot.  An error in either loop ends   *)
(* the translation without output.  Afterwards the bytes are read by       *)
(* decode_at of the reference machine.                                     *)
(*                                                                         *)
(* Menu[k] are the instructions the k-th place of the input is taken from; *)
(* every encoding of them is an input, and so is every input cut short.    *)
(*                                                                         *)
(* Emitted keeps its lines, bytes and notes apart; lowered holds those of  *)
(* each instruction together, comment lines left out, next to the bytes of *)
(* all of them.                                                            *)
(***************************************************************************)
EXTENDS X86Code, ReferenceDecoder

CONSTANT Menu

ASSUME MenuAssumption ==
  /\ Len(Menu) \in Nat
  /\ \A k \in 1 .. Len(Menu) : \A x \in Menu[k] : IsInstruction(x)

VARIABLES
  phase,     \* "writing", "decoding", "lowering", "reading", "error", "stopped"
  input,     \* the program, as bytes
  written,   \* history: its instructions and where each is in input
  pos,       \* Reader::pos_
  insts,     \* what Decoder::next() returned
  lowered,   \* for each instruction lowered: lines, bytes, notes
  emitted,   \* Emitted::bytes
  plain,     \* history: the lines no note is about and where their bytes are
  offset,    \* where the machine is in the bytes
  read       \* what it decoded

outputVars == <<lowered, emitted, plain>>
vars == <<phase, input, written, pos, insts, outputVars, offset, read>>

(******************************** Decoder **********************************)
IsRex(b) == b \in 64 .. 79
PrefixByte(b) == IsRex(b) \/ b \in {102, 240, 242, 243}

PrefixEnd(code, p) ==
  CHOOSE e \in p .. Len(code) :
    /\ \A n \in p .. e - 1 : PrefixByte(At(code, n))
    /\ e = Len(code) \/ ~PrefixByte(At(code, e))

(* The last REX byte counts. *)
LastRex(code, p, e) ==
  LET rexes == {n \in p .. e - 1 : IsRex(At(code, n))}
  IN IF rexes = {} THEN 0 ELSE At(code, Max(rexes)) % 16

W(rex) == rex \div 8 = 1
R(rex) == (rex \div 4) % 2
X(rex) == (rex \div 2) % 2
B(rex) == rex % 2

RegFromBits(bits, high) == (bits % 8) + 8 * high

\* Mutant of NoBase: R13 and RBP with a displacement lose their register.
NoBase_AnyMod(mod, sib) == sib % 8 = 5

NoBase(mod, sib) == mod = 0 /\ sib % 8 = 5

(* The memory operand after ModR/M; p is the byte after it. *)
DecodeMemory(code, p, rex, mod, rm) ==
  LET sib == At(code, p)
      q == IF rm = 4 THEN p + 1 ELSE p
      noBase == rm = 4 /\ NoBase(mod, sib)
      rip == mod = 0 /\ rm = 5
      index == (sib \div 8) % 8
      long == mod = 2 \/ noBase \/ rip
  IN [p |-> q + (IF long THEN 4 ELSE mod),
      mem |-> [rip |-> rip,
               base |-> CASE rip \/ noBase -> NONE
                          [] OTHER -> RegFromBits(IF rm = 4 THEN sib ELSE rm, B(rex)),
               index |-> IF rm # 4 \/ index = 4 THEN NONE ELSE RegFromBits(index, X(rex)),
               scale |-> IF rm = 4 THEN 2 ^ (sib \div 64) ELSE 1,
               disp |-> IF long THEN Signed32(code, q)
                        ELSE IF mod = 1 THEN Signed8(At(code, q)) ELSE 0]]

(* decode_modrm: the register operand, the other one, and what follows.    *)
DecodeModRM(code, p, rex) ==
  LET modrm == At(code, p)
      direct == modrm \div 64 = 3
      memory == DecodeMemory(code, p + 1, rex, modrm \div 64, modrm % 8)
  IN [reg |-> XReg(RegFromBits(modrm \div 8, R(rex))),
      rm |-> IF direct THEN XReg(RegFromBits(modrm, B(rex))) ELSE XMem(memory.mem),
      p |-> IF direct THEN p + 1 ELSE memory.p]

JccName == <<"JO", "JNO", "JC", "JNC", "JE", "JNE", "JLE", "JG",
             "JS", "JNS", "JP", "JNP", "JL", "JGE", "JLE", "JG">>

Binary ==
  [op \in {1, 9, 33, 41, 49, 57, 137} |->
     CASE op = 1 -> "ADD" [] op = 9 -> "OR" [] op = 33 -> "AND" [] op = 41 -> "SUB"
       [] op = 49 -> "XOR" [] op = 57 -> "CMP" [] op = 137 -> "MOV"]

XInst(mnemonic, ops, end) == [ok |-> TRUE, mnemonic |-> mnemonic, ops |-> ops, end |-> end]
BinaryRmReg(mnemonic, m) == XInst(mnemonic, <<m.rm, m.reg>>, m.p)
BinaryRegRm(mnemonic, m) == XInst(mnemonic, <<m.reg, m.rm>>, m.p)
StoreImmediate(code, m) == XInst("MOV", <<m.rm, Imm(Signed32(code, m.p))>>, m.p + 4)
BranchRel8(code, p, mnemonic) ==
  XInst(mnemonic, <<Imm(p + 1 + Signed8(At(code, p)))>>, p + 1)
BranchRel32(code, p, mnemonic) == XInst(mnemonic, <<Imm(p + 4 + Signed32(code, p))>>, p + 4)

MoveImmediate(code, p, reg, wide) ==
  IF wide THEN XInst("MOV", <<reg, Wide(Signed32(code, p), Signed32(code, p + 4))>>, p + 8)
          ELSE XInst("MOV", <<reg, Imm(Signed32(code, p))>>, p + 4)

DecodeSecond(code, p) ==
  LET op2 == At(code, p) IN
  CASE op2 = 5 -> XInst("SYSCALL", <<>>, p + 1)
    [] op2 \in 128 .. 143 -> BranchRel32(code, p + 1, JccName[op2 - 127])
    [] OTHER -> Throws

(* The opcode op, whose operands start at p. *)
DecodeOpcode(code, p, rex, op) ==
  CASE op \in 80 .. 87 -> XInst("PUSH", <<XReg(RegFromBits(op, B(rex)))>>, p)
    [] op \in 88 .. 95 -> XInst("POP", <<XReg(RegFromBits(op, B(rex)))>>, p)
    [] op \in 112 .. 127 -> BranchRel8(code, p, JccName[op - 111])
    [] op \in 184 .. 191 -> MoveImmediate(code, p, XReg(RegFromBits(op, B(rex))), W(rex))
    [] op \in DOMAIN Binary -> BinaryRmReg(Binary[op], DecodeModRM(code, p, rex))
    [] op - 2 \in DOMAIN Binary -> BinaryRegRm(Binary[op - 2], DecodeModRM(code, p, rex))
    [] op = 199 -> StoreImmediate(code, DecodeModRM(code, p, rex))
    [] op = 144 -> XInst("NOP", <<>>, p)
    [] op = 195 -> XInst("RET", <<>>, p)
    [] op = 232 -> BranchRel32(code, p, "CALL")
    [] op = 233 -> BranchRel32(code, p, "JMP")
    [] op = 235 -> BranchRel8(code, p, "JMP")
    [] op = 15 -> DecodeSecond(code, p)
    [] OTHER -> Throws

(* Reader::u8 throws at the end of the input: an instruction that needed a *)
(* byte beyond it is none.                                                 *)
Inside(code, x) == IF x.ok /\ x.end <= Len(code) THEN x ELSE Throws

Next(code, start) ==
  LET e == PrefixEnd(code, start)
  IN Inside(code, DecodeOpcode(code, e + 1, LastRex(code, start, e), At(code, e)))

(******************************** lower() **********************************)
(* A line of assembly is [name, ops]; GPR(28) and GPR(29) are scratch.     *)
SeabirdRegs == <<0, 2, 3, 1, 7, 6, 4, 5, 8, 9, 10, 11, 12, 13, 14, 15>>
SeabirdReg(op) == SeabirdRegs[op[2] + 1]

AsmLine(name, ops) == [name |-> name, ops |-> ops]
Scratch == GPR(28)
Scratch2 == GPR(29)
Pointer == <<"at", 28, 0>>

kOpcodes ==
  [MOV |-> 0, MOVI |-> 1, ADD |-> 32, SUB |-> 34, AND |-> 64, OR |-> 65, XOR |-> 66,
   CMP |-> 82, JMP |-> 92, CALL |-> 94, RET |-> 96, JE |-> 97, JNE |-> 98, JG |-> 99,
   JGE |-> 100, JL |-> 101, JLE |-> 102, JC |-> 103, JNC |-> 104, JO |-> 105,
   JNO |-> 106, JS |-> 107, JNS |-> 108, SYSCALL |-> 130, PUSH |-> 141, POP |-> 142]
SeabirdOpcode(m) == IF m \in DOMAIN kOpcodes THEN kOpcodes[m] ELSE 255

\* Mutant of ModrmReg: the register numbers are not cut to three bits.
ModrmReg_Wide(reg, rm) == 192 + 8 * reg + rm

ModrmReg(reg, rm) == 192 + 8 * Low3(reg) + Low3(rm)

\* Mutant of OrexByte: the two fields the other way round.
OrexByte_Swapped(reg, rm) == High2(rm) + 4 * High2(reg)

OrexByte(reg, rm) == High2(reg) + 4 * High2(rm)

(* encode_reg2, encode_reg_imm64 without the immediate, PUSH and POP.      *)
EncodeReg2(opcode, d, s) ==
  IF d > 7 \/ s > 7 THEN <<254, 128, opcode, ModrmReg(d, s), OrexByte(d, s)>>
                    ELSE <<opcode, ModrmReg(d, s)>>
EncodeRegImm64(opcode, d, imm) == EncodeReg2(opcode, 0, d) \o AddressBytes(imm, TRUE)

(* Lines, bytes and notes of one instruction. *)
Lowering(lines, bytes, notes) == [lines |-> lines, bytes |-> bytes, notes |-> notes]
Then(a, b) == Lowering(a.lines \o b.lines, a.bytes \o b.bytes, a.notes \o b.notes)
Encoded(line, bytes) == Lowering(<<line>>, bytes, <<>>)
Textual(lines, note) == Lowering(lines, <<>>, <<note>>)

MoviScratch(m) == AsmLine("MOVI", <<Scratch, Imm(m.disp)>>)
MovScratch(m) == AsmLine("MOV", <<Scratch, GPR(SeabirdReg(XReg(m.base)))>>)

\* Mutant of AddScratch: a negative displacement is written without its sign.
AddScratch_NoSign(m) ==
  AsmLine("ADDI", <<Scratch, Imm(IF m.disp < 0 THEN -m.disp ELSE m.disp)>>)

AddScratch(m) == AsmLine("ADDI", <<Scratch, Imm(m.disp)>>)

(* emit_ea: the address into R28. *)
EmitEA(m) ==
  CASE m.rip -> Textual(<<MoviScratch(m)>>, "relocation")
    [] ~m.rip /\ m.base # NONE /\ m.index # NONE ->
         Textual(<<AsmLine("LEAS", <<Scratch, XMem(m)>>)>>, "SIB")
    [] ~m.rip /\ m.base # NONE /\ m.index = NONE /\ m.disp # 0 ->
         Then(Textual(<<MovScratch(m)>>, "compound"), Textual(<<AddScratch(m)>>, "compound"))
    [] ~m.rip /\ m.base # NONE /\ m.index = NONE /\ m.disp = 0 ->
         Textual(<<MovScratch(m)>>, "address")
    [] ~m.rip /\ m.base = NONE -> Textual(<<MoviScratch(m)>>, "absolute address")

(* emit_load_to, emit_store_from, and their scratch forms.                 *)
EmitLoad(reg, m) == Then(EmitEA(m), Textual(<<AsmLine("LDQ", <<reg, Pointer>>)>>, "LDQ"))
EmitStore(m, reg) == Then(EmitEA(m), Textual(<<AsmLine("STQ", <<Pointer, reg>>)>>, "STQ"))

EmitBranchImm(m, target) ==
  Encoded(AsmLine(m, <<target>>), <<SeabirdOpcode(m)>> \o LittleEndian(target[2], 4))

R64(op) == GPR(SeabirdReg(op))
RegisterPair(m, dst, src) ==
  Encoded(AsmLine(m, <<R64(dst), R64(src)>>),
          EncodeReg2(SeabirdOpcode(m), SeabirdReg(dst), SeabirdReg(src)))
OneRegister(m, op) ==
  Encoded(AsmLine(m, <<R64(op)>>), EncodeReg2(SeabirdOpcode(m), 0, SeabirdReg(op)))

LowerMov(dst, src) ==
  CASE IsReg(dst) /\ IsImm(src) ->
         Encoded(AsmLine("MOVI", <<R64(dst), src>>), EncodeRegImm64(1, SeabirdReg(dst), src))
    [] IsReg(dst) /\ IsReg(src) -> RegisterPair("MOV", dst, src)
    [] IsReg(dst) /\ IsMem(src) -> EmitLoad(R64(dst), src[2])
    [] IsMem(dst) /\ IsReg(src) -> EmitStore(dst[2], R64(src))
    [] IsMem(dst) /\ IsImm(src) ->
         Then(Textual(<<AsmLine("MOVI", <<Scratch2, src>>)>>, "memory-immediate"),
              EmitStore(dst[2], Scratch2))

LowerBinary(m, dst, src) ==
  LET combine(a, b) == Textual(<<AsmLine(m, <<a, b>>)>>, "memory operand") IN
  CASE IsReg(dst) /\ IsReg(src) -> RegisterPair(m, dst, src)
    [] IsReg(dst) /\ IsMem(src) ->
         Then(EmitLoad(Scratch2, src[2]), combine(R64(dst), Scratch2))
    [] IsMem(dst) /\ m # "CMP" ->
         Then(Then(EmitLoad(Scratch2, dst[2]), combine(Scratch2, R64(src))),
              EmitStore(dst[2], Scratch2))
    [] IsMem(dst) /\ m = "CMP" ->
         Then(EmitLoad(Scratch2, dst[2]), combine(Scratch2, R64(src)))

(* The last pattern of the source, for none of these, is never reached:    *)
(* the decoder builds no other operands.                                   *)
Lower(x) ==
  LET m == x.mnemonic IN
  CASE m = "NOP" -> Lowering(<<>>, <<>>, <<>>)
    [] m \in {"RET", "SYSCALL"} -> Encoded(AsmLine(m, <<>>), <<SeabirdOpcode(m)>>)
    [] m \in {"PUSH", "POP"} -> OneRegister(m, x.ops[1])
    [] m \in {"JMP", "CALL"} \cup Range(JccName) -> EmitBranchImm(m, x.ops[1])
    [] m = "MOV" -> LowerMov(x.ops[1], x.ops[2])
    [] m \in {"ADD", "SUB", "AND", "OR", "XOR", "CMP"} -> LowerBinary(m, x.ops[1], x.ops[2])

(******************************** the program ******************************)
TransInit ==
  /\ phase = "writing"
  /\ input = <<>> /\ written = <<>>
  /\ pos = 0 /\ insts = <<>>
  /\ lowered = <<>> /\ emitted = <<>> /\ plain = <<>>
  /\ offset = 0 /\ read = <<>>

(* The input: its next instruction, in any encoding; then its length, all  *)
(* of it or the last instruction cut short.                                *)
Write(x, code) ==
  /\ phase = "writing"
  /\ input' = input \o code
  /\ written' = Append(written, [inst |-> x, at |-> Len(input), end |-> Len(input) + Len(code)])
  /\ UNCHANGED <<phase, pos, insts, outputVars, offset, read>>

WriteOne ==
  /\ Len(written) < Len(Menu)
  /\ \E x \in Menu[Len(written) + 1] : \E code \in Encodings(x, Len(input)) : Write(x, code)

Open(size) ==
  /\ phase = "writing" /\ written # <<>>
  /\ size > Last(written).at
  /\ phase' = "decoding"
  /\ input' = SubSeq(input, 1, size)
  /\ UNCHANGED <<written, pos, insts, outputVars, offset, read>>

(* One round of decode_all. *)
DecodeNext ==
  /\ phase = "decoding" /\ pos < Len(input)
  /\ LET x == Next(input, pos) IN
       IF x.ok
       THEN /\ insts' = Append(insts, [pc |-> pos, mnemonic |-> x.mnemonic, ops |-> x.ops])
            /\ pos' = x.end
            /\ UNCHANGED phase
       ELSE phase' = "error" /\ UNCHANGED <<insts, pos>>
  /\ UNCHANGED <<input, written, outputVars, offset, read>>

AllDecoded ==
  /\ phase = "decoding" /\ pos = Len(input)
  /\ phase' = "lowering"
  /\ UNCHANGED <<input, written, pos, insts, outputVars, offset, read>>

PlainLines(entry, at) ==
  IF entry.notes # <<>> THEN <<>>
  ELSE [k \in 1 .. Len(entry.lines) |->
          [line |-> entry.lines[k], at |-> at, end |-> at + Len(entry.bytes)]]

(* One round of lower(). *)
LowerNext ==
  /\ phase = "lowering" /\ Len(lowered) < Len(insts)
  /\ LET entry == Lower(insts[Len(lowered) + 1]) IN
       /\ lowered' = Append(lowered, entry)
       /\ emitted' = emitted \o entry.bytes
       /\ plain' = plain \o PlainLines(entry, Len(emitted))
  /\ UNCHANGED <<phase, input, written, pos, insts, offset, read>>

WriteOutput ==
  /\ phase = "lowering" /\ Len(lowered) = Len(insts)
  /\ phase' = "reading"
  /\ UNCHANGED <<input, written, pos, insts, outputVars, offset, read>>

(* The machine, instruction by instruction of the bytes.                   *)
FetchNext ==
  /\ phase = "reading" /\ offset < Len(emitted)
  /\ LET d == DecodeAt(emitted, offset) IN
       IF d.ok THEN offset' = offset + d.size /\ read' = Append(read, d) /\ UNCHANGED phase
               ELSE phase' = "stopped" /\ UNCHANGED <<offset, read>>
  /\ UNCHANGED <<input, written, pos, insts, outputVars>>

TransNext ==
  \/ WriteOne
  \/ \E size \in 0 .. Len(input) : Open(size)
  \/ DecodeNext
  \/ AllDecoded
  \/ LowerNext
  \/ WriteOutput
  \/ FetchNext

TransSpec == TransInit /\ [][TransNext]_vars

-----------------------------------------------------------------------------
(***************************************************************************)
(* What lines of assembly do, over registers that hold terms: <<"r", n, 0>>*)
(* what the register held before, an immediate, a load from an address, an *)
(* operation on two terms, or an address, <<"at", base, index, scale,      *)
(* displacement>>.  Registers 0 to 15 are those of the x86 program; goes   *)
(* is the address the next instruction is at, a branch being taken.        *)
(***************************************************************************)
Absent == <<"none", 0, 0>>
Located(base, index, scale, disp) == <<"at", base, index, scale, disp>>
AsAddress(v) ==
  CASE v[1] = "at" -> v
    [] v[1] = "i" -> Located(Absent, Absent, 1, v[2])
    [] OTHER -> Located(v, Absent, 1, 0)
Moved(v, disp) == [AsAddress(v) EXCEPT ![5] = @ + disp]

(* The address an x86 operand names, in the registers it is renamed to.    *)
Named(m) ==
  Located(IF m.base = NONE THEN Absent ELSE GPR(SeabirdReg(XReg(m.base))),
          IF m.index = NONE THEN Absent ELSE GPR(SeabirdReg(XReg(m.index))),
          IF m.index = NONE THEN 1 ELSE m.scale, m.disp)

Untouched == [n \in 0 .. 31 |-> GPR(n)]
Following == <<"next", 0, 0>>
System == <<"system", 0, 0>>
Start == [regs |-> Untouched, stored |-> <<>>, flags |-> Absent, goes |-> Following]

(* The stack of the machine: R7 points to its top word.                    *)
Top(s) == <<"load", AsAddress(s.regs[7]), 0>>
Stacked(s, disp) == [s EXCEPT !.regs[7] = Moved(@, disp)]
StoredOnTop(s, v) == [s EXCEPT !.stored = Append(@, <<AsAddress(s.regs[7]), v>>)]

(* CALL, RET and the branches as run_function has them, with one window;   *)
(* PUSH, POP and SYSCALL as spec/seabird-isa.json has them: PUSH reads its *)
(* register after it has moved R7.  A branch goes to the x86 address of    *)
(* its operand, which heads the lines of an instruction.                   *)
ControlNames == {"PUSH", "POP", "CALL", "RET", "JMP", "SYSCALL"} \cup Range(JccName)
RunControl(s, n, a) ==
  CASE n = "PUSH" -> StoredOnTop(Stacked(s, -8), Stacked(s, -8).regs[a[2]])
    [] n = "POP" -> [Stacked(s, 8) EXCEPT !.regs[a[2]] = Top(s)]
    [] n = "CALL" -> [StoredOnTop(Stacked(s, -8), Following) EXCEPT !.goes = a]
    [] n = "RET" -> [Stacked(s, 8) EXCEPT !.goes = Top(s)]
    [] n = "SYSCALL" -> [s EXCEPT !.goes = System]
    [] n \in {"JMP"} \cup Range(JccName) -> [s EXCEPT !.goes = a]

RunLine(s, line) ==
  LET n == line.name
      a == line.ops[1]
      b == line.ops[2]
      set(v) == [s EXCEPT !.regs[a[2]] = v]
      result == <<n, s.regs[a[2]], s.regs[b[2]]>>
  IN CASE n = "MOVI" -> set(b)
       [] n = "MOV" -> set(s.regs[b[2]])
       [] n = "ADDI" -> [set(Moved(s.regs[a[2]], b[2])) EXCEPT !.flags = <<n, a, b>>]
       [] n = "LEAS" -> set(Named(b[2]))
       [] n = "LDQ" -> set(<<"load", AsAddress(s.regs[28]), 0>>)
       [] n = "STQ" -> [s EXCEPT !.stored = Append(@, <<AsAddress(s.regs[28]), s.regs[b[2]]>>)]
       [] n \in ControlNames -> RunControl(s, n, a)
       [] n = "CMP" -> [s EXCEPT !.flags = result]
       [] OTHER -> [set(result) EXCEPT !.flags = result]

(* What a sequence of lines does. *)
Run(lines) ==
  LET after[n \in 0 .. Len(lines)] ==
        IF n = 0 THEN Start ELSE RunLine(after[n - 1], lines[n])
  IN after[Len(lines)]

(* What the x86 instruction does, in the same terms. *)
Value(op) == CASE IsReg(op) -> GPR(SeabirdReg(op))
               [] IsImm(op) -> op
               [] IsMem(op) -> <<"load", Named(op[2]), 0>>

DataMeaning(x) ==
  LET dst == x.ops[1]
      moves == x.mnemonic = "MOV"
      result == IF moves THEN Value(x.ops[2])
                ELSE <<x.mnemonic, Value(dst), Value(x.ops[2])>>
      writes == x.mnemonic # "CMP"
  IN [regs |-> IF writes /\ IsReg(dst)
               THEN [Untouched EXCEPT ![SeabirdReg(dst)] = result] ELSE Untouched,
      stored |-> IF writes /\ IsMem(dst) THEN <<<<Named(dst[2]), result>>>> ELSE <<>>,
      flags |-> IF moves THEN Absent ELSE result,
      goes |-> Following]

MemoryOf(x) == {x.ops[k][2] : k \in {k \in 1 .. Len(x.ops) : IsMem(x.ops[k])}}
MovesData(x) == x.mnemonic \in DOMAIN BinaryOpcode

(* PUSH reads its register before it moves RSP.                            *)
RSP == SeabirdReg(XReg(4))
Meaning(x) ==
  LET m == x.mnemonic
      op == x.ops[1]
      top == <<"load", Located(GPR(RSP), Absent, 1, 0), 0>>
      below == Located(GPR(RSP), Absent, 1, -8)
      above == Located(GPR(RSP), Absent, 1, 8)
      pushed(v) == [Start EXCEPT !.regs[RSP] = below, !.stored = <<<<below, v>>>>]
      popped == [Start EXCEPT !.regs[RSP] = above]
  IN CASE MovesData(x) -> DataMeaning(x)
       [] m = "PUSH" -> pushed(Value(op))
       [] m = "POP" -> [popped EXCEPT !.regs[SeabirdReg(op)] = top]
       [] m = "CALL" -> [pushed(Following) EXCEPT !.goes = op]
       [] m = "RET" -> [popped EXCEPT !.goes = top]
       [] m \in {"JMP", "Jcc"} -> [Start EXCEPT !.goes = op]
       [] m = "SYSCALL" -> [Start EXCEPT !.goes = System]
       [] m = "NOP" -> Start

(* PUSH of the stack pointer: the machine stores what R7 is afterwards.    *)
PushesSP(x) == x.mnemonic = "PUSH" /\ x.ops = <<XReg(4)>>

(* The addresses emit_ea writes in full: the distance from the next        *)
(* instruction is left to a relocation, and an index needs a base.         *)
InFull(m) == ~m.rip /\ (m.index # NONE => m.base # NONE)

(* ADDI, which adds a displacement, sets flags: x86 keeps them in a MOV,   *)
(* and an instruction on memory computes its address again to store.       *)
AddsDisplacement(m) == m.base # NONE /\ m.index = NONE /\ m.disp # 0
KeepsFlags(x) ==
  x.mnemonic = "MOV" \/ (x.mnemonic # "CMP" /\ IsMem(x.ops[1])) =>
    \A m \in MemoryOf(x) : ~AddsDisplacement(m)

(* The jumps of the machine, by name: the first eight as run_function      *)
(* takes them, the others as spec/seabird-isa.json defines them.           *)
JumpTaken(name, f) ==
  CASE name = "JE" -> f.zf
    [] name = "JNE" -> ~f.zf
    [] name = "JG" -> ~f.zf /\ f.sf = f.of
    [] name = "JGE" -> f.sf = f.of
    [] name = "JL" -> f.sf # f.of
    [] name = "JLE" -> f.zf \/ f.sf # f.of
    [] name = "JC" -> f.cf
    [] name = "JNC" -> ~f.cf
    [] name = "JO" -> f.of
    [] name = "JNO" -> ~f.of
    [] name = "JS" -> f.sf
    [] name = "JNS" -> ~f.sf

(* Below or equal, above, and the parity jumps have no counterpart.        *)
Unmatched == {6, 7, 10, 11}

-----------------------------------------------------------------------------
\* Type invariant: bytes are bytes, the decoder's position and the lowered
\* instructions follow the input, and no output exists before all of it is decoded.
TransTypeOK ==
  /\ phase \in {"writing", "decoding", "lowering", "reading", "error", "stopped"}
  /\ \A k \in 1 .. Len(input) : input[k] \in 0 .. 255
  /\ pos \in 0 .. Len(input) /\ Len(insts) <= pos
  /\ Len(lowered) <= Len(insts)
  /\ lowered # <<>> => pos = Len(input)
  /\ \A k \in 1 .. Len(emitted) : emitted[k] \in 0 .. 255
  /\ offset \in 0 .. Len(emitted)

(* The code does not read two operands as x86 does: it takes R12 as index  *)
(* for no index, and sign-extends the four bytes of a 32-bit move.         *)
ReadsOperands(x) ==
  /\ \A m \in MemoryOf(x) : m.index # 12
  /\ \A k \in 1 .. Len(x.ops) : IsImm(x.ops[k]) /\ x.ops[k][3] = 0 => x.ops[k][2] >= 0

Supported(x) == x.mnemonic \notin {"INT3", "UD2"}

DecodedAs(x, w) ==
  /\ x.pc = w.at
  /\ ReadsOperands(w.inst) => x.ops = w.inst.ops
  /\ x.mnemonic = IF w.inst.mnemonic = "Jcc" THEN JccName[w.inst.cc + 1] ELSE w.inst.mnemonic

\* Decoder::next() gives back the program, whichever prefixes, REX bits, ModR/M and SIB
\* forms and displacement sizes it was encoded with, each instruction at its address
\* and branches with the address they go to; it stops with an error only at an
\* instruction that is cut off or unsupported, and never reads past one.
DecodesWhatIsWritten ==
  /\ Len(insts) <= Len(written)
  /\ \A k \in 1 .. Len(insts) : DecodedAs(insts[k], written[k])
  /\ phase # "writing" =>
       pos = (IF insts = <<>> THEN 0 ELSE written[Len(insts)].end)
  /\ phase = "error" =>
       LET next == written[Len(insts) + 1]
       IN next.end > Len(input) \/ ~Supported(next.inst)

\* The assembly text means what the program means, instruction by instruction: run line
\* by line, the lines leave the renamed registers, the stack and the other stores with
\* their addresses, and the flags the x86 instruction leaves, and clobber nothing but
\* the scratch registers; a branch names the x86 address it goes to, and a conditional
\* one is taken on the same flags.  Apart are operands the code misreads, addresses not
\* written in full, PUSH of RSP, flags lost to ADDI and the four jumps without a
\* counterpart.  That a branch operand is an x86 address (emit_branch_imm), where the
\* machine adds a displacement to its pc, is outside this property.
TextKeepsMeaning ==
  phase = "lowering" => \A k \in 1 .. Len(lowered) :
    LET x == written[k].inst
        after == Run(lowered[k].lines)
        meant == Meaning(x)
    IN /\ ReadsOperands(x) /\ (\A m \in MemoryOf(x) : InFull(m)) /\ ~PushesSP(x) =>
            /\ \A n \in 0 .. 27 : after.regs[n] = meant.regs[n]
            /\ after.stored = meant.stored
            /\ (MovesData(x) => KeepsFlags(x)) => after.flags = meant.flags
            /\ after.goes = meant.goes
       /\ x.mnemonic = "Jcc" /\ x.cc \notin Unmatched =>
            \A f \in XFlags :
              JumpTaken(lowered[k].lines[1].name, f) <=> ConditionHolds(x.cc, f)

(* What the machine makes of one instruction of the bytes, as a line.      *)
MachineName ==
  [op \in {0, 1, 32, 34, 64, 65, 66, 82, 92, 94, 96, 130, 141, 142} \cup 97 .. 108 |->
     CASE op = 0 -> "MOV" [] op = 1 -> "MOVI" [] op = 32 -> "ADD" [] op = 34 -> "SUB"
       [] op = 64 -> "AND" [] op = 65 -> "OR" [] op = 66 -> "XOR" [] op = 82 -> "CMP"
       [] op = 92 -> "JMP" [] op = 94 -> "CALL" [] op = 96 -> "RET" [] op = 97 -> "JE"
       [] op = 98 -> "JNE" [] op = 99 -> "JG" [] op = 100 -> "JGE" [] op = 101 -> "JL"
       [] op = 102 -> "JLE" [] op = 103 -> "JC" [] op = 104 -> "JNC" [] op = 105 -> "JO"
       [] op = 106 -> "JNO" [] op = 107 -> "JS" [] op = 108 -> "JNS"
       [] op = 130 -> "SYSCALL" [] op = 141 -> "PUSH" [] op = 142 -> "POP"]
LineOf(d) ==
  LET name == MachineName[d.opcode] IN
  AsmLine(name,
    CASE name \in {"RET", "SYSCALL"} -> <<>>
      [] name \in {"PUSH", "POP"} -> <<GPR(d.rm)>>
      [] name = "MOVI" -> <<GPR(d.rm), d.immediate>>
      [] d.opcode \in DirectOps -> <<d.immediate>>
      [] OTHER -> <<GPR(d.reg), GPR(d.rm)>>)

HasParityJump == \E k \in 1 .. Len(insts) : insts[k].mnemonic \in {"JP", "JNP"}

\* The bytes are the text: the reference machine decodes, from the first byte to the
\* last, exactly the lines of the instructions no note is about, with the registers,
\* immediates and branch operands written there.  So the byte file leaves nothing out
\* that the report does not mention.
BytesFollowText ==
  (phase \in {"reading", "stopped"} /\ ~HasParityJump) =>
    /\ phase = "reading"
    /\ \A k \in 1 .. Len(read) : k <= Len(plain) /\ LineOf(read[k]) = plain[k].line
    /\ offset = Len(emitted) => Len(read) = Len(plain)
=============================================================================
