------------------------------ MODULE Assembler ------------------------------
(***************************************************************************)
(* The integrated assembler of SeaBird over one text section: a source     *)
(* file is parsed statement by statement (SeaBirdAsmParser), each          *)
(* instruction is encoded (CodeEmitter), the fixups are applied at the end *)
(* (SeaBirdAsmBackend, SeaBirdELFObjectWriter), and the object is read by  *)
(* the disassembler or by decode_at of the reference machine.              *)
(*                                                                         *)
(* Menu[n] is the set of statements the n-th line of the source may be.  A *)
(* memory operand of the source is <<"mem", base, terms>>, a term a signed *)
(* constant or an index register, with or without a scale.  Lexing,        *)
(* sections, the data directives and the generated matcher tables are      *)
(* LLVM's: the matcher is taken to fill the tied operand and to test the   *)
(* features.                                                               *)
(***************************************************************************)
EXTENDS CodeEmitter, ReferenceDecoder

CONSTANTS Menu,      \* sequence of sets of statements
          Targets,   \* the triples and -mattr features objects are made for
          Globals    \* the labels with global binding

Profiles32 == {"tritium", "pae32"}

(* A 64-bit triple is not combined with the features of a 32-bit profile.  *)
ASSUME TargetsAssumption ==
  \A t \in Targets : /\ t.is64 \in BOOLEAN
                     /\ t.features \cap Profiles32 # {} => ~t.is64

(* A statement has the operands its assembly string asks for: the matcher  *)
(* accepts no other.  Registers are R0 to R31 and V0 to V31, constants the *)
(* 64 bits of an expression.                                               *)
NoScale == -1     \* of an index register without *
Terms == [reg : 0 .. 31, scale : Nat \cup {NoScale}, negative : BOOLEAN]
           \cup [value : Nat, negative : BOOLEAN]
IsOperand(kind, op) ==
  CASE kind = "r" -> \E n \in 0 .. 31 : op = GPR(n)
    [] kind = "v" -> \E n \in 0 .. 31 : op = Vec(n)
    [] kind = "m" -> op[1] = "mem" /\ op[2] \in 0 .. 31 /\ op[3] \in Seq(Terms)
    [] kind = "i" -> \/ op[1] = "x"
                     \/ op = Wide(op[2], op[3]) /\ op[2] \in Word32 /\ op[3] \in Word32
IsStatement(s) ==
  s.kind = "instruction" =>
    /\ s.name \in DOMAIN Records
    /\ LET kinds == OperandKinds[ClassOf(s.name)] IN
         /\ DOMAIN s.ops = 1 .. Len(kinds) /\ Len(s.ops) = Len(kinds)
         /\ \A k \in 1 .. Len(kinds) : IsOperand(kinds[k], s.ops[k])

ASSUME MenuAssumption ==
  /\ Len(Menu) \in Nat
  /\ \A n \in 1 .. Len(Menu) : \A s \in Menu[n] : IsStatement(s)

VARIABLES target, features, pendingMarker, line, listing, code, labels,
          fixups, relocations, header, phase, offset, read

sourceVars == <<target, features, pendingMarker, line, listing, labels, header>>
objectVars == <<code, fixups, relocations>>
readVars   == <<offset, read>>
vars == <<sourceVars, objectVars, phase, readVars>>

EF_SB_WINDOWED_ABI == "windowed"
EF_SB_PAE32_REQUIRED == "pae32"

\* Mutant of HeaderFlags: the windowed ABI is not recorded.
HeaderFlags_PaeOnly(feats) == IF "pae32" \in feats THEN {EF_SB_PAE32_REQUIRED} ELSE {}

(* The e_flags the target streamer takes from the features it is made with. *)
HeaderFlags(feats) ==
  (IF "register-windows" \in feats THEN {EF_SB_WINDOWED_ABI} ELSE {})
    \cup (IF "pae32" \in feats THEN {EF_SB_PAE32_REQUIRED} ELSE {})

AsmInit ==
  /\ target \in Targets
  /\ features = target.features
  /\ header = HeaderFlags(target.features)
  /\ pendingMarker = Marker.none
  /\ line = 1
  /\ listing = <<>> /\ code = <<>> /\ fixups = <<>>
  /\ labels = <<>> /\ relocations = {}
  /\ phase = "parsing"
  /\ offset = 0 /\ read = <<>>

(******************************* directives ********************************)
CPUs == {"generic", "seabird-gold", "seabird-platinum", "tritium-v1", "axium-m-v1"}
Archs == {"seabird", "seabird64", "tritium", "tritium-v1", "axium-m", "axium-m-v1"}
ArchCPU(arch) ==
  CASE arch \in {"seabird", "seabird64"} -> "generic"
    [] arch \in {"tritium", "tritium-v1"} -> "tritium-v1"
    [] arch \in {"axium-m", "axium-m-v1"} -> "axium-m-v1"
CPUFeatures(cpu) ==
  CASE cpu = "tritium-v1" -> {"tritium", "tetra", "mpu", "atomics", "fixed-muldiv"}
    [] cpu = "axium-m-v1" -> {"tetra", "pae32", "register-windows", "atomics"}
    [] OTHER -> {}

Error == phase' = "error"
NextLine == line' = line + 1

(* .cpu and .arch: the features of the processor replace the ones in force.*)
parseCPUOrArchDirective(s) ==
  LET known == IF s.kind = ".cpu" THEN CPUs ELSE Archs
      cpu == IF s.kind = ".cpu" THEN s.name ELSE ArchCPU(s.name)
      valid == s.name \in known
                 /\ (cpu \in {"tritium-v1", "axium-m-v1"}) # target.is64
  IN /\ s.kind \in {".cpu", ".arch"}
     /\ NextLine
     /\ IF valid THEN features' = CPUFeatures(cpu) /\ UNCHANGED phase
                 ELSE Error /\ UNCHANGED features
     /\ UNCHANGED <<target, pendingMarker, listing, labels, header, objectVars, readVars>>

parseModeDirective(s) ==
  /\ s.kind = ".mode"
  /\ NextLine
  /\ IF s.name = (IF target.is64 THEN "DRAGONET" ELSE "TETRA")
     THEN UNCHANGED phase ELSE Error
  /\ UNCHANGED <<target, features, pendingMarker, listing, labels, header, objectVars,
                 readVars>>

DefineLabel(s) ==
  /\ s.kind = "label"
  /\ NextLine
  /\ labels' = [l \in DOMAIN labels \cup {s.name} |->
                  IF l = s.name THEN Len(code) ELSE labels[l]]
  /\ UNCHANGED <<target, features, pendingMarker, listing, header, objectVars, phase,
                 readVars>>

(******************************* instructions ******************************)
IsIndex(term) == "reg" \in DOMAIN term
IsMemory(op) == op[1] = "mem"
SumOf(terms) ==
  LET Sum[n \in 0 .. Len(terms)] ==
        IF n = 0 THEN 0
        ELSE Sum[n - 1] + (IF terms[n].negative THEN -terms[n].value ELSE terms[n].value)
  IN Sum[Len(terms)]

(* parseAbsoluteExpression reads every term that is left, as one constant; *)
(* the sign before it applies to the whole.                                *)
RestOfExpression(terms) ==
  LET rest == SumOf([terms EXCEPT ![1].negative = FALSE]) IN
    IF terms[1].negative THEN -rest ELSE rest

(* parseMemoryOperand: an index is taken while the one held is R4, the     *)
(* value it is initialised with; an index without a scale leaves Scale as  *)
(* an earlier one set it; a constant ends the operand.                     *)
ParseFailure == [ok |-> FALSE]
BadIndex(term) == term.negative \/ term.scale \notin {NoScale, 1, 2, 4, 8}
ScaleAfter(terms, n) ==
  LET scaled == {k \in 1 .. n : terms[k].scale # NoScale} IN
    IF scaled = {} THEN 1 ELSE terms[CHOOSE k \in scaled : \A j \in scaled : j <= k].scale
parseMemoryOperand(mem) ==
  LET terms == mem[3]
      indices == Cardinality({k \in 1 .. Len(terms) : \A j \in 1 .. k : IsIndex(terms[j])})
      rest == SubSeq(terms, indices + 1, Len(terms))
      rejected == \/ \E k \in 1 .. indices : BadIndex(terms[k])
                  \/ \E k \in 1 .. indices - 1 : terms[k].reg # 4
                  \/ \E k \in 1 .. Len(rest) : IsIndex(rest[k])
  IN IF rejected THEN ParseFailure
     ELSE [ok |-> TRUE,
           ops |-> <<GPR(mem[2]),
                     IF indices = 0 THEN GPR(4) ELSE GPR(terms[indices].reg),
                     Imm(ScaleAfter(terms, indices)),
                     IF rest = <<>> THEN Imm(0) ELSE Imm(RestOfExpression(rest))>>]

parseOperand(op) ==
  IF IsMemory(op) THEN parseMemoryOperand(op) ELSE [ok |-> TRUE, ops |-> <<op>>]

(* The matcher repeats the operand a record ties to its result.            *)
Matched(name, ops) == (IF ClassOf(name) \in Tied THEN ops[1] ELSE <<>>) \o FlattenSeq(ops)

parseMarkerName(name) == IF name \in DOMAIN Marker THEN Marker[name] ELSE Marker.none

MarkerApplies(marker, class) ==
  CASE marker = Marker.none -> TRUE
    [] marker \in {Marker.assume, Marker.stream} -> class \in MayLoad \cup MayStore
    [] marker \in {Marker.likely, Marker.unlikely} -> class \in ConditionalBranches
    [] marker = Marker.prefetch -> class \in MayLoad
    [] marker \in {Marker.temporary, Marker.persistent} -> class \notin NoResult
    [] marker = Marker.independent -> class \notin Branches \cup Calls \cup Barriers
    [] marker \in {Marker.reuse, Marker.leaf} -> class \in Calls

(* The marker of a statement, as parseInstruction leaves it.               *)
MarkerOf(s) == parseMarkerName(s.mark)

(* The bytes go to the end of the section, the fixups with them.           *)
EmitInstruction(s, encoded) ==
  IF ~encoded.ok THEN Error /\ UNCHANGED <<listing, code, fixups>>
  ELSE /\ code' = code \o encoded.bytes
       /\ fixups' = fixups \o [k \in 1 .. Len(encoded.fixups) |->
                                [encoded.fixups[k] EXCEPT !.offset = @ + Len(code)]]
       /\ listing' = Append(listing, [statement |-> s, at |-> Len(code),
                                      end |-> Len(code) + Len(encoded.bytes),
                                      features |-> features])
       /\ UNCHANGED phase

(* parseInstruction and matchAndEmitInstruction.                           *)
assembleInstruction(s) ==
  LET parsed == [k \in 1 .. Len(s.ops) |-> parseOperand(s.ops[k])]
      operands == [k \in 1 .. Len(s.ops) |-> parsed[k].ops]
      unknown == s.mark # "" /\ parseMarkerName(s.mark) = Marker.none
      legal == /\ \A k \in 1 .. Len(s.ops) : parsed[k].ok
               /\ ~unknown
               /\ Available(s.name, features)
               /\ MarkerApplies(pendingMarker', ClassOf(s.name))
  IN /\ s.kind = "instruction"
     /\ NextLine
     /\ pendingMarker' = MarkerOf(s)
     /\ IF ~legal THEN Error /\ UNCHANGED <<listing, code, fixups>>
        ELSE EmitInstruction(s, Encode([name |-> s.name, marker |-> pendingMarker',
                                        ops |-> Matched(s.name, operands)], target.is64))
     /\ UNCHANGED <<target, features, labels, header, relocations, readVars>>

ParseStatement ==
  /\ phase = "parsing" /\ line <= Len(Menu)
  /\ \E s \in Menu[line] :
       \/ parseCPUOrArchDirective(s)
       \/ parseModeDirective(s)
       \/ DefineLabel(s)
       \/ assembleInstruction(s)

EndOfFile ==
  /\ phase = "parsing" /\ line > Len(Menu)
  /\ phase' = "fixups"
  /\ UNCHANGED <<sourceVars, objectVars, readVars>>

(********************************** fixups *********************************)
(* evaluateFixup of LLVM's MCAssembler: a PC-relative fixup on a local     *)
(* label of this section is resolved, every other one is left to a         *)
(* relocation.                                                             *)
Resolved(f) == f.pcrel /\ f.label \in DOMAIN labels \ Globals
FixupValue(f) == labels[f.label] + f.addend - f.offset

getRelocType(kind) ==
  CASE kind = "data8" -> "R_SB_ABS64"
    [] kind = "data4" -> "R_SB_ABS32"
    [] kind = "pcrel32" -> "R_SB_PCREL32"
FixupBytes(kind) == IF kind = "data8" THEN 8 ELSE 4

(* Value in k <= 8 little-endian bytes; the high half of eight is its sign.*)
ValueBytes(value, k) ==
  LittleEndian(value, 4) \o (IF k = 8 THEN LittleEndian(IF value < 0 THEN -1 ELSE 0, 4)
                                      ELSE <<>>)

(* applyFixup ORs the value in: the emitter left zeros in the field.       *)
ApplyFixup ==
  /\ phase = "fixups" /\ fixups # <<>>
  /\ LET f == Head(fixups)
         field == f.offset + 1 .. f.offset + FixupBytes(f.kind)
         value == ValueBytes(FixupValue(f), FixupBytes(f.kind))
     IN IF Resolved(f)
        THEN /\ code' = [k \in 1 .. Len(code) |->
                           IF k \in field THEN (code[k] + value[k - f.offset]) % 256
                                          ELSE code[k]]
             /\ UNCHANGED relocations
        ELSE /\ relocations' = relocations \cup {[at |-> f.offset, label |-> f.label,
                                                  addend |-> f.addend,
                                                  type |-> getRelocType(f.kind)]}
             /\ UNCHANGED code
  /\ fixups' = Tail(fixups)
  /\ UNCHANGED <<sourceVars, phase, readVars>>

WriteObject ==
  /\ phase = "fixups" /\ fixups = <<>>
  /\ phase' \in {"disassembling", "executing"}
  /\ UNCHANGED <<sourceVars, objectVars, readVars>>

(********************************* readers *********************************)
Remaining == SubSeq(code, offset + 1, Len(code))

ReadOne(next) ==
  /\ next.ok
  /\ read' = Append(read, next)
  /\ offset' = offset + next.size
  /\ UNCHANGED <<sourceVars, objectVars, phase>>

DisassembleOne ==
  /\ phase = "disassembling" /\ offset < Len(code)
  /\ ReadOne(GetInstruction(Remaining, target.is64))

(* What run_function and execute carry out; they throw on anything else.   *)
Runs(d) ==
  \/ IsWindowOp(d) \/ d.scalar_fp \/ d.int_to_fp \/ d.fp_to_int \/ d.vector_memory
  \/ d.vector /\ d.opcode \in {0, 151, 152, 153, 155, 156, 157, 171} \cup 166 .. 169
  \/ ~d.vector /\ d.opcode \in {0, 1, 29, 47, 82, 90, 92, 94, 95, 96, 109, 110, 130}
                               \cup 19 .. 26 \cup 32 .. 44 \cup 64 .. 66 \cup 71 .. 73
                               \cup 97 .. 104 \cup 216 .. 218

(* decode_at, falling through from instruction to instruction.             *)
FetchOne ==
  /\ phase = "executing" /\ offset < Len(code)
  /\ read # <<>> => Runs(read[Len(read)])
  /\ ReadOne(DecodeAt(code, offset))

AsmNext ==
  \/ ParseStatement
  \/ EndOfFile
  \/ ApplyFixup
  \/ WriteObject
  \/ DisassembleOne
  \/ FetchOne

AsmSpec == AsmInit /\ [][AsmNext]_vars

(***************************** what the text says **************************)
(* A memory operand of the text: its base, its index and its constant.     *)
MeantMemory(mem) ==
  LET indices == {k \in 1 .. Len(mem[3]) : IsIndex(mem[3][k])}
      constants == (1 .. Len(mem[3])) \ indices
      index == mem[3][CHOOSE k \in indices : TRUE]
      constant == mem[3][CHOOSE k \in constants : TRUE]
  IN <<GPR(mem[2]), IF indices = {} THEN GPR(4) ELSE GPR(index.reg),
       Imm(IF indices = {} THEN 1 ELSE IF index.scale = NoScale THEN 1 ELSE index.scale),
       IF constants = {} THEN Imm(0)
       ELSE Imm(IF constant.negative THEN -constant.value ELSE constant.value)>>
MeantOperand(op) == IF IsMemory(op) THEN MeantMemory(op) ELSE <<op>>
MeantOperands(s) ==
  (IF ClassOf(s.name) \in Tied THEN <<s.ops[1]>> ELSE <<>>)
    \o FlattenSeq([k \in 1 .. Len(s.ops) |-> MeantOperand(s.ops[k])])
MeantMarker(s) == IF s.mark = "" THEN 0 ELSE Marker[s.mark]

(* The operands the assembler reads as the text says: R4 is no index, and  *)
(* there is one constant.                                                  *)
PlainMemory(op) ==
  IsMemory(op) =>
    /\ \A k \in 1 .. Len(op[3]) : IsIndex(op[3][k]) => op[3][k].reg # 4
    /\ \A j, k \in 1 .. Len(op[3]) : IsIndex(op[3][j]) \/ IsIndex(op[3][k]) \/ j = k
PlainStatement(s) == \A k \in 1 .. Len(s.ops) : PlainMemory(s.ops[k])

IsLabel(op) == op[1] = "x"
UsesLabel(entry) == \E k \in 1 .. Len(entry.statement.ops) : IsLabel(entry.statement.ops[k])
LabelOf(entry) == entry.statement.ops[Len(entry.statement.ops)][2]
LocalTarget(entry) == UsesLabel(entry) /\ LabelOf(entry) \in DOMAIN labels \ Globals
IsBranch(entry) == FormOf(entry.statement.name) \in {"BranchRel32", "RegCondBranch"}

(* An immediate keeps the width of the object's addresses.                 *)
SameOperand(written, found) ==
  \/ IsLabel(written)
  \/ written = found
  \/ ~target.is64 /\ written[1] = "i" /\ found[1] = "i" /\ written[2] = found[2]

ReadsAs(found, entry) ==
  LET s == entry.statement
      meant == MeantOperands(s)
  IN /\ found.size = entry.end - entry.at
     /\ found.name = s.name /\ found.marker = MeantMarker(s)
     /\ Len(found.ops) = Len(meant)
     /\ PlainStatement(s) => \A k \in 1 .. Len(meant) : SameOperand(meant[k], found.ops[k])

(* The address the machine computes: register 4 is no index.               *)
SeenAddress(d) == <<GPR(d.rm), GPR(d.index), Imm(IF d.index = 4 THEN 1 ELSE d.scale),
                    Imm(d.disp)>>
ScalarBytes(name) == CASE WidthOf(name) = 3 -> 4 [] WidthOf(name) = 5 -> 16 [] OTHER -> 8

(* The instructions execute and run_function carry out as they are         *)
(* written, and what they take from the decoded record, by form.  ADDI and *)
(* INC are not among them.                                                 *)
ExecutedForms == {"CopyRR", "ALURR", "CompareRR", "RI64", "LoadQ", "StoreQ", "AddressCalc",
                  "VectorLoad", "VectorStore", "ScalarFPLoad", "ScalarFPStore", "FPBinary",
                  "VBinary", "CopyVV", "IntToFP", "FPToInt", "BranchRel32", "IndirectCall",
                  "RegCondBranch", "NoOperand"}
NotExecuted == {"LDP", "STP", "JMPA", "XBEGIN", "XBEGINA", "YIELD", "HLT", "XEND", "ISYNC",
                "VZEROALL", "ABSrr", "QUERY", "INVTLB", "PREFETCH", "FLUSH", "XCHGmem",
                "CMPXCHG", "ATADD", "LL", "SC", "XCHG128", "PDEPrrr", "PEXTrrr", "CPYBrrr",
                "CPYWrrr", "MEMFILLrrr", "VABS128"}
Executed(name) ==
  /\ FormOf(name) \in ExecutedForms /\ name \notin NotExecuted
  /\ GroupOf(name) = 0 \/ name \in {"WINNEW", "FLD64", "FLD32CG", "FLD128CG", "FST64",
                                    "FST32CG", "FST128CG"}
  /\ name \notin {"FSQRT64", "FSQRT32CG", "FSQRT128CG"}

SeenOperands(d, name) ==
  LET form == FormOf(name) IN
  CASE form \in {"CopyRR", "CompareRR"} -> <<GPR(d.reg), GPR(d.rm)>>
    [] form = "ALURR" -> <<GPR(d.reg), GPR(d.reg), GPR(d.rm)>>
    [] form = "RI64" -> <<GPR(d.rm), d.immediate>>
    [] form \in {"LoadQ", "AddressCalc"} -> <<GPR(d.reg)>> \o SeenAddress(d)
    [] form = "StoreQ" -> SeenAddress(d) \o <<GPR(d.reg)>>
    [] form \in {"VectorLoad", "ScalarFPLoad"} -> <<Vec(d.reg)>> \o SeenAddress(d)
    [] form \in {"VectorStore", "ScalarFPStore"} -> SeenAddress(d) \o <<Vec(d.reg)>>
    [] form \in {"FPBinary", "VBinary"} -> <<Vec(d.reg), Vec(d.rm), Vec(d.third)>>
    [] form = "CopyVV" -> <<Vec(d.reg), Vec(d.rm)>>
    [] form = "IntToFP" -> <<Vec(d.reg), GPR(d.rm)>>
    [] form = "FPToInt" -> <<GPR(d.reg), Vec(d.rm)>>
    [] form = "BranchRel32" -> <<d.immediate>>
    [] form = "IndirectCall" -> <<GPR(d.rm)>>
    [] form = "RegCondBranch" -> <<GPR(d.rm), d.immediate>>
    [] form = "NoOperand" -> <<>>

MachineSees(d, entry) ==
  LET s == entry.statement
      meant == MeantOperands(s)
      seen == SeenOperands(d, s.name)
      floating == GroupOf(s.name) = 5 \/ ClassOf(s.name) \in {"FPBinary", "FPCompare",
                                                              "IntToFP", "FPToInt"}
  IN /\ d.size = entry.end - entry.at /\ d.marker = MeantMarker(s) /\ Runs(d)
     /\ <<d.group, IF d.group = 0 THEN d.opcode ELSE d.sub>>
          = <<GroupOf(s.name), OpcodeOf(s.name)>>
     /\ floating => d.scalar_fp_bytes = ScalarBytes(s.name)
     /\ Len(seen) = Len(meant)
     /\ PlainStatement(s) => \A k \in 1 .. Len(meant) : SameOperand(meant[k], seen[k])

(******************************** properties *******************************)
\* Type invariant: the bytes are bytes, the listing tiles the code, and a reader
\* stays inside it.
AsmTypeOK ==
  /\ phase \in {"parsing", "fixups", "disassembling", "executing", "error"}
  /\ \A k \in 1 .. Len(code) : code[k] \in 0 .. 255
  /\ offset \in 0 .. Len(code)
  /\ pendingMarker \in 0 .. 10
  /\ \A k \in 1 .. Len(listing) :
       listing[k].at = (IF k = 1 THEN 0 ELSE listing[k - 1].end)
  /\ listing # <<>> => listing[Len(listing)].end = Len(code)
  /\ \A k \in 1 .. Len(fixups) :
       fixups[k].offset + FixupBytes(fixups[k].kind) \in 1 .. Len(code)

\* The disassembler gives back the source: instruction by instruction the same
\* name, performance marker, operands and size, whatever registers, addressing
\* modes, widths and prefixes the emitter chose (encodeInstruction and
\* getInstruction are two hand-written descriptions of one format).
DisassemblyFaithful ==
  phase = "disassembling" => \A k \in 1 .. Len(read) : ReadsAs(read[k], listing[k])

\* The reference machine's own decoder agrees with the assembler on everything the
\* machine executes: it finds the end of each instruction, so it never runs an
\* operand as an opcode, and takes the registers, address, width and immediate the
\* source named.  64-bit objects: run_function decodes eight-byte immediates.
MachineInStep ==
  (phase = "executing" /\ target.is64) =>
    \A k \in 1 .. Len(listing) :
      (\A j \in 1 .. k : Executed(listing[j].statement.name)) =>
        /\ k <= Len(read) => MachineSees(read[k], listing[k])
        /\ offset = listing[k].at => DecodeAt(code, offset).ok

\* Every branch to a local label, marked or not, short of a label before or after
\* it, reaches the labelled instruction when either reader adds the displacement to
\* the end of the branch, as run_function does.
BranchesLand ==
  (phase \in {"disassembling", "executing"} /\ read = <<>>) =>
    \A k \in 1 .. Len(listing) :
      LET entry == listing[k]
          bytes == SubSeq(code, entry.at + 1, entry.end)
          distance == Imm(labels[LabelOf(entry)] - entry.end)
      IN LocalTarget(entry) /\ IsBranch(entry) =>
           /\ LastOp(GetInstruction(bytes, target.is64)) = distance
           /\ Executed(entry.statement.name) => DecodeAt(code, entry.at).immediate = distance

\* Every use of a label of another object is left to exactly one relocation, over a
\* zero field, whose value (S + A, or S + A - P) is what the instruction needs: the
\* symbol's address, or its distance from the end of the branch.
RelocationsNameTheField ==
  (phase \in {"disassembling", "executing"} /\ read = <<>>) =>
    \A k \in 1 .. Len(listing) :
      LET entry == listing[k]
          width == IF IsBranch(entry) \/ ~target.is64 THEN 4 ELSE 8
          place == entry.end - width
          type == IF IsBranch(entry) THEN "R_SB_PCREL32"
                  ELSE IF target.is64 THEN "R_SB_ABS64" ELSE "R_SB_ABS32"
      IN UsesLabel(entry) /\ ~LocalTarget(entry) =>
           /\ {r \in relocations : r.at \in entry.at .. entry.end - 1}
                = {[at |-> place, label |-> LabelOf(entry), type |-> type,
                    addend |-> IF IsBranch(entry) THEN place - entry.end ELSE 0]}
           /\ \A b \in place + 1 .. entry.end : code[b] = 0

\* An instruction is complete with its last byte and not before: alone it is
\* accepted, and no proper prefix of it is, neither by the disassembler nor by
\* decode_at where the machine executes the instruction, so a truncated instruction
\* is never taken for a shorter one and no read goes past the end of the bytes.
CompleteAtLastByte ==
  (phase = "parsing" /\ listing # <<>>) =>
    LET entry == listing[Len(listing)]
        prefix(n) == SubSeq(code, entry.at + 1, entry.at + n)
        size == entry.end - entry.at
    IN \A n \in 0 .. size :
         /\ GetInstruction(prefix(n), target.is64).ok <=> n = size
         /\ (target.is64 /\ Executed(entry.statement.name)) =>
              (DecodeAt(prefix(n), 0).ok <=> n = size)

\* Profiles and object agree: 32-bit profiles never get into a 64-bit object, and
\* without a .cpu or .arch directive an object with window operations says so in the
\* e_flags the linker separates windowed from ordinary objects by.
ProfileMatchesObject ==
  /\ \A k \in 1 .. Len(listing) :
       listing[k].features \cap Profiles32 # {} => ~target.is64
  /\ (\A k \in 1 .. Len(listing) : listing[k].features = target.features) =>
       \A k \in 1 .. Len(listing) :
         listing[k].statement.name = "WINNEW" => EF_SB_WINDOWED_ABI \in header

\* Applying the fixups changes label fields only: every byte a step of the backend
\* changes is one of the last bytes of an instruction that names a label, the field
\* it ends with, never an opcode, a register byte or a neighbour.
OnlyLabelFieldsPatched ==
  [][phase = "fixups" =>
       \A b \in 1 .. Len(code) :
         code'[b] # code[b] =>
           \E k \in 1 .. Len(listing) :
             /\ UsesLabel(listing[k])
             /\ b \in listing[k].end - (IF IsBranch(listing[k]) THEN 3 ELSE 7)
                        .. listing[k].end]_vars

GoesOn(next) == next.ok /\ next.size > 0

\* Every object is disassembled to its end: the disassembler never comes to an
\* instruction of the assembler it refuses, and every call gets it forward.
DisassemblyFinishes ==
  (phase = "disassembling" /\ offset < Len(code)) =>
    GoesOn(GetInstruction(Remaining, target.is64))

\* The instruction set puts the operand of ADDI, SUBI, MULI, DIVI and MODI in the
\* immediate field, which decode_at does not read.
MachineReadsImmediates ==
  (phase = "executing" /\ target.is64 /\ read # <<>>) =>
    LET entry == listing[1] IN
      (FormOf(entry.statement.name) = "ALURI" /\ IsImm(entry.statement.ops[2])) =>
        read[1].immediate = entry.statement.ops[2]
=============================================================================
