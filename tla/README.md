# Quadri in TLA+

Quadri is the toolchain of the SeaBird processor: an instruction-set
specification, an executable reference machine, an LLVM back end, a Clang
target, a static linker, a small runtime and an x86 translator. This directory
models the parts that compute with state, model-checks them with TLC, and
proves their central properties with TLAPS.

## Inventory

| component | state | operations | interacts with | hard to get right |
|---|---|---|---|---|
| reference machine, register windows (`src/seabird_ref.cpp:17-35,201-233,255-269`) | `r`, `windows`, `window_pin_counts`, `window_enabled` | WINNEW, WINPREV, WINRESERVE, WINPIN, WINRELEASE; CALL and RET use the first two | run loop | the copy on top of `windows` is stale between operations; overlapping groups live in two places; two parallel vectors |
| reference machine, integer instructions (`:241-253,466-571`) | `r`, `cf`, `zf`, `sf`, `of` | MOV to UMULH | run loop reads the flags | flags are read far from where they are written; carries across words; undefined division |
| reference machine, run loop (`:577-719`) | `pc`, `returns`, `memory`, console input and output, step counter | RET, SYSCALL, CALL, CALLA, JMP, Jcc, JZR, JNZR, anything else through `execute` | host (arguments, console), registers, windows | three stacks for one call; faults in the middle of a handler; bounds of the stack; termination |
| reference machine, decoder (`:69-199`) | none | `decode_at`: prefixes, opcode, ModR/M, SIB, OREX, displacement, immediate; throws where the image ends | reads what the emitter and the translator write | must agree with two other implementations of the format; reads no immediate for opcodes it does not list |
| reference machine, floating point and vectors (`:270-405`) | `v`, FP flags | | | IEEE arithmetic of the host |
| linker (`tools/link_seabird.py`) | sections, symbol table, image | read, lay out, define, relocate, write | object writer, reference machine | two levels of alignment, page separation, symbol resolution, overflow |
| frames and calls of the back end (`llvm/SeaBird/SeaBirdFrameLowering.cpp`, `SeaBirdRegisterInfo.cpp`, `SeaBirdISelLowering.cpp:566-838`, `SeaBirdCallingConv.td`) | R6, R7, R30 and stack memory of the generated code | prologue, epilogue, call sequence, frame access, va_arg | run loop's CALL and RET | offsets from a moving stack pointer |
| assembler parser (`llvm/SeaBird/AsmParser`, `MCTargetDesc/SeaBirdMCTargetDesc.cpp`) | features in force, pending performance marker, symbols, e_flags | operands, markers, `.cpu`, `.arch`, `.mode`, labels, e_flags | emitter | features change in the middle of a file, e_flags do not |
| code emitter (`MCTargetDesc/SeaBirdMCCodeEmitter.cpp`, asm backend, ELF writer) | none | record to bytes, fixups, relocations | parser, both decoders, linker | which field a fixup patches; register bits spread over three bytes |
| disassembler (`llvm/SeaBird/Disassembler`) | none | bytes to a record | emitter | every read needs its own length test |
| x86 translator (`src/main.cpp`) | input cursor; lines, bytes and notes emitted | `Decoder::next`, `decode_all`, `lower` | `decode_at` reads its bytes | exceptions of ModR/M and SIB, order of the lines of one operation, flags |
| Clang target, runtime, generators, oracles | | | | tables and test programs |

What makes each correct: a window behaves as the aliased registers of the
documentation; flags mean the relation they are named for; the call stacks of
the run loop agree; a linked reference reaches its symbol; a frame access
reaches its object; what the emitter writes both decoders read back,
as far as each goes; a translated program does what the x86 program did.

## Modules

| module | models | extends / instantiates |
|---|---|---|
| `LogicalWindows` | the promise of `docs/REGISTER_WINDOWING_EXTENSION.md`: groups of eight cells shared by neighbouring windows, nothing copied | |
| `RegisterWindows` | the register file and the window instructions as the code implements them, by copying; the refinement mapping to `LogicalWindows` | `LogicalWindows` |
| `IntegerAlu` | one operator per integer instruction, the flags, the conditions of Jcc | |
| `AluPrograms` | any straight-line program over `IntegerAlu`, with the operands the flags are about as history | `IntegerAlu` |
| `RunFunction` | the loop of `run_function` over the two above | `RegisterWindows`, `IntegerAlu` |
| `CallDiscipline` | what a well-behaved caller may rely on, with the open calls as history | `RunFunction` |
| `StackFrames` | the code the back end puts around a function body, run on R6, R7 and stack memory by any program that calls, allocates and stores | |
| `LinkLayout` | the linker up to the image: merging the sections of an object, comparing objects, placing output sections | |
| `Linker` | definitions, relocations, program headers, on that layout | `LinkLayout` |
| `InstructionSet` | the instruction records: encoding format, opcode and operand pattern of each listed instruction, as the TableGen classes give them | |
| `CodeEmitter` | `encodeInstruction` and its fixups | `InstructionSet` |
| `Disassembler` | `getInstruction` of the LLVM disassembler | `InstructionSet` |
| `ReferenceDecoder` | `decode_at` of the reference machine | |
| `Assembler` | a source file from its first line to an object, and the object read back by either decoder | `CodeEmitter`, `Disassembler`, `ReferenceDecoder` |
| `X86Code` | external: the x86-64 encodings of an instruction and the conditions of its jumps | |
| `Translator` | the decoding and lowering loops of `pebble-xlate`, and its bytes read by `decode_at` | `X86Code`, `ReferenceDecoder` |
| `CodeProofs` | lemmas about the code format: numbers and their bytes, what the emitter writes for each class, how far each decoder reads, what comes back of prefixes, opcodes and registers | `CodeEmitter`, `Disassembler`, `ReferenceDecoder` |
| `DisassemblerProofs` | lemmas about the disassembler: addresses, and the classes without one, come back as they were written | `CodeProofs` |
| `FrameProofs`, `AluProofs`, `CallDisciplineProofs`, `LinkerProofs` | the theorems | `RegisterWindows` and `StackFrames`, `AluPrograms`, `CallDiscipline`, `Linker` |
| `AssemblerProofs`, `TranslatorProofs` | the theorems, on the lemmas of `CodeProofs` and `DisassemblerProofs` | `Assembler`, `Translator` |
| `MC*` | instances for TLC | |

Correspondence with the code:

* Names follow the source in TLA+ spelling: `advance_window` is
  `AdvanceWindow`, `window_pin_counts` is `windowPinCounts`. One action stands
  for one handler from its first test to its last assignment; the alternatives
  of a handler (fault, no fault) are disjuncts.
* A C++ exception ends the run. `fault` names it; nothing is enabled afterwards.
  What a handler changed before it threw stays changed, as in RET.
* An instruction is one unit of `pc`: decoding is not part of these modules and
  no jump lands inside an instruction. Memory is a row of eight-byte slots, the
  unit in which the stack, LDQ and STQ of the modelled programs move; R7 starts
  at the size of memory as `Cpu()` leaves it.
* Undefined behaviour is a choice: the most negative word divided by -1 ends the
  run or wraps; a CALL with R7 above memory writes outside the array, and the
  run ends there (`Overrun`).
* A token of console input is a record of what the services ask of it: whether
  `stoll` accepts it and its value, whether it is empty, its first character.
* In `StackFrames` an address counts pointer-sized slots, and LLVM's decisions
  per function (size of the frame, frame pointer, arguments on the stack) are
  constants. `Moved` and `displaced` say when R7 is lowered for a call in a
  function that addresses its frame from R7: the known gap of the code
  (`spills_reload`) is kept out of the other properties by them.
* In the linker an address counts cells as wide as a relocated field; an object
  is what its ELF headers say, with section names already mapped to output
  sections. One step is one round of a loop: a section header, an object's part
  of an output section, a symbol, a relocation. `stage` is the loop, or the
  exception that ended the link.
* In `Assembler` a statement is a record of its kind (instruction, label,
  `.cpu`, `.arch`, `.mode`), name, performance marker and operands; LLVM's
  generated matcher and its lexer are external. `listing` keeps where each
  statement was put and the features it was assembled under. After the last line
  the fixups are applied one after another, `WriteObject` writes the header and
  chooses one of two readers, and the reader goes through the code one
  instruction per step: the disassembler to the end, the machine as long as it
  meets instructions `execute()` knows.
* Operands the parser misreads are named and kept out of the properties:
  `[r6 - 8 + 4]` is -12, and an index R4 is dropped (`PlainStatement`). Immediates
  of ADDI and its like, and the field INC and its like name, are kept out of
  `MachineInStep`; the first of these is the run `reads_immediates`. The absolute
  address of a label of the same file is emitted with a PC-relative fixup
  (`SeaBirdMCCodeEmitter.cpp:590`), and is kept out of `RelocationsNameTheField`.
* In `Translator` the input is an x86 program in every encoding its instructions
  have, whole or cut off in its last instruction. `TextKeepsMeaning` runs the
  lines of each instruction on terms instead of numbers and compares with what the
  x86 instruction does: registers, the stack (PUSH, POP, CALL, RET), other stores
  with their addresses, flags, the address a branch names, and the flags a
  conditional one is taken on. Excepted by name are conditions without a
  counterpart (`Unmatched`: JBE and JA become the signed JLE and JG, JP and JNP
  are emitted as opcode FF), R12 as an index and the sign of a 32-bit immediate
  (`ReadsOperands`), RIP-relative addresses and an index without base (`InFull`),
  PUSH of RSP, where x86 stores the old value and the line the new one
  (`PushesSP`), and the flags after an operation whose address was formed with
  ADDI (`KeepsFlags`). The inputs have 64-bit operands only; the decoder takes
  32-bit ones for 64-bit.
* No property follows a translated branch. `emit_branch_imm`
  (`src/main.cpp:466-470`) writes the x86 address of the target, into the line and
  into the bytes; the machine adds the field to its own `pc`
  (`src/seabird_ref.cpp:666`, `683-705`), and SeaBird code has other lengths than
  x86 code, so the branch goes elsewhere, and no note says so. `TextKeepsMeaning`
  compares the address that is named, `BytesFollowText` the field as it is written.
* A definition whose name ends in an underscore and a word (`FlagsAdc_LostCarry`)
  is the definition after it with a plausible bug. It takes no part in any
  specification; PROJECT.json says which property notices it.

## Runs

| run | question | bounds |
|---|---|---|
| `register_windows` | Do the copies implement the aliased windows? Do retention counts stay with their window? | 2 values, one written register in each windowed group, 3 windows, counts to 1. Two operations that save and restore the same frame with a third below it need depth 3; lanes of a group are copied alike, so one per group is enough |
| `alu_programs` | Do jumps decide comparisons, do two-word sums and differences carry, is UMULH exact? | 4-bit words: every pair of words under every instruction, programs of any length over two registers, immediates 3 and 15 (-1). The most negative word, both carries of ADC and SBB and both middle products of UMULH occur |
| `call_discipline` | Do the three call stacks agree, does a return resume its caller, does every program end? | 3 slots of memory, so a third nested call overflows; 14 steps; all programs of two shapes over 16 instructions, each condition after a comparison, each console request |
| `stack_frames` | Does a function find its objects, its stack arguments, its buffers, and R6, R7 and its return address for the caller, after any calls? | SB64 (two slots in sixteen bytes), two functions that call each other and themselves, one of them with a frame pointer and dynamic allocation, the other with an argument on the stack; 14 slots, three open calls. A caller, a callee and the callee's callee are enough for one frame to lie over another |
| `linker` | Are sections apart and aligned, does every relocated field reach its symbol, have errors a reason, do segments load what was linked? | all links of one or two out of nine objects, of three out of four, and of an entry with two objects of every choice of data sections (1160 links), as flat image and as executable; pages of 4 cells, alignments to 4. All errors but an entry above memory occur |
| `assembler` | Does the disassembler give back the source? Does the reference machine stay in step? Do branches and relocations reach the field and the label they mean? Does the object say which profile its code is for? Is every truncated instruction refused? | five lines: a label, a directive or a marked jump; any of 498 instruction statements, marked ones, odd ones and `.mode`; a call out of the file or a backward branch; a label; a return or a backward jump; for 64-bit, 64-bit with register windows, and 32-bit targets (190880 states). One to five instructions stand for each record class; registers on both sides of each bit that is spread over prefix bytes; displacements on both sides of each size |
| `translator` | Is every encoding decoded to its instruction, does the text mean the same, do the bytes follow the text? | three instructions: `MOV R8, imm64` or `PUSH RBP`; any instruction of the translator's subset in every encoding, with all sixteen conditions and the registers ModR/M and SIB single out; RET (103957 states). The program of the repository's conformance test is among them |
| `increment_flags`, `return_atomic`, `stack_arguments`, `spills_reload`, `reads_immediates` | statements of the documentation that the code contradicts | those of the passing run; `stack_arguments` gives the argument to the function with the frame pointer |

`CHECK_DEADLOCK FALSE` is set where the machine stops: after a fault or when the
function has returned.

### What the documentation says and the code does not do

* `increment_flags`: INC leaves ZF and SF alone; the instruction set calls them
  defined. DEC is the same code.
* `return_atomic`: RET is documented to validate, restore and transfer
  atomically. Its window underflow is found last, after the return address has
  been consumed and R7 moved.
* `stack_arguments`: a function with a frame pointer reads its stack arguments
  sixteen bytes below the place where its caller stored them, because the saved
  R6 is not part of the frame size that frame accesses count from.
* `spills_reload`: between the instructions that lower and raise R7 for a call's
  stack arguments, a function without frame pointer finds its spilled values in
  the wrong slot.
* `reads_immediates`: the instruction set gives ADDI, SUBI, MULI, DIVI and MODI
  an immediate field. `decode_at` reads one for MOVI alone, so the machine runs
  the others with 0 and takes their eight bytes for instructions.

WINPIN and WINRELEASE change retention counts with the extension disabled,
though all window instructions "require the feature"
(`docs/REGISTER_WINDOWING_EXTENSION.md:59`); `RegisterWindows` has them as the
code has, and no run is spent on it.

SHL, SHR and SAR write no flag (`src/seabird_ref.cpp:525-527`), where
`spec/seabird-isa.json:2352-2359`, `2393-2400` and `2434-2441` call CF, ZF and SF
defined. It is the disagreement of `increment_flags` again and no run is spent on
it; the properties of `alu_programs` do not hide it either. There `last` notes the
operands the flags are about, and only instructions the instruction set says leave
the flags unchanged, as NEG, MOV and the multiplications, keep it: a shift makes
the program forget it, and after INC or DEC the carry alone still counts, which
the instruction set leaves unchanged there.

### Fairness

Only `RunFunction` has liveness. `run_function` is a loop on one thread that
waits for nothing but its console, and a console request is one step that ends
with a token or with "console input exhausted"; weak fairness of the whole step
says no more than that the loop keeps running. `Termination` then rests on the
step counter alone. `Assembler` and `Translator` state no fairness: that
disassembling comes to an end is a safety property there
(`DisassemblyFinishes`: the disassembler refuses no instruction the assembler
wrote, and every call moves forward).

## Proofs

All theorems hold for every value of the constants, under the assumptions the
modules name.

`FrameProofs`, register windows: for any set of words, any depth and any counts.
`WindowTypeCorrect` is inductive as it stands. `WindowRefinement` follows the
mapping `globalBar, overlapBar, localBar`: for each window operation the new
value of `LiveWindows` (the saved windows with the stale top replaced by the
visible registers) is computed once as a lemma, and the abstract cells read off
it. `SuspendedPins` and `FlatWhenDisabled` need the type invariant, the latter
because WINPREV is enabled only with more than one window.

`AluProofs`: for every word size 2 * Half, square root HalfWord and set of
registers. The inductive invariant is `FlagsInv`: types, and while `last` names
an addition or subtraction, the flags are exactly those of its operands. It is
needed because the properties speak of a carry that was set any number of
flag-neutral instructions ago; after INC and DEC it claims the carry alone
(`last.whole`), after a shift nothing. `JumpsCorrect`, `WideSumCorrect` and
`WideDifferenceCorrect` are then arithmetic on four words; `HighProductCorrect`
is the sum of four half-word products. `PowerAssumption` states two facts about
powers of two that the provers do not know (2^bit is positive; a set of bits
sums to a word); TLC evaluates it on every run of the module.

`CallDisciplineProofs`: for every set of programs, word and memory size, step
limit and console input. `RunTypesCorrect` has one lemma per handler of the run
loop; the state is well-formed whatever the program does. The three other
theorems are about programs that keep the discipline, and rest on `CallInv`.
That the three stacks agree (`OneStack`) is not inductive: RET pops the window
of the callee, and leaves the caller at its own depth with its own registers
only because they have been there since the call. `NestedFrames` says that of
every open call, not of the last one alone: it pushed at its own stack slot,
its window lies below those of the calls above it, and its incoming and local
registers are still what the history noted. The step is proved over five shapes
of step instead of one instruction after another: one that touches no stack, a
store below the stack, a change of window within an activation, a call, and a
return; `StepShape` shows that every step of a disciplined program has one of
them. The assumptions are that immediates and console values are words and
register numbers are below 32, which the decoder ensures, and that memory is
smaller than the word, as 64 KiB is smaller than 2^64.

`FrameProofs`, stack frames: for every set of functions with any frame sizes, objects,
frame pointers and stack arguments, every stack size and any depth of calls. The
properties of a frame are about memory that many other activations have written
in the meantime, so none of them is inductive. `FrameInv` speaks of every open
activation at once: R7 is the lowest slot of the running activation's frame and
R6 what that activation holds it to be; each activation was entered directly
below the frame of its caller, with the arguments its caller passed and the R6
its caller held, and its return address names its caller; the frame of an
earlier activation lies above the entry of every later one; and the saved frame
pointer, the dynamic allocations, the objects and the outgoing arguments of each
frame are in memory where its layout puts them. A step then either writes only
inside the frame of the running activation (stores, allocations, the arguments
of a call, the return address just below it) or moves the lower end of that
frame, so the frames above it stay. The objects and outgoing arguments are
claimed only while `displaced` is false: a store to an object of a function
without frame pointer between the stores of a call's arguments lands elsewhere
(see `MCSpillsReload`). `ReturnsRestore` reads the saved frame pointer and the
return address off the invariant; `ArgumentsFound` adds the sizes of the callee's
frame to R7 as eliminateFrameIndex does. The assumptions are those `StackFrames`
names: a frame is a multiple of sixteen bytes and at least as large as its
objects, sizes and values are natural numbers.

`LinkerProofs`: for every list of objects, every set of alignments of which one
is a multiple of the other (powers of two), and every page size. The inductive
invariant `LayoutInv` says that input sections lie apart and aligned within
their merged section, that merged sections lie apart and aligned in the image,
and that what the loops have still to reach is not placed yet; without the last
part a merged section could be placed twice. `LayoutDisjoint` and
`LayoutAligned` compose the two levels: a merged section is aligned by the
largest alignment of its parts, which is a multiple of each.

The second half of `LinkerProofs`: what the linker makes of the layout, for every list of
well-formed objects, every page size, address of loading and address limit. The
inductive invariant `ImageInv` adds to `LayoutInv`:

* `PlacedInv`: every section that is kept has been merged and every merged section
  with contents placed once the loops have passed it, inside its output section,
  and the output sections follow each other, each on a page where `PageAligned`
  says so. Without it a segment need not contain the sections it is made of, and
  a relocation's field need not have a place.
* `SymbolInv`: a name is defined exactly when an exported symbol of that name has
  been read, it has the place of that symbol, and there is only one. Uniqueness
  among the symbols read so far is what the test for duplicates keeps up.
* `FieldInv`: each relocation done so far was in order and its field still holds
  its value. That later relocations do not touch it needs `ContributionsDisjoint`
  across sections and the input's own promise within one section.
* `NoNameInv` and `OutputInv`: where the link ended about a name, and what the
  headers say.

From it `RelocationsStored`, `NamesDefinedOnce`, `SegmentsApart` (the end of a
segment and the start of the next lie on two sides of a multiple of the page),
`LoadsAsLinked` and `LinkTypes`. The assumptions on the input, `InputAssumption`
and `ObjectAssumption`: fields have the types ELF gives them; a relocation lies in
a kept section, because read_object skips the others, inside its size, names a
symbol of its object, and shares its field with no other relocation, because the
assembler writes one fixup for a field. `ThreadPointersInside` has one premise
more, `ThreadReferencesInside`: a thread-local reference of an object stays in the
section of its symbol. Without it the value, which the linker does not check, may
be any number; it is evaluated on the objects of `MCLinker`.

`AssemblerProofs`: for every menu of statements, set of targets and of global
symbols. `ProfilesCorrect` says that no instruction of a 32-bit profile gets into
a 64-bit object and that e_flags name the windowed convention of code assembled
without directives. The inductive invariant `ProfileInv` adds that the features
in force fit the target whatever directives came before, and that each line of
the listing was available under the features listed with it; it rests on
`TargetsAssumption`, which says of the targets what the command line accepts.

The second half of `AssemblerProofs` is about the bytes. The parser appends to
`code` and to `fixups`; much later the backend walks over the fixups and ORs a
value into bytes it knows only by offset. The inductive invariant `CodeInv`
(`CodeCorrect`) is what ties the two ends together:

* `Typed`: bytes are bytes, and a reader stands inside the code.
* `Tiles`: the instructions of the listing lie one after the other and fill the
  section. Without it a field could lie in two instructions.
* `FixupsOK`: every pending fixup and every relocation is that of a listed
  instruction, in the order of the offsets; so no two share a field, and after one
  is applied no later one comes back to it.
* `EntriesOK`: an instruction that names a label starts with the marker, the opcode
  and the register the emitter writes (`Opened`), and its field is still zero with
  its fixup pending, or has its value, or is zero with its relocation. That the
  field is zero while pending is what the OR of applyFixup relies on.

From it `AssemblerTypes` (`AsmTypeOK`), `RelocationsComplete`
(`RelocationsNameTheField`) and the action property `FieldsOnlyPatched`
(`OnlyLabelFieldsPatched`). Two lemmas of `CodeProofs` carry the steps. The emitter
writes a field for a label exactly in the forms that have one, at the end, with
zeros, and a fixup that counts the marker (`NewField`, over one lemma for each
class of instructions). `getInstruction` never reports a size beyond the bytes it
was given, on any bytes, so a listing of the disassembler stays in the section.
`MenuAssumption` says that a statement has the operands its assembly string asks
for, because the generated matcher accepts no other.

`BranchesReach` (`BranchesLand`) follows a branch from its label to its readers. Two
facts come from the states: a label stays inside the section (`LabelsInside`), and a
field that is no longer pending holds the distance less four, counted from the field
(`Patched`). Two come from the format: no two listed instructions have one place in
the opcode maps (`PlacesDiffer`), so a reader that comes to the opcode finds that
instruction, and the marker, the control byte, ModR/M and the extension byte give
back what they were made of (`PrefixesRead`, `MachinePrefixes`, `PairRead`,
`MachinePair`). Its premise, `InReach`, is that the section has at most 2^31 bytes:
four bytes hold no greater distance, and the assembler does not check it.

The round trip is the end of `AssemblerProofs`. `EncodingReadsBack` is about one
instruction and no state: for every record, operands of the kinds the record takes,
marker and size of address, `GetInstruction` finds in the bytes of `Encode` the record,
the operands, the marker and the length, whatever follows, and whatever stands in the
field of a label. It is composed of one lemma for each order of operands
(`DisassemblerProofs` and the next section), and these of what each writer leaves and each
reader takes: a place of the opcode maps belongs to one record or to the variants that a
control byte tells apart (`PlacesDiffer`, `BaseOf`); prefix, control byte, ModR/M, SIB and
OREX give back the four register numbers they are made of, with or without SIB; ModR/M's
two bits say how long the displacement is, with the bases the format cannot write alone.
`MeantMatched` puts the text in front of it: where R4 is no index and there is one
constant, the operands after `parseOperand` and the tied operand are those the text says.

Behind it stand the states. `RoundTripCorrect` is inductive beside `CodeInv`:

* `WrittenInv`: every line of the listing is an accepted statement and stands in the
  section as the emitter wrote it, except for the field of its label. That the bytes of
  other lines and fixups do not disturb it needs `Tiles` and the place of each field.
* `ReadInv`: what the disassembler has returned are the first lines, in order, and the
  offset is where the last of them ends; before that nothing has been read.

From it `SourceReadBack` (`DisassemblyFaithful`) and `SourceReadToItsEnd`
(`DisassemblyFinishes`). The text the grammar reads in its own way is excepted by name in
the property (`PlainStatement`), and only for the values of its operands.

`TranslatorProofs`: for every menu of instructions, so for programs of any length
with any registers, scales, displacements, immediates and branch targets, each
instruction in any of its encodings and the input cut off anywhere.
`ProgramDecoded` says that the decoder gives back the program
(`DecodesWhatIsWritten`). The inductive invariant `DecodeInv` (`DecodeCorrect`) has
four parts: each instruction written stands in the input from its address to its
end, as far as the input goes (`WrittenInv`); while the input is written, all of
it is there (`OpenInv`); what was decoded are the first instructions, and the
decoder is where the next one starts (`ReadInv`); an error means that one is cut
off or not supported (`StopInv`). Two arguments carry the step of the decoder:

* Each field of an encoding determines what is read there. `RexRead` finds the
  end of the prefixes and the REX bits, `OperandRead` goes through the five ways
  to write an operand (register, RIP, no base, base, base with SIB),
  `EncodingRead` through the instructions.
* The decoder is local (`OpcodeLocal`, `LastRexLocal`): an instruction read from an input that was
  cut, without reading beyond its end, is the one read from the whole input. So a
  decoder that gets past a cut would have read an instruction that ends before it.

`MenuAssumption` says that the menu holds instructions of the modelled subset
(`IsInstruction`): their operands are of the kinds the instruction takes, RSP is
no index, displacements and branch targets are signed 32-bit numbers. It is a
definition of the input, not a demand on the code. The two operands the code does
not read as x86 does stay excepted in the property, by name (`ReadsOperands`).

The second half of `TranslatorProofs`: what is written for such a program. The bytes are read
long after they were written, by a reader that knows nothing of the lines, so
the inductive invariant `OutputInv` (`OutputCorrect`) keeps the whole history:
beside `DecodeInv`, that every decoded instruction has operands of the kinds
`lower` takes (`InstsInv`), that nothing is written or read before its loop
(`PhaseInv`), that each instruction lowered so far was lowered as `Lower` says
(`LoweredInv`), that the lines without a note lie one after the other over all of
the bytes (`TileInv`), and that the machine stands between two of them with the
earlier ones read as they were meant (`FollowInv`).

* `BytesAreTheText` (`BytesFollowText`): `LowerShape` says that an instruction
  becomes either lines with a note and no bytes, or one line and its bytes;
  `MachineReadsLine` takes the five kinds of line through `Decoded` and finds
  opcode, registers and immediate again. Programs with a parity jump are excepted
  by name (`HasParityJump`).
* `TextIsTheProgram` (`TextKeepsMeaning`): `Does` relates the state before some
  lines to the state after them and composes over the lines; `RunDoes` says that
  `Run` finds that state, by the least number of a line for which it would not
  (`FirstNumber`) instead of an induction theorem. `EADoes`, `LoadDoes` and
  `StoreDoes` follow the scratch registers R28 and R29 through the address, the
  load and the store; `EffectKept` puts them together for each operation, and
  `SameJump` compares the conditions. `ControlLines` and `OtherKept` do the
  same for the stack and the branches. The exceptions are those of the property:
  `ReadsOperands`, `InFull`, `PushesSP`, `KeepsFlags`, `Unmatched`.
* `TranslatorTypes` (`TransTypeOK`) reads off `OutputInv`.

Only model-checked:

* `MachineInStep` and `CompleteAtLastByte`: `decode_at` over every format the machine
  executes, and both decoders on instructions that are cut off. Of `decode_at` only the
  formats of branches and of the translator's lines are proved to be read back.
* `Termination`, which is liveness.
* The contradicted statements.

## Plan

In this order:

1. Done: `RegisterWindows`, `IntegerAlu`, `RunFunction`, `CallDiscipline`,
   `StackFrames`, `LinkLayout`, `Linker`, the encoding from `InstructionSet` to
   `Assembler`, `X86Code`, `Translator`; the proofs of register windows, integer
   programs, the call discipline, stack frames, the linker's layout and image,
   the assembler's profiles, fixups, relocations and round trip, and the
   translator's decoder and output.
2. The proof that the reference machine stays in step with the emitter, format by
   format, as the disassembler does.
3. The windowed convention and variable arguments, over `StackFrames`;
   instruction selection of comparisons, selects and atomics, over `IntegerAlu`;
   the page walk of PAE32.

Abstract specifications worth stating: `LogicalWindows` (done); one call stack,
implemented by the three of the run loop; a map from symbols to addresses,
implemented by the linker's image.

## Not modelled, and why

* Sections, data directives and the lexer of the assembler are LLVM's; of each
  record class one to five instructions are listed. 32-bit operations of the
  translator: it turns them into 64-bit ones.
* Floating point and vectors: host arithmetic on values, no reals in TLC.
* Loading ELF files, the self test, the printers and generators: pure input and
  output.
* The LLVM passes that call the back end (register allocation, scheduling):
  external; `StackFrames` lets a function access its frame in any order.
* The windowed calling convention and variable arguments of the back end: later,
  over `StackFrames`.
* Instruction selection of comparisons, selects and atomics: later, over
  `IntegerAlu`.
