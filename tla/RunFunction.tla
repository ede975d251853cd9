---------------------------- MODULE RunFunction ----------------------------
(***************************************************************************)
(* run_function of src/seabird_ref.cpp: the loop that fetches one          *)
(* instruction after another, runs the control transfers and the system    *)
(* call itself and hands every other instruction to execute().             *)
(*                                                                         *)
(* Three stacks record a call: the memory the stack pointer R7 walks, the  *)
(* vector `returns`, and, with the extension enabled, the register         *)
(* windows.  CALL pushes on all three and RET pops all three, one after    *)
(* the other, and the program can move two of them by other means.         *)
(*                                                                         *)
(* An instruction is one unit of pc, so no jump lands inside one.  Memory  *)
(* is a row of eight-byte slots and an address is a slot number; R7 starts *)
(* at MemorySlots as it starts at memory.size() in the code.               *)
(***************************************************************************)
EXTENDS Integers, Sequences, SequencesExt

CONSTANTS
  Half, HalfWord, WordBits,   \* the word: see IntegerAlu
  MemorySlots,    \* 8192 in the code
  StepLimit,      \* 100000 in the code
  HostedStatus,   \* 42 in the code
  Programs,       \* code images: sequences of instructions
  InputTokens,    \* what std::cin or the command line may provide
  Inputs          \* values of Cpu::console_input

WordSize == 2 * Half
Word == 0..(WordSize - 1)

\* decode_at: reg and rm are numbers of registers, an immediate of MOVI is a word.
Instruction == [op : STRING, reg : 0..31, rm : 0..31, imm : Int]
Token == [number : BOOLEAN, value : Word, empty : BOOLEAN, first : Word]

ASSUME HalfAssumption == Half \in Nat \ {0}
ASSUME MemoryAssumption == MemorySlots \in 1..(WordSize - 1)
ASSUME StepAssumption == StepLimit \in Nat
ASSUME StatusAssumption == HostedStatus \in Word
ASSUME ProgramAssumption ==
  \A program \in Programs :
    /\ program \in Seq(Instruction)
    /\ Len(program) < WordSize
    /\ \A k \in 1..Len(program) : program[k].op = "MOVI" => program[k].imm \in Word
ASSUME TokenAssumption == InputTokens \subseteq Token
ASSUME InputAssumption == Inputs \subseteq Seq(InputTokens)

VARIABLES
  code,             \* the image being run
  pc,
  returns,          \* the return addresses run_function remembers
  memory,           \* Cpu::memory
  steps,            \* instructions begun
  returned,         \* run_function has returned to its caller
  consoleEnabled,   \* Cpu::console_enabled
  input,            \* Cpu::console_input from console_cursor on
  output,           \* Cpu::console_output
  r, flags, windows, windowPinCounts, windowEnabled, fault

INSTANCE RegisterWindows
  WITH Written <- {}, MaxDepth <- StepLimit + 1, MaxPins <- StepLimit

Alu == INSTANCE IntegerAlu WITH AluReg <- 0..31, Immediate <- {}

windowState == <<windows, windowPinCounts>>
console == <<input, output>>
settings == <<code, windowEnabled, consoleEnabled>>
runVars == <<code, pc, returns, memory, steps, returned, consoleEnabled, input,
             output, r, flags, windows, windowPinCounts, windowEnabled, fault>>

PcOutside == "PC outside code image"
NoReturn == "function did not return"
ReturnOutside == "return stack outside reference memory"
ReturnOverflow == "return stack overflow"
Overrun == "write past the end of memory"
AccessOutside == "memory access outside reference image"
HostedSyscall == "unsupported hosted syscall"
ConsoleSyscall == "unsupported console syscall"
Exhausted == "console input exhausted"
EmptyCharacter == "empty console character input"
NotANumber == "stoll"
Unterminated == "unterminated console string"

RunFault == {PcOutside, NoReturn, ReturnOutside, ReturnOverflow, Overrun,
             AccessOutside, HostedSyscall, ConsoleSyscall, Exhausted,
             EmptyCharacter, NotANumber, Unterminated,
             Alu!DivideByZero, Alu!DivideOverflow} \cup WindowFault

RunTypeOK ==
  /\ pc \in Word
  /\ returns \in Seq(Word)
  /\ memory \in [0..(MemorySlots - 1) -> Word]
  /\ steps \in 0..StepLimit
  /\ returned \in BOOLEAN /\ consoleEnabled \in BOOLEAN
  /\ input \in Seq(InputTokens)
  /\ output \in Seq([kind : {"number", "character", "string"}, value : Word])
  /\ r \in [Reg -> Word]
  /\ flags \in Alu!Flags
  /\ Len(windows) = Len(windowPinCounts) /\ Len(windows) >= 1
  /\ windows \in Seq(Frame)
  /\ fault \in RunFault \cup {"none"}
  /\ ~(returned /\ fault # "none")

RunInit ==
  /\ WindowInit
  /\ r[7] = MemorySlots
  /\ flags = [cf |-> FALSE, zf |-> FALSE, sf |-> FALSE, of |-> FALSE]
  /\ code \in Programs
  /\ pc = 0
  /\ returns = <<>>
  /\ memory = [slot \in 0..(MemorySlots - 1) |-> 0]
  /\ steps = 0
  /\ returned = FALSE
  /\ consoleEnabled \in BOOLEAN
  /\ input \in Inputs
  /\ output = <<>>

-----------------------------------------------------------------------------
(***************************************************************************)
(* Parts of the handlers.  Every handler leaves `settings` alone, and the  *)
(* loop counts its step.                                                   *)
(***************************************************************************)
Goto(target) == pc' = target
NextPc == pc + 1
Relative_NoWrap(imm) == NextPc + imm
Relative(imm) == (NextPc + imm) % WordSize

\* An exception thrown before the handler has changed anything.  pc is a local of
\* the loop, and dead.
FailWith(reason) ==
  /\ fault' = reason
  /\ UNCHANGED <<pc, returns, memory, returned, r, flags, windowState>>

Fail(reason) == FailWith(reason) /\ UNCHANGED console

\* A transfer of control that touches nothing else.
Jump(target) ==
  /\ Goto(target)
  /\ UNCHANGED <<returns, memory, returned, r, flags, windowState, console, fault>>

-----------------------------------------------------------------------------
\* RET.  The pop of the register window comes last and can still throw, with the
\* return address consumed, R7 moved and `returns` popped.
ReturnsLeft_Kept == returns
ReturnsLeft == Front(returns)

LeaveWindow(regs) ==
  \/ /\ ~windowEnabled
     /\ r' = regs
     /\ UNCHANGED <<windowState, fault>>
  \/ /\ CanRestore
     /\ RestorePreviousWindow(regs)
     /\ UNCHANGED fault
  \/ /\ windowEnabled /\ ~CanRestore
     /\ r' = regs
     /\ fault' = Underflow
     /\ UNCHANGED windowState

RetToHost ==
  /\ returns = <<>>
  /\ returned' = TRUE
  /\ Goto(NextPc)
  /\ UNCHANGED <<returns, memory, r, flags, windowState, console, fault>>

RetOutside ==
  /\ returns # <<>> /\ r[7] > MemorySlots - 1
  /\ Fail(ReturnOutside)

RetToCaller ==
  /\ returns # <<>> /\ r[7] <= MemorySlots - 1
  /\ Goto(memory[r[7]])
  /\ returns' = ReturnsLeft
  /\ LeaveWindow([r EXCEPT ![7] = @ + 1])
  /\ UNCHANGED <<memory, returned, flags, console>>

Ret == RetToHost \/ RetOutside \/ RetToCaller

\* CALL and CALLA.  There is no test that R7 is at most MemorySlots: past it the
\* return address is written outside the array, which is undefined, and the run
\* ends here.
ResumePc_Callee(target) == target
ResumePc(target) == NextPc

EnterWindow_Skipped(regs) == r' = regs /\ UNCHANGED windowState

EnterWindow(regs) ==
  \/ windowEnabled /\ AdvanceWindow(regs)
  \/ ~windowEnabled /\ r' = regs /\ UNCHANGED windowState

EnterCallee(target) ==
  /\ r[7] \in 1..MemorySlots
  /\ memory' = [memory EXCEPT ![r[7] - 1] = ResumePc(target)]
  /\ returns' = Append(returns, NextPc)
  /\ EnterWindow([r EXCEPT ![7] = @ - 1])
  /\ Goto(target)
  /\ UNCHANGED <<returned, flags, console, fault>>

CallTo(target) ==
  \/ r[7] < 1 /\ Fail(ReturnOverflow)
  \/ r[7] > MemorySlots /\ Fail(Overrun)
  \/ EnterCallee(target)

Call(imm) == CallTo(Relative(imm))

\* CALLA reads its target before the window advances.
CallAbsolute(rm) == CallTo(r[rm])

\* JMP, JZ to JNC, JZR and JNZR.
JumpIf(condition, imm) == Jump(IF condition THEN Relative(imm) ELSE NextPc)

-----------------------------------------------------------------------------
(***************************************************************************)
(* SYSCALL.  The service is chosen by R0.  A token is taken from the       *)
(* command line first and from standard input after that; it is gone even  *)
(* when it turns out not to be what the service wants.  A token records    *)
(* whether stoll accepts it and its value, whether it is empty, and its    *)
(* first character.                                                        *)
(***************************************************************************)
SetR0(value) ==
  /\ Goto(NextPc)
  /\ r' = [r EXCEPT ![0] = value]
  /\ UNCHANGED <<returns, memory, returned, flags, windowState, fault>>

Hosted ==
  \/ r[0] = 2 /\ SetR0(HostedStatus) /\ UNCHANGED console
  \/ r[0] # 2 /\ Fail(HostedSyscall)

\* std::cin never yields an empty token.
NextInput(token) ==
  \/ input # <<>> /\ token = Head(input) /\ input' = Tail(input)
  \/ input = <<>> /\ ~token.empty /\ UNCHANGED input

InputExhausted == input = <<>> /\ Fail(Exhausted)

UseNumber(token) ==
  \/ token.number /\ SetR0(token.value)
  \/ ~token.number /\ FailWith(NotANumber)

UseCharacter(token) ==
  \/ ~token.empty /\ SetR0(token.first)
  \/ token.empty /\ FailWith(EmptyCharacter)

ReadNumber ==
  /\ r[0] = 1
  /\ \/ InputExhausted
     \/ /\ \E token \in InputTokens : NextInput(token) /\ UseNumber(token)
        /\ UNCHANGED output

ReadCharacter ==
  /\ r[0] = 5
  /\ \/ InputExhausted
     \/ /\ \E token \in InputTokens : NextInput(token) /\ UseCharacter(token)
        /\ UNCHANGED output

Emit(kind, value) ==
  /\ output' = Append(output, [kind |-> kind, value |-> value])
  /\ UNCHANGED input
  /\ SetR0(0)

WriteNumber == r[0] = 2 /\ Emit("number", r[1])
WriteCharacter == r[0] = 3 /\ Emit("character", r[1] % 256)

\* The string ends at the first zero byte from R1 on.  A slot of zero has one; any
\* other slot may or may not.  Past the end of memory there is no byte to read
\* and the string is empty; at the end it is unterminated.
WriteString ==
  /\ r[0] = 4
  /\ \/ /\ r[1] # MemorySlots
        /\ Emit("string", r[1])
     \/ /\ r[1] <= MemorySlots
        /\ \A slot \in r[1]..(MemorySlots - 1) : memory[slot] # 0
        /\ Fail(Unterminated)

OtherService == r[0] \notin 1..5 /\ Fail(ConsoleSyscall)

Syscall ==
  \/ ~consoleEnabled /\ Hosted
  \/ consoleEnabled /\ ReadNumber
  \/ consoleEnabled /\ WriteNumber
  \/ consoleEnabled /\ WriteCharacter
  \/ consoleEnabled /\ WriteString
  \/ consoleEnabled /\ ReadCharacter
  \/ consoleEnabled /\ OtherService

-----------------------------------------------------------------------------
(***************************************************************************)
(* execute(): of the integer instructions, those the programs here use     *)
(* (AluPrograms has them all); of the loads and stores, the ones of eight  *)
(* bytes; and the two window instructions that move the window stack.      *)
(***************************************************************************)
ExecuteAlu(i) ==
  /\ Goto(NextPc)
  /\ UNCHANGED <<returns, memory, returned, windowState, console>>
  /\ \/ i.op = "MOVI" /\ Alu!MovImmediate(i.rm, i.imm)
     \/ i.op = "ADD" /\ Alu!Add(i.reg, i.rm)
     \/ i.op = "CMP" /\ Alu!Compare(i.reg, i.rm)
     \/ i.op = "UDIV" /\ Alu!UDiv(i.reg, i.rm)

ExecuteWindow(i) ==
  /\ Goto(NextPc)
  /\ UNCHANGED <<returns, memory, returned, flags, console>>
  /\ \/ i.op = "WINNEW" /\ (WinNew \/ WinNewDisabled)
     \/ i.op = "WINPREV" /\ (WinPrev \/ WinPrevUnderflow)

Address(i) == (r[i.rm] + i.imm) % WordSize

Load(i) ==
  \/ /\ Address(i) < MemorySlots
     /\ Goto(NextPc)
     /\ r' = [r EXCEPT ![i.reg] = memory[Address(i)]]
     /\ UNCHANGED <<returns, memory, returned, flags, windowState, console, fault>>
  \/ Address(i) >= MemorySlots /\ Fail(AccessOutside)

Store(i) ==
  \/ /\ Address(i) < MemorySlots
     /\ Goto(NextPc)
     /\ memory' = [memory EXCEPT ![Address(i)] = r[i.reg]]
     /\ UNCHANGED <<returns, returned, r, flags, windowState, console, fault>>
  \/ Address(i) >= MemorySlots /\ Fail(AccessOutside)

Execute(i) ==
  \/ ExecuteAlu(i)
  \/ ExecuteWindow(i)
  \/ i.op = "LDQ" /\ Load(i)
  \/ i.op = "STQ" /\ Store(i)

-----------------------------------------------------------------------------
(***************************************************************************)
(* The loop.                                                               *)
(***************************************************************************)
Running == ~returned /\ fault = "none"
Fetched == code[pc + 1]

Transfer(i) ==
  \/ i.op = "RET" /\ Ret
  \/ i.op = "CALL" /\ Call(i.imm)
  \/ i.op = "CALLA" /\ CallAbsolute(i.rm)
  \/ i.op = "JMP" /\ Jump(Relative(i.imm))
  \/ i.op \in Alu!Condition /\ JumpIf(Alu!Taken(i.op, flags), i.imm)
  \/ i.op = "JZR" /\ JumpIf(r[i.rm] = 0, i.imm)
  \/ i.op = "JNZR" /\ JumpIf(r[i.rm] # 0, i.imm)

\* `continue` still runs the loop's increment.
CountStep_NotAfterTransfer ==
  steps' = IF Fetched.op \in {"JMP", "JZR", "JNZR"} THEN steps ELSE steps + 1
CountStep == steps' = steps + 1

Begin ==
  /\ steps < StepLimit
  /\ pc < Len(code)
  /\ CountStep
  /\ UNCHANGED settings
  /\ \/ Transfer(Fetched)
     \/ Fetched.op = "SYSCALL" /\ Syscall
     \/ Execute(Fetched)

LeaveImage ==
  /\ steps < StepLimit
  /\ pc >= Len(code)
  /\ Fail(PcOutside)
  /\ UNCHANGED <<steps, settings>>

OutOfSteps ==
  /\ steps = StepLimit
  /\ Fail(NoReturn)
  /\ UNCHANGED <<steps, settings>>

RunNext == Running /\ (Begin \/ LeaveImage \/ OutOfSteps)

RunSpec == RunInit /\ [][RunNext]_runVars /\ WF_runVars(RunNext)

\* The loop leaves nothing undone: whatever the program, it returns to the host or
\* throws.  The loop runs on one thread that nothing else blocks, hence the
\* fairness of its step (run_function, the bound of its for statement).
Termination == <>~Running
=============================================================================
