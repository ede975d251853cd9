------------------------ MODULE CallDisciplineProofs ------------------------
(***************************************************************************)
(* Proofs about CallDiscipline, for every program, word size, memory size, *)
(* step limit and console input: the state of run_function is well-formed, *)
(* and to a program that keeps the discipline its three call stacks are    *)
(* one.                                                                    *)
(***************************************************************************)
EXTENDS CallDiscipline, SequenceTheorems, TLAPS

\* What the history keeps of an open call.
OpenCall == [resume : Word, regs : [Reg -> Word], windows : Nat \ {0}]

\* Types, with the vector of retention counts, the image and the history.
HistoryType ==
  /\ frames \in Seq(OpenCall)
  /\ broken \in BOOLEAN

\* What the handlers of the loop change.
HandlerType ==
  /\ pc \in Word
  /\ returns \in Seq(Word)
  /\ memory \in [0..(MemorySlots - 1) -> Word]
  /\ returned \in BOOLEAN
  /\ input \in Seq(InputTokens)
  /\ output \in Seq([kind : {"number", "character", "string"}, value : Word])
  /\ r \in [Reg -> Word]
  /\ flags \in Alu!Flags
  /\ windows \in Seq(Frame)
  /\ windowPinCounts \in Seq(Nat)
  /\ Len(windows) = Len(windowPinCounts) /\ Len(windows) >= 1
  /\ fault \in RunFault \cup {"none"}
  /\ ~(returned /\ fault # "none")

\* And what the loop keeps.
MachineType ==
  /\ HandlerType
  /\ steps \in 0..StepLimit
  /\ windowEnabled \in BOOLEAN /\ consoleEnabled \in BOOLEAN
  /\ code \in Programs

-----------------------------------------------------------------------------
\* Words.

LEMMA WordFacts ==
  /\ WordSize \in Nat \ {0}
  /\ Word \subseteq Nat
  /\ 0 \in Word
BY HalfAssumption DEF WordSize, Word

\* Addition and subtraction of the machine stay within a word.
LEMMA ArithmeticInWord ==
  ASSUME NEW a \in Word, NEW b \in Word
  PROVE  Alu!Plus(a, b) \in Word /\ Alu!Minus(a, b) \in Word
BY HalfAssumption DEF Word, WordSize, Alu!Plus, Alu!Minus, Alu!WordSize

\* So does unsigned division.
LEMMA DivisionInWord ==
  ASSUME NEW a \in Nat, NEW b \in Nat \ {0}
  PROVE  a \div b \in 0..a
<1> DEFINE q == a \div b
<1>1. q \in Int /\ b * q <= a /\ a < b * q + b
  BY SMT
<1> HIDE DEF q
<1>2. q >= 0 /\ q <= a
  BY <1>1, SMT
<1> QED
  BY <1>1, <1>2 DEF q

LEMMA RemainderInWord ==
  ASSUME NEW a \in Int
  PROVE  a % WordSize \in Word
BY HalfAssumption DEF Word, WordSize
LEMMA CharacterInWord ==
  ASSUME NEW a \in Word
  PROVE  a % 256 \in Word
<1>1. a \in Nat /\ a < WordSize /\ WordSize \in Nat
  BY WordFacts DEF Word
<1> DEFINE c == a % 256
<1>2. c \in 0..255
  BY <1>1
<1>3. a < 256 => c = a
  BY <1>1
<1> HIDE DEF c
<1>4. c \in 0..a
  BY <1>1, <1>2, <1>3
<1> QED
  BY <1>1, <1>4 DEF Word, c

\* The registers a window does and does not hold.
LEMMA RegisterRanges ==
  /\ \A reg \in 0..7 : reg \in Reg /\ reg < 8
  /\ \A reg \in 8..31 : reg \in Reg /\ ~(reg < 8)
BY DEF Reg

-----------------------------------------------------------------------------
\* Advancing pushes a window: the one on top is brought up to date, the ones below
\* stay, and of the registers R0-R7 stay.
LEMMA AdvanceFacts ==
  ASSUME HandlerType, NEW regs \in [Reg -> Word], AdvanceWindow(regs)
  PROVE  /\ r' \in [Reg -> Word]
         /\ windows' \in Seq(Frame)
         /\ windowPinCounts' \in Seq(Nat)
         /\ Len(windows') = Len(windows) + 1
         /\ Len(windowPinCounts') = Len(windowPinCounts) + 1
         /\ \A d \in 1..(Len(windows) - 1) : windows'[d] = windows[d]
         /\ windows'[Len(windows)] = VisibleFrame(regs)
         /\ \A reg \in 0..7 : r'[reg] = regs[reg]
<1> DEFINE child == ChildFrame(regs)
           top == VisibleFrame(regs)
           saved == SaveVisibleWindow(regs)
<1>1. windows \in Seq(Frame) /\ Len(windows) >= 1
  BY DEF HandlerType
<1>2. child \in Frame
  BY WordFacts DEF ChildFrame, Frame, Reg, Lane24
<1>3. top \in Frame
  BY DEF VisibleFrame, Frame, Reg, Lane24
<1> HIDE DEF child, top
<1>4. saved = [windows EXCEPT ![Len(windows)] = top]
  BY DEF SaveVisibleWindow, top
<1>5. /\ saved \in Seq(Frame) /\ Len(saved) = Len(windows)
      /\ \A d \in 1..(Len(windows) - 1) : saved[d] = windows[d]
      /\ saved[Len(windows)] = top
  BY <1>1, <1>3, <1>4
<1> HIDE DEF saved
<1>6. windows' = Append(saved, child)
  BY DEF AdvanceWindow, saved, child
<1>7. /\ windows' \in Seq(Frame) /\ Len(windows') = Len(windows) + 1
      /\ \A d \in 1..Len(windows) : windows'[d] = saved[d]
  BY <1>1, <1>2, <1>5, <1>6
<1>8. /\ windowPinCounts' \in Seq(Nat)
      /\ Len(windowPinCounts') = Len(windowPinCounts) + 1
  BY DEF AdvanceWindow, HandlerType
<1>9. r' = LoadVisibleWindow(regs, child)
  BY DEF AdvanceWindow, child
<1>10. r' \in [Reg -> Word] /\ \A reg \in 0..7 : r'[reg] = regs[reg]
  BY <1>2, <1>9 DEF LoadVisibleWindow, Frame, Reg, Lane24
<1>11. Len(windows) \in 1..Len(windows)
  BY <1>1
<1>12. windows'[Len(windows)] = top
  BY <1>5, <1>7, <1>11
<1>13. \A d \in 1..(Len(windows) - 1) : windows'[d] = windows[d]
  BY <1>1, <1>5, <1>7
<1> QED
  BY <1>7, <1>8, <1>10, <1>12, <1>13 DEF top

\* Restoring pops a window: of the one below, now on top, the incoming and the local
\* registers stay and become visible; the outgoing ones are the child's incoming.
LEMMA RestoreFacts ==
  ASSUME HandlerType, Len(windows) > 1,
         NEW regs \in [Reg -> Word], RestorePreviousWindow(regs)
  PROVE  /\ r' \in [Reg -> Word]
         /\ windows' \in Seq(Frame)
         /\ windowPinCounts' \in Seq(Nat)
         /\ Len(windows') = Len(windows) - 1
         /\ Len(windowPinCounts') = Len(windowPinCounts) - 1
         /\ \A d \in 1..(Len(windows) - 1) : \A lane \in 0..15 :
              windows'[d][lane] = windows[d][lane]
         /\ \A reg \in 0..7 : r'[reg] = regs[reg]
         /\ \A reg \in 8..23 : r'[reg] = windows[Len(windows) - 1][reg - 8]
         /\ \A reg \in 24..31 : r'[reg] = regs[reg - 16]
<1> DEFINE parent == windows[Len(windows) - 1]
           restored == RestoredFrame(regs)
           popped == SubSeq(windows, 1, Len(windows) - 1)
<1>1. windows \in Seq(Frame) /\ Len(windows) = Len(windowPinCounts)
  BY DEF HandlerType
<1>2. parent \in Frame
  BY <1>1
<1>3. /\ popped \in Seq(Frame) /\ Len(popped) = Len(windows) - 1
      /\ \A d \in 1..(Len(windows) - 1) : popped[d] = windows[d]
  BY <1>1
<1> HIDE DEF parent
<1>4. restored = [lane \in Lane24 |-> IF lane < 16 THEN parent[lane] ELSE regs[lane - 8]]
  BY DEF RestoredFrame, parent
<1> HIDE DEF restored, popped
<1>5. /\ restored \in Frame
      /\ \A lane \in 0..15 : restored[lane] = parent[lane]
      /\ \A lane \in 16..23 : restored[lane] = regs[lane - 8]
  BY <1>2, <1>4 DEF Frame, Reg, Lane24
<1>6. windows' = [popped EXCEPT ![Len(windows) - 1] = restored]
  BY DEF RestorePreviousWindow, popped, restored
<1>7. /\ windows' \in Seq(Frame) /\ Len(windows') = Len(windows) - 1
      /\ \A d \in 1..(Len(windows) - 2) : windows'[d] = windows[d]
      /\ windows'[Len(windows) - 1] = restored
  <2>1. Len(windows) - 1 \in 1..Len(popped) /\ Len(popped) \in Nat
    BY <1>1, <1>3
  <2>2. /\ windows' \in Seq(Frame)
        /\ Len(windows') = Len(popped)
        /\ windows'[Len(windows) - 1] = restored
    BY <2>1, <1>3, <1>5, <1>6
  <2>3. \A d \in 1..(Len(windows) - 2) : windows'[d] = popped[d]
    BY <2>1, <1>3, <1>6
  <2>4. \A d \in 1..(Len(windows) - 2) : windows'[d] = windows[d]
    BY <2>3, <1>1, <1>3
  <2> QED
    BY <2>1, <2>2, <2>4, <1>3
<1>8. \A d \in 1..(Len(windows) - 1) : \A lane \in 0..15 :
        windows'[d][lane] = windows[d][lane]
  <2> SUFFICES ASSUME NEW d \in 1..(Len(windows) - 1), NEW lane \in 0..15
               PROVE  windows'[d][lane] = windows[d][lane]
    OBVIOUS
  <2>1. CASE d = Len(windows) - 1
    BY <2>1, <1>5, <1>7 DEF parent
  <2>2. CASE d # Len(windows) - 1
    BY <2>2, <1>1, <1>7
  <2> QED
    BY <2>1, <2>2
<1>9. /\ windowPinCounts' \in Seq(Nat)
      /\ Len(windowPinCounts') = Len(windowPinCounts) - 1
  BY <1>1 DEF RestorePreviousWindow, HandlerType
<1>10. r' = LoadVisibleWindow(regs, restored)
  BY DEF RestorePreviousWindow, restored
<1>11. r' \in [Reg -> Word]
  BY <1>5, <1>10 DEF LoadVisibleWindow, Frame, Reg, Lane24
<1>12. \A reg \in 0..7 : r'[reg] = regs[reg]
  <2> TAKE reg \in 0..7
  <2> QED
    BY RegisterRanges, <1>10 DEF LoadVisibleWindow
<1>13. \A reg \in 8..31 : r'[reg] = restored[reg - 8]
  <2> TAKE reg \in 8..31
  <2> QED
    BY RegisterRanges, <1>10 DEF LoadVisibleWindow
<1>14. \A reg \in 8..23 : r'[reg] = parent[reg - 8]
  <2> TAKE reg \in 8..23
  <2>1. reg \in 8..31 /\ reg - 8 \in 0..15
    OBVIOUS
  <2> QED
    BY <2>1, <1>5, <1>13
<1>15. \A reg \in 24..31 : r'[reg] = regs[reg - 16]
  <2> TAKE reg \in 24..31
  <2>1. reg \in 8..31 /\ reg - 8 \in 16..23 /\ (reg - 8) - 8 = reg - 16
    OBVIOUS
  <2> QED
    BY <2>1, <1>5, <1>13
<1> QED
  BY <1>7, <1>8, <1>9, <1>11, <1>12, <1>14, <1>15 DEF parent
-----------------------------------------------------------------------------
(***************************************************************************)
(* Types: one lemma per handler of the loop.                               *)
(***************************************************************************)

LEMMA FaultNames ==
  /\ {PcOutside, NoReturn, ReturnOutside, ReturnOverflow, Overrun, AccessOutside,
      HostedSyscall, ConsoleSyscall, Exhausted, EmptyCharacter, NotANumber,
      Unterminated, Alu!DivideByZero, Disabled, Underflow} \subseteq RunFault
  /\ "none" \notin RunFault
BY DEF RunFault, WindowFault, PcOutside, NoReturn, ReturnOutside, ReturnOverflow,
       Overrun, AccessOutside, HostedSyscall, ConsoleSyscall, Exhausted,
       EmptyCharacter, NotANumber, Unterminated, Alu!DivideByZero,
       Alu!DivideOverflow, Disabled, Underflow, Unbalanced

\* An exception before anything has changed.
LEMMA FailType ==
  ASSUME HandlerType, Running, NEW reason \in RunFault, Fail(reason)
  PROVE  HandlerType'
BY DEF HandlerType, Running, Fail, FailWith, windowState, console

\* An exception after a token has been taken.
LEMMA FailWithType ==
  ASSUME HandlerType, Running, NEW reason \in RunFault, FailWith(reason),
         input' \in Seq(InputTokens), UNCHANGED output
  PROVE  HandlerType'
BY DEF HandlerType, Running, FailWith, windowState

\* Control moves and nothing else does.
LEMMA JumpType ==
  ASSUME HandlerType, NEW target \in Word, Jump(target)
  PROVE  HandlerType'
BY DEF HandlerType, Jump, Goto, windowState, console

\* A register file and a memory with one word replaced.
LEMMA UpdateType ==
  /\ \A reg \in Reg, value \in Word :
       r \in [Reg -> Word] => [r EXCEPT ![reg] = value] \in [Reg -> Word]
  /\ \A slot \in 0..(MemorySlots - 1), value \in Word :
       memory \in [0..(MemorySlots - 1) -> Word] =>
         [memory EXCEPT ![slot] = value] \in [0..(MemorySlots - 1) -> Word]
OBVIOUS

LEMMA SetR0Type ==
  ASSUME HandlerType, NEW value \in Word, NextPc \in Word, SetR0(value),
         input' \in Seq(InputTokens),
         output' \in Seq([kind : {"number", "character", "string"}, value : Word])
  PROVE  HandlerType'
<1>1. r' \in [Reg -> Word]
  BY UpdateType DEF SetR0, HandlerType, Reg
<1> QED
  BY <1>1 DEF HandlerType, SetR0, Goto, windowState

LEMMA RetType ==
  ASSUME HandlerType, Running, NextPc \in Word, Ret
  PROVE  HandlerType'
<1>1. CASE RetToHost
  BY <1>1 DEF RetToHost, HandlerType, Running, Goto, windowState, console
<1>2. CASE RetOutside
  BY <1>2, FailType, FaultNames DEF RetOutside
<1>3. CASE RetToCaller
  <2> DEFINE regs == [r EXCEPT ![7] = @ + 1]
  <2>1. r[7] \in 0..(MemorySlots - 1) /\ r[7] + 1 \in Word
    <3>1. r[7] \in Word
      BY DEF HandlerType, Reg
    <3>2. r[7] <= MemorySlots - 1
      BY <1>3 DEF RetToCaller
    <3> QED
      BY <3>1, <3>2, MemoryAssumption, WordFacts DEF Word
  <2>2. regs \in [Reg -> Word]
    BY <2>1, UpdateType DEF HandlerType, Reg
  <2> HIDE DEF regs
  <2>3. pc' \in Word
    BY <1>3, <2>1 DEF RetToCaller, Goto, HandlerType
  <2>4. returns' \in Seq(Word)
    BY <1>3 DEF RetToCaller, ReturnsLeft, Front, HandlerType
  <2>5. LeaveWindow(regs)
    BY <1>3 DEF RetToCaller, regs
  <2>6. /\ r' \in [Reg -> Word]
        /\ windows' \in Seq(Frame) /\ windowPinCounts' \in Seq(Nat)
        /\ Len(windows') = Len(windowPinCounts') /\ Len(windows') >= 1
        /\ fault' \in RunFault \cup {"none"}
    <3>1. CASE ~windowEnabled /\ r' = regs /\ UNCHANGED <<windowState, fault>>
      BY <3>1, <2>2 DEF HandlerType, windowState
    <3>2. CASE CanRestore /\ RestorePreviousWindow(regs) /\ UNCHANGED fault
      <4>1. Len(windows) > 1
        BY <3>2 DEF CanRestore
      <4>2. /\ Len(windows) = Len(windowPinCounts) /\ Len(windows) \in Nat
            /\ fault \in RunFault \cup {"none"}
        BY DEF HandlerType
      <4>3. /\ r' \in [Reg -> Word]
            /\ windows' \in Seq(Frame) /\ windowPinCounts' \in Seq(Nat)
            /\ Len(windows') = Len(windows) - 1
            /\ Len(windowPinCounts') = Len(windowPinCounts) - 1
        BY <3>2, <4>1, <2>2, RestoreFacts
      <4> QED
        BY <3>2, <4>1, <4>2, <4>3
    <3>3. CASE r' = regs /\ fault' = Underflow /\ UNCHANGED windowState
      BY <3>3, <2>2, FaultNames DEF HandlerType, windowState
    <3> QED
      BY <2>5, <3>1, <3>2, <3>3 DEF LeaveWindow
  <2> QED
    BY <1>3, <2>3, <2>4, <2>6 DEF RetToCaller, HandlerType, Running, console
<1> QED
  BY <1>1, <1>2, <1>3 DEF Ret

LEMMA CallType ==
  ASSUME HandlerType, Running, NextPc \in Word, NEW target \in Word, CallTo(target)
  PROVE  HandlerType'
<1>1. CASE r[7] < 1 /\ Fail(ReturnOverflow)
  BY <1>1, FailType, FaultNames
<1>2. CASE r[7] > MemorySlots /\ Fail(Overrun)
  BY <1>2, FailType, FaultNames
<1>3. CASE EnterCallee(target)
  <2> DEFINE regs == [r EXCEPT ![7] = @ - 1]
  <2>1. r[7] - 1 \in 0..(MemorySlots - 1) /\ r[7] - 1 \in Word
    <3>1. r[7] \in 1..MemorySlots
      BY <1>3 DEF EnterCallee
    <3> QED
      BY <3>1, MemoryAssumption, WordFacts DEF Word
  <2>2. regs \in [Reg -> Word]
    BY <2>1, UpdateType DEF HandlerType, Reg
  <2>3. memory' \in [0..(MemorySlots - 1) -> Word]
    BY <1>3, <2>1, UpdateType DEF EnterCallee, ResumePc, HandlerType
  <2>4. returns' \in Seq(Word)
    BY <1>3 DEF EnterCallee, HandlerType
  <2> HIDE DEF regs
  <2>5. EnterWindow(regs)
    BY <1>3 DEF EnterCallee, regs
  <2>6. /\ r' \in [Reg -> Word]
        /\ windows' \in Seq(Frame) /\ windowPinCounts' \in Seq(Nat)
        /\ Len(windows') = Len(windowPinCounts') /\ Len(windows') >= 1
    <3>1. CASE windowEnabled /\ AdvanceWindow(regs)
      BY <3>1, <2>2, AdvanceFacts DEF HandlerType
    <3>2. CASE ~windowEnabled /\ r' = regs /\ UNCHANGED windowState
      BY <3>2, <2>2 DEF HandlerType, windowState
    <3> QED
      BY <2>5, <3>1, <3>2 DEF EnterWindow
  <2> QED
    BY <1>3, <2>3, <2>4, <2>6 DEF EnterCallee, Goto, HandlerType, console
<1> QED
  BY <1>1, <1>2, <1>3 DEF CallTo

\* A token used: whatever the service makes of it, it is gone.
LEMMA TokenType ==
  ASSUME HandlerType, NEW token \in InputTokens, NextInput(token)
  PROVE  input' \in Seq(InputTokens)
<1>1. input \in Seq(InputTokens)
  BY DEF HandlerType
<1>2. CASE input # <<>> /\ input' = Tail(input)
  BY <1>1, <1>2, HeadTailProperties
<1> QED
  BY <1>1, <1>2 DEF NextInput

LEMMA SyscallType ==
  ASSUME HandlerType, Running, NextPc \in Word, Syscall
  PROVE  HandlerType'
<1>1. \A token \in InputTokens : token.value \in Word /\ token.first \in Word
  BY TokenAssumption DEF Token
<1>2. r[1] \in Word /\ r[1] % 256 \in Word /\ 0 \in Word
  <2>1. 1 \in Reg
    BY DEF Reg
  <2>2. r[1] \in Word
    BY <2>1 DEF HandlerType
  <2> QED
    BY <2>2, CharacterInWord, WordFacts
<1> USE FaultNames
<1>3. CASE Hosted
  <2>1. CASE SetR0(HostedStatus) /\ UNCHANGED console
    BY <2>1, SetR0Type, StatusAssumption DEF console, HandlerType
  <2>2. CASE Fail(HostedSyscall)
    BY <2>2, FailType
  <2> QED
    BY <1>3, <2>1, <2>2 DEF Hosted
<1>4. CASE InputExhausted
  BY <1>4, FailType DEF InputExhausted
<1>5. ASSUME NEW token \in InputTokens, NextInput(token), UseNumber(token), UNCHANGED output
      PROVE  HandlerType'
  <2>1. CASE SetR0(token.value)
    BY <1>1, <1>5, <2>1, SetR0Type, TokenType DEF HandlerType
  <2>2. CASE FailWith(NotANumber)
    BY <1>5, <2>2, FailWithType, TokenType
  <2> QED
    BY <1>5, <2>1, <2>2 DEF UseNumber
<1>6. ASSUME NEW token \in InputTokens, NextInput(token), UseCharacter(token), UNCHANGED output
      PROVE  HandlerType'
  <2>1. CASE SetR0(token.first)
    BY <1>1, <1>6, <2>1, SetR0Type, TokenType DEF HandlerType
  <2>2. CASE FailWith(EmptyCharacter)
    BY <1>6, <2>2, FailWithType, TokenType
  <2> QED
    BY <1>6, <2>1, <2>2 DEF UseCharacter
<1>7. ASSUME NEW kind \in {"number", "character", "string"}, NEW value \in Word,
             Emit(kind, value)
      PROVE  HandlerType'
  <2>1. output' \in Seq([kind : {"number", "character", "string"}, value : Word])
    BY <1>7 DEF Emit, HandlerType
  <2> QED
    BY <1>2, <1>7, <2>1, SetR0Type DEF Emit, HandlerType
<1>8. CASE WriteString
  <2>1. CASE Emit("string", r[1])
    BY <1>2, <1>7, <2>1
  <2>2. CASE Fail(Unterminated)
    BY <2>2, FailType
  <2> QED
    BY <1>8, <2>1, <2>2 DEF WriteString
<1>9. CASE WriteNumber
  BY <1>2, <1>7, <1>9 DEF WriteNumber
<1>10. CASE WriteCharacter
  BY <1>2, <1>7, <1>10 DEF WriteCharacter
<1>11. CASE OtherService
  BY <1>11, FailType DEF OtherService
<1>12. CASE ReadNumber
  BY <1>4, <1>5, <1>12 DEF ReadNumber
<1>13. CASE ReadCharacter
  BY <1>4, <1>6, <1>13 DEF ReadCharacter
<1> QED
  BY <1>3, <1>8, <1>9, <1>10, <1>11, <1>12, <1>13 DEF Syscall

\* The flags of an addition or a comparison.
LEMMA FlagsType ==
  ASSUME NEW a, NEW b, NEW result
  PROVE  Alu!FlagsAdd(a, b, result) \in Alu!Flags /\ Alu!FlagsSub(a, b, result) \in Alu!Flags
BY DEF Alu!FlagsAdd, Alu!FlagsSub, Alu!Flags, Alu!Negative

LEMMA AluType ==
  ASSUME HandlerType, Running, NextPc \in Word, NEW i \in Instruction,
         i.op = "MOVI" => i.imm \in Word, ExecuteAlu(i)
  PROVE  HandlerType'
<1>1. i.reg \in Reg /\ i.rm \in Reg
  BY DEF Instruction, Reg
<1>2. r[i.reg] \in Word /\ r[i.rm] \in Word
  BY <1>1 DEF HandlerType
<1>3. /\ r' \in [Reg -> Word] /\ flags' \in Alu!Flags
      /\ fault' \in RunFault \cup {"none"}
  <2>1. CASE i.op = "MOVI" /\ Alu!MovImmediate(i.rm, i.imm)
    BY <2>1, <1>1, UpdateType
       DEF HandlerType, Alu!MovImmediate, Alu!Write, Alu!NoFlags
  <2>2. CASE Alu!Add(i.reg, i.rm)
    <3> DEFINE sum == Alu!Plus(r[i.reg], r[i.rm])
    <3>1. sum \in Word
      BY <1>2, ArithmeticInWord
    <3>2. /\ r' = [r EXCEPT ![i.reg] = sum]
          /\ flags' = Alu!FlagsAdd(r[i.reg], r[i.rm], sum) /\ UNCHANGED fault
      BY <2>2 DEF Alu!Add, Alu!AddTo, Alu!Write, Alu!SetFlags
    <3> HIDE DEF sum
    <3> QED
      BY <3>1, <3>2, <1>1, FlagsType, UpdateType DEF HandlerType
  <2>3. CASE Alu!Compare(i.reg, i.rm)
    BY <2>3, FlagsType DEF HandlerType, Alu!Compare, Alu!SetFlags
  <2>4. CASE Alu!UDiv(i.reg, i.rm)
    <3>1. CASE Alu!Halt(Alu!DivideByZero)
      BY <3>1, FaultNames DEF HandlerType, Alu!Halt
    <3>2. CASE /\ r[i.rm] # 0
               /\ r' = [r EXCEPT ![i.reg] = r[i.reg] \div r[i.rm]]
               /\ UNCHANGED <<flags, fault>>
      <4> DEFINE q == r[i.reg] \div r[i.rm]
      <4>1. r[i.reg] \in Nat /\ r[i.rm] \in Nat \ {0}
        BY <3>2, <1>2, WordFacts
      <4>2. q \in 0..r[i.reg]
        BY <4>1, DivisionInWord
      <4> HIDE DEF q
      <4>3. q \in Word
        BY <4>1, <4>2, <1>2, WordFacts DEF Word
      <4>4. r' = [r EXCEPT ![i.reg] = q]
        BY <3>2 DEF q
      <4> QED
        BY <3>2, <4>3, <4>4, <1>1, UpdateType DEF HandlerType
    <3> QED
      BY <2>4, <3>1, <3>2 DEF Alu!UDiv, Alu!Write, Alu!NoFlags
  <2> QED
    BY <2>1, <2>2, <2>3, <2>4 DEF ExecuteAlu
<1> QED
  BY <1>3 DEF ExecuteAlu, HandlerType, Running, Goto, windowState, console

LEMMA WindowType ==
  ASSUME HandlerType, Running, NextPc \in Word, NEW i, ExecuteWindow(i)
  PROVE  HandlerType'
<1>1. /\ r' \in [Reg -> Word]
      /\ windows' \in Seq(Frame) /\ windowPinCounts' \in Seq(Nat)
      /\ Len(windows') = Len(windowPinCounts') /\ Len(windows') >= 1
      /\ fault' \in RunFault \cup {"none"}
  <2>1. /\ r \in [Reg -> Word] /\ fault \in RunFault \cup {"none"}
        /\ Len(windows) = Len(windowPinCounts)
        /\ Len(windows) \in Nat /\ Len(windows) >= 1
    BY DEF HandlerType
  <2>2. CASE AdvanceWindow(r) /\ UNCHANGED fault
    BY <2>1, <2>2, AdvanceFacts
  <2>3. CASE Len(windows) > 1 /\ RestorePreviousWindow(r) /\ UNCHANGED fault
    <3>1. /\ r' \in [Reg -> Word]
          /\ windows' \in Seq(Frame) /\ windowPinCounts' \in Seq(Nat)
          /\ Len(windows') = Len(windows) - 1
          /\ Len(windowPinCounts') = Len(windowPinCounts) - 1
      BY <2>1, <2>3, RestoreFacts
    <3> QED
      BY <2>1, <2>3, <3>1
  <2>4. CASE Throw(Disabled) \/ Throw(Underflow)
    BY <2>4, FaultNames DEF Throw, HandlerType
  <2> QED
    BY <2>2, <2>3, <2>4 DEF ExecuteWindow, WinNew, WinNewDisabled, WinPrev,
                            WinPrevUnderflow, CanRestore
<1> QED
  BY <1>1 DEF ExecuteWindow, HandlerType, Running, Goto, console

LEMMA LoadStoreType ==
  ASSUME HandlerType, Running, NextPc \in Word, NEW i \in Instruction,
         Load(i) \/ Store(i)
  PROVE  HandlerType'
<1>1. i.reg \in Reg /\ i.rm \in Reg /\ i.imm \in Int
  BY DEF Instruction, Reg
<1>2. CASE Fail(AccessOutside)
  BY <1>2, FailType, FaultNames
<1>3. CASE ~Fail(AccessOutside)
  <2>1. Address(i) < MemorySlots
    BY <1>3 DEF Load, Store
  <2>2. r[i.rm] \in Word /\ r[i.reg] \in Word
    BY <1>1 DEF HandlerType
  <2>3. Address(i) \in Word
    <3>1. r[i.rm] \in Nat
      BY <2>2, WordFacts
    <3>2. r[i.rm] + i.imm \in Int
      BY <1>1, <3>1
    <3> QED
      BY <3>2, RemainderInWord DEF Address
  <2> DEFINE slot == Address(i)
  <2> HIDE DEF slot
  <2>4. slot \in 0..(MemorySlots - 1)
    BY <2>1, <2>3, MemoryAssumption, WordFacts DEF slot, Word
  <2>5. CASE Load(i)
    <3>1. memory[slot] \in Word
      BY <2>4 DEF HandlerType
    <3>2. r' \in [Reg -> Word]
      BY <1>1, <1>3, <2>5, <3>1, UpdateType DEF Load, HandlerType, slot
    <3> QED
      BY <1>3, <2>5, <3>2 DEF Load, HandlerType, Goto, windowState, console
  <2>6. CASE Store(i)
    <3>1. memory' \in [0..(MemorySlots - 1) -> Word]
      BY <1>3, <2>2, <2>4, <2>6, UpdateType DEF Store, HandlerType, slot
    <3> QED
      BY <1>3, <2>6, <3>1 DEF Store, HandlerType, Goto, windowState, console
  <2> QED
    BY <2>5, <2>6
<1> QED
  BY <1>2, <1>3

\* What the loop has in hand when it begins an instruction.
LEMMA FetchedType ==
  ASSUME MachineType, pc < Len(code)
  PROVE  /\ Fetched \in Instruction
         /\ Fetched.op = "MOVI" => Fetched.imm \in Word
         /\ NextPc \in Word
         /\ Relative(Fetched.imm) \in Word
         /\ r[Fetched.rm] \in Word
<1>1. /\ code \in Seq(Instruction) /\ Len(code) < WordSize
      /\ \A k \in 1..Len(code) : code[k].op = "MOVI" => code[k].imm \in Word
  BY ProgramAssumption DEF MachineType
<1>2. pc \in Nat /\ Len(code) \in Nat
  BY <1>1, WordFacts DEF MachineType, HandlerType
<1>3. pc + 1 \in 1..Len(code)
  BY <1>2
<1>4. NextPc \in Word
  BY <1>1, <1>2, WordFacts DEF NextPc, Word
<1>5. Fetched \in Instruction
  BY <1>1, <1>3 DEF Fetched
<1>6. Fetched.imm \in Int /\ Fetched.rm \in Reg
  BY <1>5 DEF Instruction, Reg
<1>7. NextPc + Fetched.imm \in Int
  BY <1>4, <1>6, WordFacts
<1> QED
  BY <1>1, <1>3, <1>4, <1>5, <1>6, <1>7, RemainderInWord
     DEF Fetched, Relative, MachineType, HandlerType

LEMMA BeginType ==
  ASSUME MachineType, Running, Begin
  PROVE  HandlerType'
<1>1. /\ Fetched \in Instruction
      /\ Fetched.op = "MOVI" => Fetched.imm \in Word
      /\ NextPc \in Word
      /\ Relative(Fetched.imm) \in Word
      /\ r[Fetched.rm] \in Word
  BY FetchedType DEF Begin
<1>2. HandlerType
  BY DEF MachineType
<1> DEFINE i == Fetched
<1> HIDE DEF i
<1>3. \A condition : JumpIf(condition, i.imm) => HandlerType'
  BY <1>1, <1>2, JumpType DEF JumpIf, i
<1>4. CASE Transfer(i)
  <2>1. CASE Ret
    BY <1>1, <1>2, <2>1, RetType
  <2>2. CASE Call(i.imm) \/ CallAbsolute(i.rm)
    BY <1>1, <1>2, <2>2, CallType DEF Call, CallAbsolute, i
  <2>3. CASE Jump(Relative(i.imm))
    BY <1>1, <1>2, <2>3, JumpType DEF i
  <2> QED
    BY <1>3, <1>4, <2>1, <2>2, <2>3 DEF Transfer
<1>5. CASE Syscall
  BY <1>1, <1>2, <1>5, SyscallType
<1>6. CASE Execute(i)
  <2>1. CASE ExecuteAlu(i)
    BY <1>1, <1>2, <2>1, AluType DEF i
  <2>2. CASE ExecuteWindow(i)
    BY <1>1, <1>2, <2>2, WindowType
  <2>3. CASE Load(i) \/ Store(i)
    BY <1>1, <1>2, <2>3, LoadStoreType DEF i
  <2> QED
    BY <1>6, <2>1, <2>2, <2>3 DEF Execute
<1> QED
  BY <1>4, <1>5, <1>6 DEF Begin, i

LEMMA MachineTypeInit == RunInit => MachineType
<1> SUFFICES ASSUME RunInit PROVE MachineType
  OBVIOUS
<1>1. /\ windows = << [lane \in Lane24 |-> 0] >> /\ windowPinCounts = <<0>>
      /\ r \in [Reg -> Word] /\ windowEnabled \in BOOLEAN /\ fault = "none"
  BY DEF RunInit, WindowInit
<1>2. [lane \in Lane24 |-> 0] \in Frame
  BY WordFacts DEF Frame
<1>3. windows \in Seq(Frame) /\ windowPinCounts \in Seq(Nat)
  BY <1>1, <1>2
<1>4. Len(windows) = 1 /\ Len(windowPinCounts) = 1
  BY <1>1
<1>5. input \in Seq(InputTokens)
  BY InputAssumption DEF RunInit
<1>6. flags \in Alu!Flags
  BY DEF RunInit, Alu!Flags
<1>7. returns \in Seq(Word)
      /\ output \in Seq([kind : {"number", "character", "string"}, value : Word])
  BY DEF RunInit
<1>8. memory \in [0..(MemorySlots - 1) -> Word]
  BY WordFacts DEF RunInit
<1>9. steps \in 0..StepLimit
  BY StepAssumption DEF RunInit
<1>10. /\ pc \in Word /\ returned \in BOOLEAN /\ consoleEnabled \in BOOLEAN
       /\ code \in Programs /\ ~(returned /\ fault # "none")
  BY <1>1, WordFacts DEF RunInit
<1>11. HandlerType
  BY <1>1, <1>3, <1>4, <1>5, <1>6, <1>7, <1>8, <1>10 DEF HandlerType
<1> QED
  BY <1>1, <1>9, <1>10, <1>11 DEF MachineType

LEMMA MachineTypeStep == MachineType /\ [RunNext]_runVars => MachineType'
<1> SUFFICES ASSUME MachineType, [RunNext]_runVars PROVE MachineType'
  OBVIOUS
<1>1. CASE Running /\ Begin
  <2>1. steps' \in 0..StepLimit
    BY <1>1, StepAssumption DEF Begin, CountStep, MachineType
  <2> QED
    BY <1>1, <2>1, BeginType DEF Begin, MachineType, settings
<1>2. CASE Running /\ LeaveImage
  BY <1>2, FailType, FaultNames DEF LeaveImage, MachineType, settings
<1>3. CASE Running /\ OutOfSteps
  BY <1>3, FailType, FaultNames DEF OutOfSteps, MachineType, settings
<1>4. CASE UNCHANGED runVars
  BY <1>4 DEF runVars, MachineType, HandlerType
<1> QED
  BY <1>1, <1>2, <1>3, <1>4 DEF RunNext

\* The state of run_function is well-formed after any number of steps of any program:
\* every register, stack slot and return address is a word, control is at a word, a
\* run does not both return and throw.
THEOREM RunTypesCorrect == CallSpec => []RunTypeOK
<1>1. CallInit => MachineType
  BY MachineTypeInit DEF CallInit
<1>2. MachineType /\ [CallNext]_callVars => MachineType'
  BY MachineTypeStep DEF CallNext, callVars
<1>3. MachineType => RunTypeOK
  BY DEF MachineType, HandlerType, RunTypeOK
<1> QED
  BY <1>1, <1>2, <1>3, PTL DEF CallSpec

-----------------------------------------------------------------------------
(***************************************************************************)
(* One call stack.  StacksAgree is not inductive: a RET pops the window of *)
(* the callee, and that leaves the caller with a window of its own, and    *)
(* with its registers in it, only because the frames below are nested in   *)
(* the windows and hold the registers of their activations.                *)
(***************************************************************************)
NestedFrames ==
  \A i \in 1..Len(frames) :
    /\ frames[i].regs[7] = MemorySlots - (i - 1)
    /\ ~windowEnabled => frames[i].windows = 1
    /\ windowEnabled =>
         /\ frames[i].windows < Len(windows)
         /\ \A j \in 1..(i - 1) : frames[j].windows < frames[i].windows
         /\ \A reg \in 8..23 : windows[frames[i].windows][reg - 8] = frames[i].regs[reg]

Damaged == {ReturnOutside, Overrun, Underflow}

CallInv ==
  /\ MachineType
  /\ HistoryType
  /\ ~broken => OneStack /\ NestedFrames /\ fault \notin Damaged

\* A step that moves none of the three stacks.
Quiet ==
  /\ UNCHANGED <<returns, memory, windows>>
  /\ ~broken' => r'[7] = r[7] /\ fault' \notin Damaged

\* STQ, to a slot below the return addresses.
StoresBelow ==
  /\ UNCHANGED <<returns, windows, r, fault>>
  /\ \E slot \in 0..(MemorySlots - 1), value \in Word :
       /\ memory' = [memory EXCEPT ![slot] = value]
       /\ ~broken' => slot < r[7]

\* WINNEW and WINPREV, the latter above the window its activation began with.
MovesWindows ==
  /\ windowEnabled
  /\ UNCHANGED <<returns, memory, fault>>
  /\ \/ AdvanceWindow(r)
     \/ /\ Len(windows) > 1 /\ RestorePreviousWindow(r)
        /\ ~broken' => Len(windows) # EntryDepth

\* A RET from the window its activation began with.
ReturnsBalanced == RetToCaller /\ (~broken' => Len(windows) = EntryDepth)

\* What a step of a run does to the stacks.
StackStep ==
  \/ Quiet
  \/ StoresBelow
  \/ MovesWindows
  \/ ReturnsBalanced
  \/ \E target : NextPc \in Word /\ EnterCallee(target)

LEMMA FrontLength ==
  ASSUME NEW S, NEW s \in Seq(S), s # <<>>
  PROVE  Len(Front(s)) = Len(s) - 1
<1> DEFINE m == Len(s) - 1
<1>1. Len(s) \in Nat \ {0} /\ \A k \in 1..Len(s) : s[k] \in S
  OBVIOUS
<1>2. m \in Nat /\ \A k \in 1..m : s[k] \in S
  BY <1>1
<1>3. Front(s) = SubSeq(s, 1, m)
  BY DEF Front
<1> HIDE DEF m
<1>4. Len(SubSeq(s, 1, m)) = IF 1 <= m THEN m - 1 + 1 ELSE 0
  BY <1>2, SubSeqProperties
<1>5. Len(SubSeq(s, 1, m)) = m
  BY <1>2, <1>4
<1> QED
  BY <1>3, <1>5 DEF m

LEMMA DamageNames ==
  /\ {"none", PcOutside, NoReturn, ReturnOverflow, AccessOutside, HostedSyscall,
      ConsoleSyscall, Exhausted, EmptyCharacter, NotANumber, Unterminated,
      Alu!DivideByZero, Disabled} \cap Damaged = {}
BY DEF Damaged, PcOutside, NoReturn, ReturnOutside, ReturnOverflow, Overrun,
       AccessOutside, HostedSyscall, ConsoleSyscall, Exhausted, EmptyCharacter,
       NotANumber, Unterminated, Alu!DivideByZero, Disabled, Underflow

\* The depth at which the current activation began.
LEMMA EntryDepthFacts ==
  ASSUME CallInv, ~broken
  PROVE  /\ EntryDepth \in Nat \ {0}
         /\ Len(windows) \in Nat /\ Len(windows) >= EntryDepth
         /\ ~windowEnabled => EntryDepth = 1 /\ Len(windows) = 1
         /\ windowEnabled /\ frames # <<>> =>
              EntryDepth = frames[Len(frames)].windows + 1 /\ EntryDepth >= 2
<1>1. /\ windows \in Seq(Frame)
      /\ frames \in Seq(OpenCall)
      /\ Len(windows) >= EntryDepth /\ (~windowEnabled => Len(windows) = 1)
  BY DEF CallInv, MachineType, HandlerType, HistoryType, OneStack
<1>2. frames # <<>> => frames[Len(frames)].windows \in Nat \ {0}
  <2> SUFFICES ASSUME frames # <<>>
               PROVE  frames[Len(frames)].windows \in Nat \ {0}
    OBVIOUS
  <2>1. Len(frames) \in 1..Len(frames)
    BY <1>1
  <2>2. frames[Len(frames)] \in OpenCall
    BY <1>1, <2>1
  <2> QED
    BY <2>2 DEF OpenCall
<1> QED
  BY <1>1, <1>2 DEF EntryDepth, Last

\* The history of a step that leaves `returns` alone.
LEMMA NoCall ==
  ASSUME MachineType, UNCHANGED returns, History
  PROVE  UNCHANGED frames
<1>1. Len(returns) \in Nat /\ Len(returns') = Len(returns)
  BY DEF MachineType, HandlerType
<1>2. ~Called /\ ~Left
  BY <1>1 DEF Called, Left
<1> QED
  BY <1>2 DEF History

LEMMA QuietKeeps ==
  ASSUME CallInv, ~broken, ~broken', Quiet, UNCHANGED <<frames, windowEnabled>>
  PROVE  OneStack' /\ NestedFrames' /\ fault' \notin Damaged
<1>1. OneStack /\ NestedFrames
  BY DEF CallInv
<1>2. EntryDepth' = EntryDepth
  BY DEF EntryDepth
<1>3. OneStack'
  BY <1>1, <1>2 DEF OneStack, Quiet
<1>4. NestedFrames'
  BY <1>1 DEF NestedFrames, Quiet
<1> QED
  BY <1>3, <1>4 DEF Quiet

LEMMA StoreKeeps ==
  ASSUME CallInv, ~broken, ~broken', StoresBelow, UNCHANGED <<frames, windowEnabled>>
  PROVE  OneStack' /\ NestedFrames' /\ fault' \notin Damaged
<1>1. OneStack /\ NestedFrames /\ fault \notin Damaged
  BY DEF CallInv
<1>2. EntryDepth' = EntryDepth
  BY DEF EntryDepth
<1>3. PICK slot \in 0..(MemorySlots - 1), value \in Word :
        memory' = [memory EXCEPT ![slot] = value] /\ slot < r[7]
  BY DEF StoresBelow
<1>4. memory \in [0..(MemorySlots - 1) -> Word] /\ Len(returns) \in Nat
  BY DEF CallInv, MachineType, HandlerType
<1>5. \A i \in 1..Len(returns) : memory'[MemorySlots - i] = memory[MemorySlots - i]
  <2> SUFFICES ASSUME NEW i \in 1..Len(returns)
               PROVE  memory'[MemorySlots - i] = memory[MemorySlots - i]
    OBVIOUS
  <2>1. slot < MemorySlots - Len(returns)
    BY <1>1, <1>3 DEF OneStack
  <2>2. MemorySlots - i # slot
    BY <1>4, <2>1, MemoryAssumption, WordFacts
  <2> QED
    BY <1>3, <1>4, <2>2
<1>6. OneStack'
  BY <1>1, <1>2, <1>5 DEF OneStack, StoresBelow
<1>7. NestedFrames'
  BY <1>1 DEF NestedFrames, StoresBelow
<1> QED
  BY <1>1, <1>6, <1>7 DEF StoresBelow

LEMMA WindowsKeep ==
  ASSUME CallInv, ~broken, ~broken', MovesWindows, UNCHANGED <<frames, windowEnabled>>
  PROVE  OneStack' /\ NestedFrames' /\ fault' \notin Damaged
<1>1. OneStack /\ NestedFrames /\ fault \notin Damaged /\ HandlerType /\ windowEnabled
  BY DEF CallInv, MachineType, MovesWindows
<1>2. EntryDepth' = EntryDepth /\ EntryDepth \in Nat \ {0}
      /\ Len(windows) \in Nat /\ Len(windows) >= EntryDepth
  BY EntryDepthFacts DEF EntryDepth
<1>3. r \in [Reg -> Word] /\ 7 \in 0..7
  BY <1>1 DEF HandlerType
<1>4. /\ Len(windows') \in Nat /\ Len(windows') >= EntryDepth
      /\ r'[7] = r[7]
      /\ \A d \in 1..(Len(windows') - 1) : d < Len(windows) =>
           \A lane \in 0..15 : windows'[d][lane] = windows[d][lane]
  <2>1. CASE AdvanceWindow(r)
    <3>1. /\ Len(windows') = Len(windows) + 1
          /\ \A d \in 1..(Len(windows) - 1) : windows'[d] = windows[d]
          /\ \A reg \in 0..7 : r'[reg] = r[reg]
      BY <1>1, <1>3, <2>1, AdvanceFacts
    <3>2. \A d \in 1..(Len(windows') - 1) : d < Len(windows) =>
             windows'[d] = windows[d]
      BY <1>2, <3>1
    <3> QED
      BY <1>2, <1>3, <3>1, <3>2
  <2>2. CASE Len(windows) > 1 /\ RestorePreviousWindow(r) /\ Len(windows) # EntryDepth
    <3>1. /\ Len(windows') = Len(windows) - 1
          /\ \A d \in 1..(Len(windows) - 1) : \A lane \in 0..15 :
               windows'[d][lane] = windows[d][lane]
          /\ \A reg \in 0..7 : r'[reg] = r[reg]
      BY <1>1, <1>3, <2>2, RestoreFacts
    <3> QED
      BY <1>2, <1>3, <2>2, <3>1
  <2> QED
    BY <2>1, <2>2 DEF MovesWindows
<1>5. OneStack'
  BY <1>1, <1>2, <1>4 DEF OneStack, MovesWindows
<1>6. NestedFrames'
  <2> SUFFICES ASSUME NEW i \in 1..Len(frames)
               PROVE  /\ frames[i].windows < Len(windows')
                      /\ \A reg \in 8..23 :
                           windows'[frames[i].windows][reg - 8] = frames[i].regs[reg]
    BY <1>1 DEF NestedFrames
  <2>1. /\ frames[i].windows \in Nat \ {0} /\ frames[i].windows < Len(windows)
        /\ frames[Len(frames)].windows \in Nat \ {0}
        /\ Len(frames) \in Nat
    <3>1. frames \in Seq(OpenCall)
      BY DEF CallInv, HistoryType
    <3>2. frames[i] \in OpenCall /\ Len(frames) \in 1..Len(frames)
      BY <3>1
    <3>3. frames[Len(frames)] \in OpenCall
      BY <3>1, <3>2
    <3> QED
      BY <1>1, <3>1, <3>2, <3>3 DEF NestedFrames, OpenCall
  <2>2. EntryDepth = frames[Len(frames)].windows + 1
    BY <1>1, <2>1, EntryDepthFacts
  <2>3. frames[i].windows <= frames[Len(frames)].windows
    <3>1. CASE i = Len(frames)
      BY <3>1, <2>1
    <3>2. CASE i # Len(frames)
      <4>1. Len(frames) \in 1..Len(frames) /\ i \in 1..(Len(frames) - 1)
        BY <3>2, <2>1
      <4>2. frames[i].windows < frames[Len(frames)].windows
        BY <4>1, <1>1 DEF NestedFrames
      <4> QED
        BY <4>2, <2>1
    <3> QED
      BY <3>1, <3>2
  <2>4. frames[i].windows < Len(windows')
    BY <1>4, <2>1, <2>2, <2>3
  <2>5. frames[i].windows \in 1..(Len(windows') - 1)
    BY <1>4, <2>1, <2>4
  <2>6. \A reg \in 8..23 : windows'[frames[i].windows][reg - 8] = frames[i].regs[reg]
    <3> TAKE reg \in 8..23
    <3>1. reg - 8 \in 0..15
      OBVIOUS
    <3>2. windows[frames[i].windows][reg - 8] = frames[i].regs[reg]
      BY <1>1 DEF NestedFrames
    <3> QED
      BY <1>4, <2>1, <2>5, <3>1, <3>2
  <2> QED
    BY <2>4, <2>6
<1> QED
  BY <1>1, <1>5, <1>6 DEF MovesWindows

\* The windows of a call: with the extension a new one, the caller's saved below it.
LEMMA EnterWindowFacts ==
  ASSUME HandlerType, windowEnabled \in BOOLEAN,
         NEW regs \in [Reg -> Word], EnterWindow(regs)
  PROVE  /\ r' \in [Reg -> Word] /\ r'[7] = regs[7]
         /\ windowEnabled =>
              /\ Len(windows') = Len(windows) + 1
              /\ \A d \in 1..(Len(windows) - 1) : windows'[d] = windows[d]
              /\ \A reg \in 8..31 : windows'[Len(windows)][reg - 8] = regs[reg]
         /\ ~windowEnabled => UNCHANGED windows
<1>1. CASE windowEnabled /\ AdvanceWindow(regs)
  <2>1. /\ r' \in [Reg -> Word]
        /\ Len(windows') = Len(windows) + 1
        /\ \A d \in 1..(Len(windows) - 1) : windows'[d] = windows[d]
        /\ windows'[Len(windows)] = VisibleFrame(regs)
        /\ \A reg \in 0..7 : r'[reg] = regs[reg]
    BY <1>1, AdvanceFacts
  <2>2. \A reg \in 8..31 : VisibleFrame(regs)[reg - 8] = regs[reg]
    <3> TAKE reg \in 8..31
    <3>1. reg - 8 \in Lane24 /\ (reg - 8) + 8 = reg
      BY DEF Lane24
    <3> QED
      BY <3>1 DEF VisibleFrame
  <2>3. 7 \in 0..7
    OBVIOUS
  <2> QED
    BY <1>1, <2>1, <2>2, <2>3
<1>2. CASE ~windowEnabled /\ r' = regs /\ UNCHANGED windowState
  BY <1>2 DEF windowState
<1> QED
  BY <1>1, <1>2 DEF EnterWindow

LEMMA CallKeeps ==
  ASSUME CallInv, ~broken, ~broken', NEW target, EnterCallee(target),
         NextPc \in Word, UNCHANGED windowEnabled,
         frames' = Append(frames, [resume |-> NextPc, regs |-> r, windows |-> Len(windows)])
  PROVE  OneStack' /\ NestedFrames' /\ fault' \notin Damaged
<1> DEFINE n == Len(frames)
           open == [resume |-> NextPc, regs |-> r, windows |-> Len(windows)]
           regs == [r EXCEPT ![7] = @ - 1]
<1>1. OneStack /\ NestedFrames /\ fault \notin Damaged /\ HandlerType
      /\ windowEnabled \in BOOLEAN
  BY DEF CallInv, MachineType
<1>2. /\ frames \in Seq(OpenCall) /\ returns \in Seq(Word) /\ r \in [Reg -> Word]
      /\ memory \in [0..(MemorySlots - 1) -> Word]
      /\ Len(windows) \in Nat /\ Len(windows) >= 1
  BY <1>1 DEF CallInv, HistoryType, HandlerType
<1>3. n \in Nat /\ n = Len(returns) /\ r[7] = MemorySlots - n /\ MemorySlots - n >= 1
      /\ MemorySlots \in Nat
  BY <1>1, <1>2, MemoryAssumption, WordFacts DEF OneStack, EnterCallee
<1>4. /\ Len(frames') = n + 1
      /\ \A i \in 1..n : frames'[i] = frames[i]
      /\ frames'[n + 1] = open
  BY <1>2
<1>5. /\ Len(returns') = n + 1
      /\ \A i \in 1..n : returns'[i] = returns[i]
      /\ returns'[n + 1] = NextPc
  BY <1>2, <1>3 DEF EnterCallee
<1>6. /\ \A i \in 1..n : memory'[MemorySlots - i] = memory[MemorySlots - i]
      /\ memory'[MemorySlots - (n + 1)] = NextPc
  <2>1. memory' = [memory EXCEPT ![MemorySlots - (n + 1)] = NextPc]
    BY <1>3 DEF EnterCallee, ResumePc
  <2>2. MemorySlots - (n + 1) \in 0..(MemorySlots - 1)
        /\ \A i \in 1..n : MemorySlots - i # MemorySlots - (n + 1)
                           /\ MemorySlots - i \in 0..(MemorySlots - 1)
    BY <1>3
  <2> HIDE DEF n
  <2> QED
    BY <1>2, <2>1, <2>2
<1>7. regs \in [Reg -> Word] /\ regs[7] = MemorySlots - (n + 1)
      /\ \A reg \in 8..31 : regs[reg] = r[reg]
  <2>1. r[7] - 1 = MemorySlots - (n + 1) /\ r[7] - 1 \in Word
    BY <1>3, MemoryAssumption, WordFacts DEF Word
  <2>2. 7 \in Reg /\ \A reg \in 8..31 : reg \in Reg /\ reg # 7
    BY DEF Reg
  <2> QED
    BY <1>2, <2>1, <2>2, UpdateType
<1>8. EnterWindow(regs) /\ UNCHANGED fault
  BY DEF EnterCallee
<1> HIDE DEF regs, open, n
<1>9. /\ r'[7] = MemorySlots - (n + 1)
      /\ windowEnabled =>
           /\ Len(windows') = Len(windows) + 1
           /\ \A d \in 1..(Len(windows) - 1) : windows'[d] = windows[d]
           /\ \A reg \in 8..31 : windows'[Len(windows)][reg - 8] = r[reg]
      /\ ~windowEnabled => UNCHANGED windows
  BY <1>1, <1>7, <1>8, EnterWindowFacts
<1>10. EntryDepth' = IF windowEnabled THEN Len(windows) + 1 ELSE 1
  <2>1. frames' # <<>> /\ Last(frames') = open
    BY <1>2, <1>3, <1>4 DEF Last, n
  <2> QED
    BY <2>1 DEF EntryDepth, open
<1>11. OneStack'
  <2>1. ASSUME NEW i \in 1..(n + 1)
        PROVE  /\ returns'[i] = frames'[i].resume
               /\ memory'[MemorySlots - i] = frames'[i].resume
    <3>1. CASE i = n + 1
      BY <3>1, <1>4, <1>5, <1>6 DEF open
    <3>2. CASE i # n + 1
      <4>1. i \in 1..n
        BY <3>2, <1>3
      <4> QED
        BY <4>1, <1>1, <1>3, <1>4, <1>5, <1>6 DEF OneStack
    <3> QED
      BY <3>1, <3>2
  <2>2. Len(windows') >= EntryDepth' /\ (~windowEnabled => Len(windows') = 1)
    BY <1>1, <1>2, <1>9, <1>10 DEF OneStack
  <2> QED
    BY <1>4, <1>5, <1>9, <2>1, <2>2 DEF OneStack
<1>12. NestedFrames'
  <2> SUFFICES ASSUME NEW i \in 1..(n + 1)
               PROVE  /\ frames'[i].regs[7] = MemorySlots - (i - 1)
                      /\ ~windowEnabled => frames'[i].windows = 1
                      /\ windowEnabled =>
                           /\ frames'[i].windows < Len(windows')
                           /\ \A j \in 1..(i - 1) : frames'[j].windows < frames'[i].windows
                           /\ \A reg \in 8..23 :
                                windows'[frames'[i].windows][reg - 8] = frames'[i].regs[reg]
    BY <1>4 DEF NestedFrames
  <2>1. CASE i = n + 1
    <3>1. frames'[i].regs = r /\ frames'[i].windows = Len(windows) /\ i - 1 = n
      BY <1>3, <1>4, <2>1 DEF open
    <3>2. windowEnabled => \A j \in 1..n : frames'[j].windows < Len(windows)
      BY <1>1, <1>4 DEF NestedFrames, n
    <3>3. ~windowEnabled => Len(windows) = 1
      BY <1>1 DEF OneStack
    <3>4. windowEnabled => \A reg \in 8..23 : windows'[Len(windows)][reg - 8] = r[reg]
      <4> SUFFICES ASSUME windowEnabled, NEW reg \in 8..23
                   PROVE  windows'[Len(windows)][reg - 8] = r[reg]
        OBVIOUS
      <4>1. reg \in 8..31
        OBVIOUS
      <4> QED
        BY <1>9, <4>1
    <3>5. windowEnabled => Len(windows) < Len(windows')
      <4> SUFFICES ASSUME windowEnabled PROVE Len(windows) < Len(windows')
        OBVIOUS
      <4>1. Len(windows') = Len(windows) + 1
        BY <1>9
      <4> QED
        BY <1>2, <4>1
    <3>6. frames'[i].regs[7] = MemorySlots - (i - 1)
      BY <1>3, <3>1 DEF n
    <3>7. windowEnabled => \A j \in 1..(i - 1) : frames'[j].windows < frames'[i].windows
      BY <3>1, <3>2
    <3>8. windowEnabled =>
            \A reg \in 8..23 : windows'[frames'[i].windows][reg - 8] = frames'[i].regs[reg]
      BY <3>1, <3>4
    <3> QED
      BY <3>1, <3>3, <3>5, <3>6, <3>7, <3>8
  <2>2. CASE i # n + 1
    <3>1. i \in 1..n /\ frames'[i] = frames[i]
          /\ \A j \in 1..(i - 1) : frames'[j] = frames[j]
      BY <2>2, <1>3, <1>4
    <3>2. /\ frames[i].regs[7] = MemorySlots - (i - 1)
          /\ ~windowEnabled => frames[i].windows = 1
          /\ windowEnabled =>
               /\ frames[i].windows < Len(windows)
               /\ \A j \in 1..(i - 1) : frames[j].windows < frames[i].windows
               /\ \A reg \in 8..23 : windows[frames[i].windows][reg - 8] = frames[i].regs[reg]
      BY <1>1, <3>1 DEF NestedFrames, n
    <3>3. frames[i].windows \in Nat \ {0}
      <4>1. frames[i] \in OpenCall
        BY <1>2, <3>1 DEF n
      <4> QED
        BY <4>1 DEF OpenCall
    <3>4. windowEnabled => frames[i].windows \in 1..(Len(windows) - 1)
                           /\ frames[i].windows < Len(windows')
      <4> SUFFICES ASSUME windowEnabled
                   PROVE  frames[i].windows \in 1..(Len(windows) - 1)
                          /\ frames[i].windows < Len(windows')
        OBVIOUS
      <4>1. Len(windows') = Len(windows) + 1 /\ frames[i].windows < Len(windows)
        BY <1>9, <3>2
      <4> QED
        BY <1>2, <3>3, <4>1
    <3>5. windowEnabled =>
            \A reg \in 8..23 : windows'[frames[i].windows][reg - 8] = frames[i].regs[reg]
      BY <1>9, <3>2, <3>4
    <3>6. windowEnabled =>
            \A j \in 1..(i - 1) : frames'[j].windows < frames[i].windows
      BY <3>1, <3>2
    <3> QED
      BY <3>1, <3>2, <3>4, <3>5, <3>6
  <2> QED
    BY <2>1, <2>2
<1> QED
  BY <1>1, <1>8, <1>11, <1>12

\* What a balanced return finds: its address, its caller's stack pointer and, with the
\* extension, its caller's window.
LEMMA ReturnFacts ==
  ASSUME CallInv, ~broken, ~broken', ReturnsBalanced, UNCHANGED windowEnabled
  PROVE  LET n == Len(frames)
             caller == frames[n]
         IN  /\ n \in Nat \ {0} /\ n = Len(returns)
             /\ pc' = caller.resume
             /\ r'[7] = MemorySlots - (n - 1)
             /\ fault' = fault
             /\ ~windowEnabled =>
                  UNCHANGED windows /\ \A reg \in 8..31 : r'[reg] = r[reg]
             /\ windowEnabled =>
                  /\ Len(windows) = caller.windows + 1
                  /\ Len(windows') = caller.windows
                  /\ \A d \in 1..caller.windows : \A lane \in 0..15 :
                       windows'[d][lane] = windows[d][lane]
                  /\ \A reg \in 8..23 : r'[reg] = windows[caller.windows][reg - 8]
                  /\ \A reg \in 24..31 : r'[reg] = r[reg - 16]
<1> DEFINE n == Len(frames)
           caller == frames[n]
           regs == [r EXCEPT ![7] = @ + 1]
<1>1. OneStack /\ NestedFrames /\ HandlerType /\ windowEnabled \in BOOLEAN
  BY DEF CallInv, MachineType
<1>2. /\ frames \in Seq(OpenCall) /\ returns \in Seq(Word) /\ r \in [Reg -> Word]
      /\ Len(windows) \in Nat
  BY <1>1 DEF CallInv, HistoryType, HandlerType
<1>3. RetToCaller /\ Len(windows) = EntryDepth
  BY DEF ReturnsBalanced
<1>4. n \in Nat \ {0} /\ n = Len(returns) /\ frames # <<>> /\ r[7] = MemorySlots - n
  BY <1>1, <1>2, <1>3 DEF RetToCaller, OneStack
<1>5. MemorySlots \in Nat /\ r[7] \in Word
  <2>1. 7 \in Reg
    BY DEF Reg
  <2> QED
    BY <1>2, <2>1, MemoryAssumption, WordFacts
<1>6. pc' = caller.resume
  <2>1. n \in 1..Len(returns)
    BY <1>4
  <2>2. memory[MemorySlots - n] = caller.resume
    BY <1>1, <2>1 DEF OneStack
  <2> QED
    BY <1>3, <1>4, <2>2 DEF RetToCaller, Goto
<1>7. /\ regs \in [Reg -> Word] /\ regs[7] = MemorySlots - (n - 1)
      /\ \A reg \in 8..31 : regs[reg] = r[reg]
  <2>1. r[7] + 1 = MemorySlots - (n - 1) /\ r[7] + 1 \in Word
    BY <1>4, <1>5, MemoryAssumption, WordFacts DEF Word
  <2>2. 7 \in Reg /\ \A reg \in 8..31 : reg \in Reg /\ reg # 7
    BY DEF Reg
  <2> QED
    BY <1>2, <2>1, <2>2, UpdateType
<1>8. LeaveWindow(regs)
  BY <1>3 DEF RetToCaller
<1>9. windowEnabled => Len(windows) = caller.windows + 1 /\ Len(windows) >= 2
  BY <1>3, <1>4, EntryDepthFacts
<1>10. caller.windows \in Nat \ {0}
  <2>1. n \in 1..Len(frames)
    BY <1>4
  <2>2. caller \in OpenCall
    BY <1>2, <2>1
  <2> QED
    BY <2>2 DEF OpenCall
<1> HIDE DEF regs, n, caller
<1>11. CASE ~windowEnabled
  <2>1. r' = regs /\ UNCHANGED <<windowState, fault>>
    BY <1>8, <1>11 DEF LeaveWindow, CanRestore
  <2> QED
    BY <1>4, <1>6, <1>7, <1>11, <2>1 DEF windowState, n, caller
<1>12. CASE windowEnabled
  <2>1. Len(windows) > 1 /\ RestorePreviousWindow(regs) /\ UNCHANGED fault
    BY <1>2, <1>8, <1>9, <1>12 DEF LeaveWindow, CanRestore
  <2>2. /\ Len(windows') = Len(windows) - 1
        /\ \A d \in 1..(Len(windows) - 1) : \A lane \in 0..15 :
             windows'[d][lane] = windows[d][lane]
        /\ \A reg \in 0..7 : r'[reg] = regs[reg]
        /\ \A reg \in 8..23 : r'[reg] = windows[Len(windows) - 1][reg - 8]
        /\ \A reg \in 24..31 : r'[reg] = regs[reg - 16]
    BY <1>1, <1>7, <2>1, RestoreFacts
  <2>3. Len(windows) - 1 = caller.windows
    BY <1>9, <1>10, <1>12
  <2>4. r'[7] = regs[7]
    BY <2>2
  <2>5. \A reg \in 24..31 : r'[reg] = r[reg - 16]
    <3> TAKE reg \in 24..31
    <3>1. reg - 16 \in 8..31
      OBVIOUS
    <3> QED
      BY <1>7, <2>2, <3>1
  <2> QED
    BY <1>4, <1>6, <1>7, <1>9, <1>12, <2>1, <2>2, <2>3, <2>4, <2>5 DEF n, caller
<1> QED
  BY <1>1, <1>11, <1>12

LEMMA ReturnKeeps ==
  ASSUME CallInv, ~broken, ~broken', ReturnsBalanced, UNCHANGED windowEnabled,
         frames' = Front(frames)
  PROVE  OneStack' /\ NestedFrames' /\ fault' \notin Damaged
<1> DEFINE n == Len(frames)
           caller == frames[n]
<1>1. OneStack /\ NestedFrames /\ fault \notin Damaged
  BY DEF CallInv
<1>2. /\ frames \in Seq(OpenCall) /\ returns \in Seq(Word)
  BY DEF CallInv, HistoryType, MachineType, HandlerType
<1>3. /\ n \in Nat \ {0} /\ n = Len(returns)
      /\ r'[7] = MemorySlots - (n - 1)
      /\ fault' = fault
      /\ ~windowEnabled => UNCHANGED windows
      /\ windowEnabled =>
           /\ Len(windows) = caller.windows + 1
           /\ Len(windows') = caller.windows
           /\ \A d \in 1..caller.windows : \A lane \in 0..15 :
                windows'[d][lane] = windows[d][lane]
  BY ReturnFacts
<1>4. Len(frames') = n - 1 /\ \A i \in 1..(n - 1) : frames'[i] = frames[i]
  BY <1>2, <1>3 DEF Front
<1>5. /\ Len(returns') = n - 1 /\ \A i \in 1..(n - 1) : returns'[i] = returns[i]
      /\ UNCHANGED memory
  BY <1>2, <1>3 DEF ReturnsBalanced, RetToCaller, ReturnsLeft, Front
<1>6. \A i \in 1..n : frames[i] \in OpenCall /\ frames[i].windows \in Nat \ {0}
  <2>1. \A i \in 1..n : frames[i] \in OpenCall
    BY <1>2
  <2> QED
    BY <2>1 DEF OpenCall
<1>7. n \in 1..n
  BY <1>3
<1> HIDE DEF n, caller
<1>8. windowEnabled => \A i \in 1..(n - 1) : frames[i].windows < caller.windows
  BY <1>1, <1>7 DEF NestedFrames, n, caller
<1>9. caller.windows \in Nat \ {0}
  BY <1>6, <1>7 DEF caller
<1>10. Len(windows') >= EntryDepth' /\ (~windowEnabled => Len(windows') = 1)
  <2>1. CASE ~windowEnabled
    <3>1. Len(windows') = 1
      BY <1>1, <1>3, <2>1 DEF OneStack
    <3> QED
      BY <2>1, <3>1 DEF EntryDepth
  <2>2. CASE windowEnabled /\ frames' = <<>>
    BY <1>3, <1>9, <2>2 DEF EntryDepth
  <2>3. CASE windowEnabled /\ frames' # <<>>
    <3>1. n - 1 \in 1..(n - 1)
      <4>1. n # 1
        <5> SUFFICES ASSUME n = 1 PROVE FALSE
          OBVIOUS
        <5>1. frames' \in Seq(OpenCall) /\ Len(frames') = 0
          BY <1>2, <1>4 DEF Front, n
        <5> QED
          BY <2>3, <5>1
      <4> QED
        BY <1>3, <4>1
    <3>2. Last(frames') = frames[n - 1]
      BY <1>4, <3>1 DEF Last
    <3>3. EntryDepth' = frames[n - 1].windows + 1
      BY <2>3, <3>2 DEF EntryDepth
    <3>4. frames[n - 1].windows < caller.windows /\ frames[n - 1].windows \in Nat
      BY <1>3, <1>6, <1>8, <2>3, <3>1
    <3> QED
      BY <1>3, <1>9, <2>3, <3>3, <3>4
  <2> QED
    BY <2>1, <2>2, <2>3 DEF CallInv, MachineType
<1>11. OneStack'
  <2>1. \A i \in 1..(n - 1) :
          returns'[i] = frames'[i].resume /\ memory'[MemorySlots - i] = frames'[i].resume
    <3> TAKE i \in 1..(n - 1)
    <3>1. i \in 1..Len(returns)
      BY <1>3
    <3> QED
      BY <1>1, <1>4, <1>5, <3>1 DEF OneStack
  <2> QED
    BY <1>3, <1>4, <1>5, <1>10, <2>1 DEF OneStack
<1>12. NestedFrames'
  <2> SUFFICES ASSUME NEW i \in 1..(n - 1)
               PROVE  /\ frames'[i].regs[7] = MemorySlots - (i - 1)
                      /\ ~windowEnabled => frames'[i].windows = 1
                      /\ windowEnabled =>
                           /\ frames'[i].windows < Len(windows')
                           /\ \A j \in 1..(i - 1) : frames'[j].windows < frames'[i].windows
                           /\ \A reg \in 8..23 :
                                windows'[frames'[i].windows][reg - 8] = frames'[i].regs[reg]
    BY <1>4 DEF NestedFrames
  <2>1. /\ i \in 1..n /\ frames'[i] = frames[i]
        /\ \A j \in 1..(i - 1) : frames'[j] = frames[j]
    BY <1>3, <1>4
  <2>2. /\ frames[i].regs[7] = MemorySlots - (i - 1)
        /\ ~windowEnabled => frames[i].windows = 1
        /\ windowEnabled =>
             /\ \A j \in 1..(i - 1) : frames[j].windows < frames[i].windows
             /\ \A reg \in 8..23 : windows[frames[i].windows][reg - 8] = frames[i].regs[reg]
    BY <1>1, <2>1 DEF NestedFrames, n
  <2>3. windowEnabled => frames[i].windows < Len(windows')
    BY <1>3, <1>8
  <2>4. windowEnabled =>
          \A reg \in 8..23 : windows'[frames[i].windows][reg - 8] = frames[i].regs[reg]
    <3> SUFFICES ASSUME windowEnabled, NEW reg \in 8..23
                 PROVE  windows'[frames[i].windows][reg - 8] = frames[i].regs[reg]
      OBVIOUS
    <3>1. frames[i].windows \in Nat \ {0} /\ frames[i].windows < caller.windows
      BY <1>6, <1>8, <2>1
    <3>2. frames[i].windows \in 1..caller.windows /\ reg - 8 \in 0..15
      BY <1>9, <3>1
    <3> QED
      BY <1>3, <2>2, <3>2
  <2>5. windowEnabled => \A j \in 1..(i - 1) : frames'[j].windows < frames[i].windows
    BY <2>1, <2>2
  <2> QED
    BY <2>1, <2>2, <2>3, <2>4, <2>5
<1> QED
  BY <1>1, <1>3, <1>11, <1>12

-----------------------------------------------------------------------------
(***************************************************************************)
(* Which step does what.                                                   *)
(***************************************************************************)

\* An exception that changes nothing else and is not one of a damaged stack.
LEMMA FailQuiet ==
  ASSUME NEW reason, reason \notin Damaged, FailWith(reason)
  PROVE  Quiet
BY DEF FailWith, Quiet, windowState

LEMMA SyscallQuiet ==
  ASSUME HandlerType, Running, Syscall
  PROVE  Quiet
<1>1. ASSUME NEW value, SetR0(value) PROVE Quiet
  <2>1. r' = [r EXCEPT ![0] = value] /\ r \in [Reg -> Word] /\ 7 \in Reg /\ fault = "none"
    BY <1>1 DEF SetR0, HandlerType, Running, Reg
  <2>2. r'[7] = r[7]
    BY <2>1
  <2> QED
    BY <1>1, <2>1, <2>2, DamageNames DEF SetR0, Quiet, windowState
<1>2. ASSUME NEW reason \in {HostedSyscall, ConsoleSyscall, Exhausted, EmptyCharacter,
                             NotANumber, Unterminated},
             FailWith(reason)
      PROVE  Quiet
  BY <1>2, FailQuiet, DamageNames
<1> QED
  BY <1>1, <1>2
     DEF Syscall, Hosted, ReadNumber, ReadCharacter, WriteNumber, WriteCharacter,
         WriteString, OtherService, InputExhausted, UseNumber, UseCharacter, Emit, Fail

\* RET and CALL: the damage they can find is there only for a broken discipline.
LEMMA RetShape ==
  ASSUME CallInv, Running, Ret, ~broken' => ~broken, ~broken' => Len(windows) = EntryDepth
  PROVE  Quiet \/ ReturnsBalanced
<1>1. CASE RetToHost
  BY <1>1, DamageNames DEF RetToHost, Quiet, Running, windowState
<1>2. CASE RetOutside
  <2>1. ASSUME ~broken' PROVE FALSE
    <3>1. r[7] = MemorySlots - Len(returns) /\ returns # <<>> /\ r[7] > MemorySlots - 1
      BY <1>2, <2>1 DEF RetOutside, CallInv, OneStack
    <3>2. returns \in Seq(Word)
      BY DEF CallInv, MachineType, HandlerType
    <3>3. Len(returns) \in Nat \ {0}
      BY <3>1, <3>2
    <3> QED
      BY <3>1, <3>3, MemoryAssumption, WordFacts
  <2> QED
    BY <1>2, <2>1 DEF RetOutside, Fail, FailWith, Quiet, windowState
<1>3. CASE RetToCaller
  BY <1>3 DEF ReturnsBalanced
<1> QED
  BY <1>1, <1>2, <1>3 DEF Ret

LEMMA CallShape ==
  ASSUME CallInv, Running, NEW target, CallTo(target), ~broken' => ~broken
  PROVE  Quiet \/ EnterCallee(target)
<1>1. CASE Fail(ReturnOverflow)
  BY <1>1, FailQuiet, DamageNames DEF Fail
<1>2. CASE r[7] > MemorySlots /\ Fail(Overrun)
  <2>1. ASSUME ~broken' PROVE FALSE
    <3>1. r[7] = MemorySlots - Len(returns)
      BY <2>1 DEF CallInv, OneStack
    <3>2. Len(returns) \in Nat
      BY DEF CallInv, MachineType, HandlerType
    <3> QED
      BY <1>2, <3>1, <3>2, MemoryAssumption, WordFacts
  <2> QED
    BY <1>2, <2>1 DEF Fail, FailWith, Quiet, windowState
<1> QED
  BY <1>1, <1>2 DEF CallTo

\* WINNEW and WINPREV.
LEMMA WindowShape ==
  ASSUME CallInv, Running, NEW i, ExecuteWindow(i), ~broken' => ~broken,
         i.op = "WINPREV" /\ ~broken' => Len(windows) # EntryDepth
  PROVE  Quiet \/ MovesWindows
<1>1. CASE i.op = "WINNEW" /\ WinNew
  BY <1>1 DEF ExecuteWindow, WinNew, MovesWindows
<1>2. CASE WinNewDisabled
  BY <1>2, DamageNames DEF ExecuteWindow, WinNewDisabled, Throw, Quiet
<1>3. CASE i.op = "WINPREV" /\ WinPrev
  BY <1>3 DEF ExecuteWindow, WinPrev, CanRestore, MovesWindows
<1>4. CASE i.op = "WINPREV" /\ WinPrevUnderflow
  <2>1. ASSUME ~broken' PROVE FALSE
    <3>1. /\ EntryDepth \in Nat \ {0} /\ Len(windows) \in Nat
          /\ Len(windows) >= EntryDepth
          /\ ~windowEnabled => EntryDepth = 1 /\ Len(windows) = 1
      BY <2>1, EntryDepthFacts
    <3>2. ~windowEnabled \/ ~(Len(windows) > 1)
      BY <1>4 DEF WinPrevUnderflow, CanRestore
    <3>3. Len(windows) # EntryDepth
      BY <1>4, <2>1
    <3>4. ~(Len(windows) > 1) => Len(windows) = EntryDepth
      BY <3>1
    <3> QED
      BY <3>1, <3>2, <3>3, <3>4
  <2> QED
    BY <1>4, <2>1 DEF ExecuteWindow, WinPrevUnderflow, Throw, Quiet
<1> QED
  BY <1>1, <1>2, <1>3, <1>4 DEF ExecuteWindow

\* Any other instruction: it may move R7 only by leaving the discipline.
LEMMA AluShape ==
  ASSUME Running, NEW i, ExecuteAlu(i), ~broken' => r'[7] = r[7]
  PROVE  Quiet
<1>1. UNCHANGED <<returns, memory, windows>>
  BY DEF ExecuteAlu, windowState
<1>2. fault' \in {"none", Alu!DivideByZero}
  BY DEF Running, ExecuteAlu, Alu!MovImmediate, Alu!NoFlags, Alu!Add, Alu!AddTo,
         Alu!SetFlags, Alu!Compare, Alu!UDiv, Alu!Halt
<1> QED
  BY <1>1, <1>2, DamageNames DEF Quiet

LEMMA LoadStoreShape ==
  ASSUME MachineType, Running, NEW i \in Instruction,
         (i.op = "LDQ" /\ Load(i)) \/ (i.op = "STQ" /\ Store(i)),
         ~broken' => r'[7] = r[7],
         i.op = "STQ" /\ ~broken' => ~(Address(i) >= r[7])
  PROVE  Quiet \/ StoresBelow
<1>1. CASE Fail(AccessOutside)
  BY <1>1, FailQuiet, DamageNames DEF Fail
<1>2. CASE i.op = "LDQ" /\ Load(i) /\ ~Fail(AccessOutside)
  BY <1>2, DamageNames DEF Load, Quiet, Running, windowState
<1>3. CASE i.op = "STQ" /\ Store(i) /\ ~Fail(AccessOutside)
  <2> DEFINE slot == Address(i)
  <2>1. i.reg \in Reg /\ i.rm \in Reg /\ i.imm \in Int /\ 7 \in Reg
    BY DEF Instruction, Reg
  <2>2. r[i.rm] \in Nat /\ r[i.reg] \in Word /\ r[7] \in Nat
    BY <2>1, WordFacts DEF MachineType, HandlerType
  <2>3. r[i.rm] + i.imm \in Int
    BY <2>1, <2>2
  <2>4. slot \in Word
    BY <2>3, RemainderInWord DEF Address
  <2>5. memory' = [memory EXCEPT ![slot] = r[i.reg]] /\ slot < MemorySlots
        /\ UNCHANGED <<returns, windows, r, fault>>
    BY <1>3 DEF Store, windowState
  <2>6. ~broken' => ~(slot >= r[7])
    BY <1>3
  <2> HIDE DEF slot
  <2>7. slot \in 0..(MemorySlots - 1)
    BY <2>4, <2>5, MemoryAssumption, WordFacts DEF Word
  <2>8. ~broken' => slot < r[7]
    BY <2>2, <2>6, <2>7, MemoryAssumption, WordFacts
  <2> QED
    BY <2>2, <2>5, <2>7, <2>8 DEF StoresBelow
<1> QED
  BY <1>1, <1>2, <1>3

\* A step of the run, with its history.
LEMMA StepShape ==
  ASSUME CallInv, CallNext
  PROVE  /\ UNCHANGED windowEnabled
         /\ ~broken' => ~broken
         /\ StackStep
<1>1. MachineType /\ HandlerType /\ Running
  BY DEF CallInv, MachineType, CallNext, RunNext
<1>2. ~broken' => ~broken /\ ~(pc < Len(code) /\ Offends(Fetched))
  BY DEF CallNext, History, CallInv, HistoryType
<1>3. CASE LeaveImage \/ OutOfSteps
  <2>1. ASSUME NEW reason \in {PcOutside, NoReturn}, Fail(reason) PROVE Quiet
    BY <2>1, FailQuiet, DamageNames DEF Fail
  <2> QED
    BY <1>2, <1>3, <2>1 DEF LeaveImage, OutOfSteps, settings, StackStep
<1>4. CASE Begin
  <2> DEFINE i == Fetched
  <2>1. i \in Instruction /\ NextPc \in Word
    BY <1>1, <1>4, FetchedType DEF Begin
  <2>2. ~broken' => ~broken /\ ~Offends(i)
    BY <1>2, <1>4 DEF Begin
  <2>3. UNCHANGED windowEnabled
    BY <1>4 DEF Begin, settings
  <2> HIDE DEF i
  <2>4. CASE i.op = "RET" /\ Ret
    <3>1. ~broken' => Len(windows) = EntryDepth
      BY <2>2, <2>4 DEF Offends, ReturnsUnbalanced
    <3> QED
      BY <1>1, <2>2, <2>3, <2>4, <3>1, RetShape DEF StackStep
  <2>5. ASSUME NEW target, CallTo(target) PROVE Quiet \/ EnterCallee(target)
    BY <1>1, <2>2, <2>5, CallShape
  <2>6. ASSUME NEW target, Jump(target) PROVE Quiet
    BY <1>1, <2>6, DamageNames DEF Jump, Quiet, Running, windowState
  <2>7. CASE Transfer(i)
    BY <2>1, <2>2, <2>3, <2>4, <2>5, <2>6, <2>7
       DEF Transfer, Call, CallAbsolute, JumpIf, StackStep
  <2>8. CASE Syscall
    BY <1>1, <2>2, <2>3, <2>8, SyscallQuiet DEF StackStep
  <2>9. CASE ExecuteAlu(i)
    <3>1. i.op \notin {"CALL", "CALLA", "RET"}
      BY <2>9 DEF ExecuteAlu
    <3>2. ~broken' => r'[7] = r[7]
      BY <2>2, <3>1 DEF Offends, MovesStack
    <3> QED
      BY <1>1, <2>2, <2>3, <2>9, <3>2, AluShape DEF StackStep
  <2>10. CASE ExecuteWindow(i)
    <3>1. i.op = "WINPREV" /\ ~broken' => Len(windows) # EntryDepth
      BY <2>2 DEF Offends, LeavesWindows
    <3> QED
      BY <1>1, <2>2, <2>3, <2>10, <3>1, WindowShape DEF StackStep
  <2>11. CASE (i.op = "LDQ" /\ Load(i)) \/ (i.op = "STQ" /\ Store(i))
    <3>1. i.op \notin {"CALL", "CALLA", "RET"}
      BY <2>11
    <3>2. /\ ~broken' => r'[7] = r[7]
          /\ i.op = "STQ" /\ ~broken' => ~(Address(i) >= r[7])
      BY <2>2, <3>1 DEF Offends, MovesStack, StoresOverReturn
    <3> QED
      BY <1>1, <2>1, <2>2, <2>3, <2>11, <3>2, LoadStoreShape DEF StackStep
  <2>12. Transfer(i) \/ Syscall \/ Execute(i)
    BY <1>4 DEF Begin, i
  <2>13. CASE Execute(i)
    <3>1. \/ ExecuteAlu(i)
          \/ ExecuteWindow(i)
          \/ (i.op = "LDQ" /\ Load(i)) \/ (i.op = "STQ" /\ Store(i))
      BY <2>13 DEF Execute
    <3> QED
      BY <2>9, <2>10, <2>11, <3>1
  <2> QED
    BY <2>7, <2>8, <2>12, <2>13
<1> QED
  BY <1>3, <1>4 DEF CallNext, RunNext

-----------------------------------------------------------------------------
\* The history of a call, and of a return.
LEMMA CallHistory ==
  ASSUME MachineType, NEW target, EnterCallee(target), History
  PROVE  frames' = Append(frames, [resume |-> NextPc, regs |-> r, windows |-> Len(windows)])
<1>1. returns \in Seq(Word) /\ returns' = Append(returns, NextPc)
  BY DEF MachineType, HandlerType, EnterCallee
<1>2. Called
  BY <1>1 DEF Called
<1> QED
  BY <1>2 DEF History

LEMMA ReturnHistory ==
  ASSUME MachineType, ReturnsBalanced, History
  PROVE  frames' = Front(frames)
<1>1. returns \in Seq(Word) /\ returns # <<>> /\ returns' = Front(returns)
  BY DEF MachineType, HandlerType, ReturnsBalanced, RetToCaller, ReturnsLeft
<1>2. Len(returns) \in Nat \ {0}
  BY <1>1
<1>3. Len(returns') = Len(returns) - 1
  BY <1>1, FrontLength
<1>4. Left /\ ~Called
  BY <1>2, <1>3 DEF Left, Called
<1> QED
  BY <1>4 DEF History

LEMMA HistoryTypeStep ==
  ASSUME CallInv, CallNext
  PROVE  HistoryType'
<1>1. /\ frames \in Seq(OpenCall) /\ History /\ broken \in BOOLEAN
      /\ MachineType
  BY DEF CallInv, HistoryType, CallNext
<1>2. broken' \in BOOLEAN
  BY <1>1 DEF History
<1>3. CASE UNCHANGED frames
  BY <1>1, <1>2, <1>3 DEF HistoryType
<1>4. CASE UNCHANGED returns
  BY <1>1, <1>3, <1>4, NoCall
<1>5. ASSUME NEW target, NextPc \in Word, EnterCallee(target) PROVE HistoryType'
  <2> DEFINE open == [resume |-> NextPc, regs |-> r, windows |-> Len(windows)]
  <2>1. frames' = Append(frames, open)
    BY <1>1, <1>5, CallHistory
  <2>2. Len(windows) \in Nat \ {0} /\ r \in [Reg -> Word]
    BY <1>1 DEF MachineType, HandlerType
  <2>3. open \in OpenCall
    BY <1>5, <2>2 DEF OpenCall
  <2> HIDE DEF open
  <2> QED
    BY <1>1, <1>2, <2>1, <2>3 DEF HistoryType
<1>6. CASE ReturnsBalanced
  <2>1. frames' = Front(frames)
    BY <1>1, <1>6, ReturnHistory
  <2>2. Front(frames) \in Seq(OpenCall)
    BY <1>1 DEF Front
  <2> QED
    BY <1>2, <2>1, <2>2 DEF HistoryType
<1> QED
  BY <1>4, <1>5, <1>6, StepShape DEF StackStep, Quiet, StoresBelow, MovesWindows

LEMMA CallInvInit == CallInit => CallInv
<1> SUFFICES ASSUME CallInit PROVE CallInv
  OBVIOUS
<1>1. MachineType
  BY MachineTypeInit DEF CallInit
<1>2. /\ frames = <<>> /\ broken = FALSE /\ returns = <<>> /\ r[7] = MemorySlots
      /\ Len(windows) = 1 /\ fault = "none"
  BY DEF CallInit, RunInit, WindowInit
<1>3. HistoryType
  <2>1. <<>> \in Seq(OpenCall)
    OBVIOUS
  <2>2. frames \in Seq(OpenCall)
    BY <1>2, <2>1
  <2> QED
    BY <1>2, <2>2 DEF HistoryType
<1>4. EntryDepth = 1
  BY <1>2 DEF EntryDepth
<1>5. OneStack
  BY <1>2, <1>4, MemoryAssumption, WordFacts DEF OneStack
<1>6. NestedFrames
  BY <1>2 DEF NestedFrames
<1> QED
  BY <1>1, <1>2, <1>3, <1>5, <1>6, DamageNames DEF CallInv

LEMMA CallInvStep == CallInv /\ [CallNext]_callVars => CallInv'
<1> SUFFICES ASSUME CallInv, [CallNext]_callVars PROVE CallInv'
  OBVIOUS
<1>1. CASE CallNext
  <2>1. MachineType /\ MachineType'
    BY <1>1, MachineTypeStep DEF CallInv, CallNext
  <2>2. HistoryType'
    BY <1>1, HistoryTypeStep
  <2>3. History
    BY <1>1 DEF CallNext
  <2>4. ASSUME ~broken' PROVE OneStack' /\ NestedFrames' /\ fault' \notin Damaged
    <3>1. ~broken /\ UNCHANGED windowEnabled
      BY <1>1, <2>4, StepShape
    <3>2. CASE Quiet
      BY <2>1, <2>3, <2>4, <3>1, <3>2, NoCall, QuietKeeps DEF Quiet
    <3>3. CASE StoresBelow
      BY <2>1, <2>3, <2>4, <3>1, <3>3, NoCall, StoreKeeps DEF StoresBelow
    <3>4. CASE MovesWindows
      BY <2>1, <2>3, <2>4, <3>1, <3>4, NoCall, WindowsKeep DEF MovesWindows
    <3>5. CASE ReturnsBalanced
      BY <2>1, <2>3, <2>4, <3>1, <3>5, ReturnHistory, ReturnKeeps
    <3>6. ASSUME NEW target, NextPc \in Word, EnterCallee(target)
          PROVE  OneStack' /\ NestedFrames' /\ fault' \notin Damaged
      BY <2>1, <2>3, <2>4, <3>1, <3>6, CallHistory, CallKeeps
    <3> QED
      BY <1>1, <3>2, <3>3, <3>4, <3>5, <3>6, StepShape DEF StackStep
  <2> QED
    BY <2>1, <2>2, <2>4 DEF CallInv
<1>2. CASE UNCHANGED callVars
  <2>1. MachineType'
    BY <1>2, MachineTypeStep DEF CallInv, callVars
  <2>2. UNCHANGED <<returns, memory, r, windows, windowEnabled, fault, frames, broken>>
    BY <1>2 DEF callVars, runVars
  <2>3. HistoryType'
    BY <2>2 DEF CallInv, HistoryType
  <2>4. EntryDepth' = EntryDepth
    BY <2>2 DEF EntryDepth
  <2>5. (OneStack' <=> OneStack) /\ (NestedFrames' <=> NestedFrames)
    BY <2>2, <2>4 DEF OneStack, NestedFrames
  <2> QED
    BY <2>1, <2>2, <2>3, <2>5 DEF CallInv
<1> QED
  BY <1>1, <1>2

LEMMA CallInvariant == CallSpec => []CallInv
BY CallInvInit, CallInvStep, PTL DEF CallSpec

\* The three call stacks of run_function agree at every depth of calls, whatever a
\* program does that neither stores over its return addresses, nor moves R7 by hand,
\* nor leaves the window its activation began with (CALL, CALLA, RET, WINNEW, WINPREV).
THEOREM OneCallStack == CallSpec => []StacksAgree
<1>1. CallInv => StacksAgree
  BY DEF CallInv, StacksAgree
<1> QED
  BY <1>1, CallInvariant, PTL

\* Such a program never meets a fault of a damaged return stack.
THEOREM NeverDamaged == CallSpec => []StackNeverDamaged
<1>1. CallInv => StackNeverDamaged
  BY DEF CallInv, StackNeverDamaged, Damaged
<1> QED
  BY <1>1, CallInvariant, PTL

\* A RET of such a program resumes the caller with its stack pointer and its window:
\* incoming and local registers as they were at the call, outgoing ones the callee's
\* incoming.
THEOREM ReturnsResume == CallSpec => ResumesCaller
<1>1. CallInv /\ [CallNext]_callVars => [ResumesCallerStep]_callVars
  <2> SUFFICES ASSUME CallInv, CallNext, Left, ~broken'
               PROVE  ResumesCallerStep
    BY DEF ResumesCallerStep
  <2> DEFINE n == Len(frames)
             caller == frames[n]
  <2>1. /\ MachineType /\ returns \in Seq(Word) /\ Len(returns) \in Nat
        /\ frames \in Seq(OpenCall)
    BY DEF CallInv, MachineType, HandlerType, HistoryType
  <2>2. Len(returns') = Len(returns) - 1
    BY DEF Left
  <2>3. ~(UNCHANGED returns)
    BY <2>1, <2>2
  <2>4. ASSUME NEW target, EnterCallee(target) PROVE FALSE
    <3>1. Len(returns') = Len(returns) + 1
      BY <2>1, <2>4 DEF EnterCallee
    <3> QED
      BY <2>1, <2>2, <3>1
  <2>5. ReturnsBalanced /\ ~broken /\ UNCHANGED windowEnabled
    BY <2>3, <2>4, StepShape DEF StackStep, Quiet, StoresBelow, MovesWindows
  <2>6. OneStack /\ NestedFrames
    BY <2>5 DEF CallInv
  <2>7. /\ n \in Nat \ {0} /\ n = Len(returns)
        /\ pc' = caller.resume
        /\ r'[7] = MemorySlots - (n - 1)
        /\ ~windowEnabled =>
             UNCHANGED windows /\ \A reg \in 8..31 : r'[reg] = r[reg]
        /\ windowEnabled =>
             /\ Len(windows') = caller.windows
             /\ \A reg \in 8..23 : r'[reg] = windows[caller.windows][reg - 8]
             /\ \A reg \in 24..31 : r'[reg] = r[reg - 16]
    BY <2>5, ReturnFacts
  <2>8. n \in 1..n
    BY <2>7
  <2> HIDE DEF n
  <2>9. /\ caller.regs[7] = MemorySlots - (n - 1)
        /\ ~windowEnabled => caller.windows = 1 /\ Len(windows) = 1
        /\ windowEnabled =>
             \A reg \in 8..23 : windows[caller.windows][reg - 8] = caller.regs[reg]
    BY <2>6, <2>8 DEF NestedFrames, OneStack, n
  <2>10. Last(frames) = caller
    BY DEF Last, n
  <2> HIDE DEF caller
  <2>11. Len(windows') = caller.windows
    BY <2>1, <2>5, <2>7, <2>9 DEF MachineType
  <2> QED
    BY <2>7, <2>9, <2>10, <2>11 DEF ResumesCallerStep
<1> QED
  BY <1>1, CallInvariant, PTL DEF CallSpec, ResumesCaller
=============================================================================
