---------------------------- MODULE StackFrames ----------------------------
(***************************************************************************)
(* The code the LLVM back end puts around a function body, run on the two  *)
(* registers and the memory it works with: emitPrologue, emitEpilogue and  *)
(* eliminateCallFramePseudoInstr of SeaBirdFrameLowering.cpp,              *)
(* eliminateFrameIndex of SeaBirdRegisterInfo.cpp, LowerCall and           *)
(* LowerFormalArguments of SeaBirdISelLowering.cpp.                        *)
(*                                                                         *)
(* An address is the number of a pointer-sized slot.  LLVM decides, per    *)
(* function, the size of the frame, what lies in it and where frame        *)
(* accesses stand; it gives the frame a multiple of sixteen bytes.  The    *)
(* body of a function is any sequence of accesses, allocations and calls.  *)
(*                                                                         *)
(* An activation carries, beside its place in the code, what its caller    *)
(* passed and what it has stored itself: the values it must find again.    *)
(***************************************************************************)
EXTENDS Integers, Sequences

CONSTANTS
  Block,          \* slots in sixteen bytes: 2 in SB64, 4 in SB32
  Function,       \* the compiled functions
  FramePointer,   \* those with hasFP: dynamic allocas, or their frame address taken
  StackSize,      \* MachineFrameInfo::getStackSize of each, in slots
  Locals,         \* frame objects of each, one slot each
  StackArguments, \* arguments each function takes on the stack
  Value,          \* what a program stores
  StackTop,       \* R7 where the outermost function is entered
  MaxCalls, MaxBuffers  \* bounds on open calls and on allocas of an activation

ASSUME BlockAssumption == Block \in Nat \ {0}
ASSUME FunctionAssumption ==
  /\ FramePointer \subseteq Function
  /\ StackSize \in [Function -> Nat]
  /\ Locals \in [Function -> Nat]
  /\ StackArguments \in [Function -> Nat]
  /\ \A f \in Function : StackSize[f] % Block = 0 /\ Locals[f] <= StackSize[f]
ASSUME ValueAssumption == Value \subseteq Nat
ASSUME StackAssumption == StackTop \in Nat
ASSUME BoundAssumption == MaxCalls \in Nat \ {0} /\ MaxBuffers \in Nat

VARIABLES
  r6, r7,     \* the frame and the stack pointer
  memory,
  calls,      \* the activations, outermost first
  displaced   \* history: an object was stored while R7 was moved under it

frameVars == <<r6, r7, memory, calls, displaced>>

Slot == 0..(StackTop - 1)
Unset == -1
Phase == {"entry", "body", "calling", "returned", "left"}

Activation(f, entry, saved, arguments) ==
  [fn |-> f, phase |-> "entry", callee |-> f, passed |-> <<>>,
   entry |-> entry, saved |-> saved, arguments |-> arguments,
   objects |-> [o \in 1..Locals[f] |-> Unset], buffers |-> <<>>]

Top == calls[Len(calls)]
SetTop(activation) == calls' = [calls EXCEPT ![Len(calls)] = activation]
Runs == Top.phase \in {"body", "calling", "returned"}
HasFP(f) == f \in FramePointer

\* The return address CALL pushes for the activation at this depth.
ReturnMark(depth) == -1 - depth

\* Sixteen bytes for the caller's R6.
SavedPointer(f) == IF HasFP(f) THEN Block ELSE 0

\* alignTo(CCInfo.getStackSize(), 16).
CallFrame_Reserved(f) == 0
CallFrame(f) == ((StackArguments[f] + Block - 1) \div Block) * Block

-----------------------------------------------------------------------------
(***************************************************************************)
(* eliminateFrameIndex.  Objects of the function lie below the address R7  *)
(* had at entry; the fixed objects of LowerFormalArguments above it, one   *)
(* slot up for the return address.                                         *)
(***************************************************************************)
FrameRegister(f) == IF HasFP(f) THEN r6 ELSE r7

FrameAddress_NoSize(offset) == FrameRegister(Top.fn) + offset
FrameAddress(offset) == FrameRegister(Top.fn) + StackSize[Top.fn] + offset

ObjectAddress(o) == FrameAddress(-o)

ArgumentOffset_NoReturnAddress(k) == k - 1
ArgumentOffset(k) == k
ArgumentAddress(k) == FrameAddress(ArgumentOffset(k))

\* Between the call-frame pseudo instructions R7 is lower, and the address of a
\* function without frame pointer does not allow for it (SPAdj is unused).
Moved ==
  /\ Top.phase \in {"calling", "returned"}
  /\ ~HasFP(Top.fn)
  /\ CallFrame(Top.callee) # 0

-----------------------------------------------------------------------------
\* Registers and memory hold what the code puts there; R7 never rises above the
\* return address of the function that runs.
FrameTypeOK ==
  /\ memory \in [Slot -> Int]
  /\ r6 \in Int
  /\ r7 \in 0..StackTop
  /\ Len(calls) \in 1..MaxCalls
  /\ \A i \in 1..Len(calls) :
       /\ calls[i].fn \in Function /\ calls[i].callee \in Function
       /\ calls[i].phase \in Phase
       /\ calls[i].entry \in 0..StackTop
       /\ Len(calls[i].arguments) = StackArguments[calls[i].fn]
       /\ i < Len(calls) => calls[i].phase = "calling"
  /\ r7 <= Top.entry
  /\ displaced \in BOOLEAN

\* The host enters a function that takes nothing on the stack.
FrameInit ==
  /\ r6 = 0
  /\ r7 = StackTop
  /\ memory = [slot \in Slot |-> 0]
  /\ \E f \in Function :
       /\ StackArguments[f] = 0
       /\ calls = << Activation(f, StackTop, 0, <<>>) >>
  /\ displaced = FALSE

\* The stack of the model is finite; nothing checks the stack of the program.
Room(n) == r7 >= n

\* emitPrologue.
PrologueMemory(f) ==
  IF HasFP(f) THEN [memory EXCEPT ![r7 - SavedPointer(f)] = r6] ELSE memory

Prologue ==
  LET f == Top.fn
      bottom == r7 - SavedPointer(f) - StackSize[f]
  IN  /\ Top.phase = "entry"
      /\ Room(SavedPointer(f) + StackSize[f])
      /\ r7' = bottom
      /\ r6' = IF HasFP(f) THEN bottom ELSE r6
      /\ memory' = PrologueMemory(f)
      /\ SetTop([Top EXCEPT !.phase = "body"])
      /\ UNCHANGED displaced

\* A spill, or a store to a local variable.
StoreObject(o, value) ==
  /\ Runs
  /\ ObjectAddress(o) \in Slot
  /\ memory' = [memory EXCEPT ![ObjectAddress(o)] = value]
  /\ SetTop([Top EXCEPT !.objects[o] = value])
  /\ displaced' = (displaced \/ Moved)
  /\ UNCHANGED <<r6, r7>>

\* DYNAMIC_STACKALLOC, expanded: R7 moves down and is the address of the buffer.
Allocate(n) ==
  /\ Top.phase = "body" /\ HasFP(Top.fn)
  /\ Len(Top.buffers) < MaxBuffers
  /\ Room(n * Block)
  /\ r7' = r7 - n * Block
  /\ SetTop([Top EXCEPT !.buffers = Append(@, [at |-> r7', value |-> Unset])])
  /\ UNCHANGED <<r6, memory, displaced>>

StoreBuffer(b, value) ==
  /\ Runs
  /\ memory' = [memory EXCEPT ![Top.buffers[b].at] = value]
  /\ SetTop([Top EXCEPT !.buffers[b].value = value])
  /\ UNCHANGED <<r6, r7, displaced>>

\* ADJCALLSTACKDOWN.
StartCall(g) ==
  /\ Top.phase = "body"
  /\ Room(CallFrame(g))
  /\ r7' = r7 - CallFrame(g)
  /\ SetTop([Top EXCEPT !.phase = "calling", !.callee = g,
                        !.passed = [k \in 1..StackArguments[g] |-> Unset]])
  /\ UNCHANGED <<r6, memory, displaced>>

StoreArgument(k, value) ==
  /\ Top.phase = "calling"
  /\ memory' = [memory EXCEPT ![r7 + k - 1] = value]
  /\ SetTop([Top EXCEPT !.passed[k] = value])
  /\ UNCHANGED <<r6, r7, displaced>>

\* CALL, once every argument is stored.
CallFunction ==
  /\ Top.phase = "calling"
  /\ Len(calls) < MaxCalls
  /\ \A k \in DOMAIN Top.passed : Top.passed[k] # Unset
  /\ Room(1)
  /\ r7' = r7 - 1
  /\ memory' = [memory EXCEPT ![r7 - 1] = ReturnMark(Len(calls))]
  /\ calls' = Append(calls, Activation(Top.callee, r7 - 1, r6, Top.passed))
  /\ UNCHANGED <<r6, displaced>>

\* emitEpilogue.
FrameBottom_StackPointer(f) == r7
FrameBottom_AlwaysSaved(f) == IF HasFP(f) THEN r6 ELSE r7 + Block
FrameBottom(f) == FrameRegister(f)

Epilogue ==
  LET f == Top.fn
      frame == FrameBottom(f) + StackSize[f]
  IN  /\ Top.phase = "body"
      /\ r7' = frame + SavedPointer(f)
      /\ r6' = IF HasFP(f) THEN memory[frame] ELSE r6
      /\ SetTop([Top EXCEPT !.phase = "left"])
      /\ UNCHANGED <<memory, displaced>>

\* RET.  The outermost function returns to the host and the run ends.
Return ==
  /\ Top.phase = "left" /\ Len(calls) > 1
  /\ r7' = r7 + 1
  /\ calls' = [SubSeq(calls, 1, Len(calls) - 1)
                 EXCEPT ![Len(calls) - 1].phase = "returned"]
  /\ UNCHANGED <<r6, memory, displaced>>

\* ADJCALLSTACKUP.
EndCall ==
  /\ Top.phase = "returned"
  /\ r7' = r7 + CallFrame(Top.callee)
  /\ SetTop([Top EXCEPT !.phase = "body"])
  /\ UNCHANGED <<r6, memory, displaced>>

FrameNext ==
  \/ Prologue
  \/ \E o \in DOMAIN Top.objects, value \in Value : StoreObject(o, value)
  \/ \E n \in 1..2 : Allocate(n)
  \/ \E b \in DOMAIN Top.buffers, value \in Value : StoreBuffer(b, value)
  \/ \E g \in Function : StartCall(g)
  \/ \E k \in DOMAIN Top.passed, value \in Value : StoreArgument(k, value)
  \/ CallFunction
  \/ Epilogue
  \/ Return
  \/ EndCall

FrameSpec == FrameInit /\ [][FrameNext]_frameVars

-----------------------------------------------------------------------------
\* What a function has stored in its frame it finds again, whatever it has called
\* and allocated since, as long as objects are not stored between the call-frame
\* pseudo instructions of a function without frame pointer (eliminateFrameIndex
\* against the prologue and the call sequence).
ObjectsReachable ==
  ~displaced /\ Runs /\ ~Moved =>
    \A o \in DOMAIN Top.objects :
      Top.objects[o] # Unset => memory[ObjectAddress(o)] = Top.objects[o]

\* A function without frame pointer finds every stack argument where its caller
\* stored it (LowerCall against LowerFormalArguments).
ArgumentsReachable ==
  ~displaced /\ Runs /\ ~Moved /\ ~HasFP(Top.fn) =>
    \A k \in DOMAIN Top.arguments : memory[ArgumentAddress(k)] = Top.arguments[k]

\* A dynamic allocation keeps its contents until its function returns, through
\* further allocations, calls and their arguments.
BuffersKept ==
  ~displaced =>
    \A i \in 1..Len(calls) : \A b \in DOMAIN calls[i].buffers :
      LET buffer == calls[i].buffers[b]
      IN  calls[i].phase # "left" /\ buffer.value # Unset
            => memory[buffer.at] = buffer.value

\* RET finds the return address of its own call, and hands R6 and R7 back as they
\* were before the call (emitPrologue, emitEpilogue, any calls in between).
ReturnRestores ==
  ~displaced /\ Top.phase = "left" =>
    /\ r6 = Top.saved
    /\ r7 = Top.entry
    /\ Len(calls) > 1 => memory[r7] = ReturnMark(Len(calls) - 1)

\* "Integer and pointer arguments are passed in R0-R5, then R16-R19, then on the
\* stack from low address to high address" (docs/volume-1-basic-architecture.tex),
\* and dynamic allocation comes "with an ABI-preserving frame pointer"
\* (docs/COMPILER_STATUS.md): with or without one, a function finds them.
StackArgumentsPassed ==
  ~displaced /\ Top.phase = "body" =>
    \A k \in DOMAIN Top.arguments : memory[ArgumentAddress(k)] = Top.arguments[k]

\* "Scalar and vector values can spill and reload under register pressure"
\* (docs/COMPILER_STATUS.md): a spilled value is found also while the arguments
\* of a call are being stored.
SpillsReload ==
  ~displaced /\ Top.phase = "calling" =>
    \A o \in DOMAIN Top.objects :
      Top.objects[o] # Unset => memory[ObjectAddress(o)] = Top.objects[o]
=============================================================================
