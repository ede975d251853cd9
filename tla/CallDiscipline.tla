--------------------------- MODULE CallDiscipline ---------------------------
(***************************************************************************)
(* What a caller relies on.  run_function gives no guarantee to a program  *)
(* that moves R7 by hand, stores into the part of memory that holds return *)
(* addresses, or leaves the register windows of an activation unbalanced.  *)
(* `broken` records that the program has done one of these; to the others  *)
(* the three call stacks look like one.                                    *)
(*                                                                         *)
(* frames[i] remembers the state of the machine at the i-th open call.     *)
(***************************************************************************)
EXTENDS RunFunction

VARIABLES
  frames,   \* history: [resume, regs, windows] of each call not yet returned
  broken    \* history: the program has left the discipline

callVars == <<runVars, frames, broken>>

CallInit == RunInit /\ frames = <<>> /\ broken = FALSE

\* A handler has pushed or popped `returns`.
Called == Len(returns') = Len(returns) + 1
Left == Len(returns') = Len(returns) - 1

\* The depth of the register windows when the current activation began.
EntryDepth ==
  IF windowEnabled /\ frames # <<>> THEN Last(frames).windows + 1 ELSE 1

\* The instruction about to run does what a disciplined program does not.
StoresOverReturn(i) == i.op = "STQ" /\ Address(i) >= r[7]
LeavesWindows(i) == i.op = "WINPREV" /\ Len(windows) = EntryDepth
ReturnsUnbalanced(i) == i.op = "RET" /\ Len(windows) # EntryDepth
MovesStack(i) == r'[7] # r[7] /\ i.op \notin {"CALL", "CALLA", "RET"}

Offends(i) ==
  \/ StoresOverReturn(i)
  \/ LeavesWindows(i)
  \/ ReturnsUnbalanced(i)
  \/ MovesStack(i)

History ==
  /\ frames' = IF Called
                 THEN Append(frames, [resume |-> NextPc, regs |-> r,
                                      windows |-> Len(windows)])
                 ELSE IF Left THEN Front(frames) ELSE frames
  /\ broken' = (broken \/ (pc < Len(code) /\ Offends(Fetched)))

CallNext == RunNext /\ History

CallSpec == CallInit /\ [][CallNext]_callVars /\ WF_callVars(CallNext)

-----------------------------------------------------------------------------
OneStack ==
  /\ Len(frames) = Len(returns)
  /\ r[7] = MemorySlots - Len(returns)
  /\ \A i \in 1..Len(returns) :
       /\ returns[i] = frames[i].resume
       /\ memory[MemorySlots - i] = frames[i].resume
  /\ Len(windows) >= EntryDepth
  /\ ~windowEnabled => Len(windows) = 1

\* The three stacks agree: R7 has come down one slot for every open call, those
\* slots hold the addresses the calls resume at, `returns` holds them too, and
\* the windows are at least as deep as the calls (CALL, CALLA, RET).
StacksAgree == ~broken => OneStack

\* A program that keeps the discipline never meets the faults of a damaged return
\* stack: RET finds its slot in memory and a window to restore, and CALL never
\* writes past the end of memory.
StackNeverDamaged ==
  ~broken => fault \notin {ReturnOutside, Overrun, Underflow}

ResumesCallerStep ==
  Left /\ ~broken' /\ fault' = "none" =>
    LET caller == Last(frames)
    IN  /\ pc' = caller.resume
        /\ r'[7] = caller.regs[7]
        /\ Len(windows') = caller.windows
        /\ windowEnabled =>
             /\ \A reg \in 8..23 : r'[reg] = caller.regs[reg]
             /\ \A reg \in 24..31 : r'[reg] = r[reg - 16]
        /\ ~windowEnabled => \A reg \in 8..31 : r'[reg] = r[reg]

\* RET takes a disciplined callee back to the instruction after its call, with the
\* stack pointer and the window of the caller.  With windows, whatever the callee
\* and its own callees did, the caller finds its incoming and local registers as
\* they were and the callee's incoming ones in its outgoing; without, every
\* register is as the callee left it.
ResumesCaller == [][ResumesCallerStep]_callVars

\* "RET validates its ordinary and shadow return state, restores the parent
\* logical window, and transfers control atomically"
\* (docs/REGISTER_WINDOWING_EXTENSION.md): a RET that faults has changed nothing.
ReturnIsAtomic ==
  [][pc < Len(code) /\ Fetched.op = "RET" /\ fault' # "none" =>
       UNCHANGED <<r, returns, memory, windows>>]_callVars
=============================================================================
