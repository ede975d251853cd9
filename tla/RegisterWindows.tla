-------------------------- MODULE RegisterWindows --------------------------
(***************************************************************************)
(* The register file of the reference machine (src/seabird_ref.cpp) and    *)
(* the five window instructions of execute().                              *)
(*                                                                         *)
(* The machine keeps one copy of every live window in the vector           *)
(* `windows`, twenty-four registers each, and the current window a second  *)
(* time in r[8..31].  The copy on top of `windows` is stale between two    *)
(* window operations: instructions write r, and save_visible_window brings *)
(* the copy up to date only when a window operation starts.                *)
(*                                                                         *)
(* A C++ exception ends the run.  `fault` names the exception; no action   *)
(* is enabled once it is set.                                              *)
(*                                                                         *)
(* Definitions whose names end in an underscore and a word (_NotSaved) are *)
(* the same code with a bug, used only to see that a property notices it.  *)
(***************************************************************************)
EXTENDS Integers, Sequences

CONSTANTS
  Word,       \* the values a register can hold (std::uint64_t)
  Written,    \* the registers the program writes between window operations
  MaxDepth,   \* bound on the live windows: the vector itself has none
  MaxPins     \* bound on a retention count: `unsigned` in the code

ASSUME WordAssumption == 0 \in Word
ASSUME WrittenAssumption == Written \subseteq 0..31
ASSUME DepthAssumption == MaxDepth \in Nat \ {0} /\ MaxPins \in Nat

VARIABLES
  r,                \* Cpu::r, the visible registers R0-R31
  windows,          \* Cpu::windows, root first
  windowPinCounts,  \* Cpu::window_pin_counts, parallel to windows
  windowEnabled,    \* Cpu::window_enabled
  fault             \* the exception that ended the run, or "none"

windowVars == <<r, windows, windowPinCounts, windowEnabled, fault>>

Reg == 0..31
Lane24 == 0..23
Frame == [Lane24 -> Word]

Disabled == "register-window extension is disabled"
Underflow == "register-window underflow"
Unbalanced == "unbalanced WINRELEASE"
WindowFault == {Disabled, Underflow, Unbalanced}

WindowTypeOK ==
  /\ r \in [Reg -> Word]
  /\ windows \in Seq(Frame)
  /\ windowPinCounts \in Seq(Nat)
  /\ Len(windows) = Len(windowPinCounts)
  /\ Len(windows) >= 1
  /\ windowEnabled \in BOOLEAN
  /\ fault \in WindowFault \cup {"none"}

-----------------------------------------------------------------------------
\* The operators take the registers as an argument: CALL and RET have moved
\* r[7] before they reach the window operation.

VisibleFrame(regs) == [lane \in Lane24 |-> regs[lane + 8]]

\* save_visible_window: the vector with its top brought up to date.
SaveVisibleWindow_NotSaved(regs) == windows

SaveVisibleWindow(regs) ==
  [windows EXCEPT ![Len(windows)] = VisibleFrame(regs)]

\* load_visible_window, with `frame` the new top of the vector.
LoadVisibleWindow(regs, frame) ==
  [reg \in Reg |-> IF reg < 8 THEN regs[reg] ELSE frame[reg - 8]]

\* The child of advance_window: value-initialised, then R24-R31 to R8-R15.
ChildFrame_NotZeroed(regs) ==
  [lane \in Lane24 |-> IF lane < 8 THEN regs[24 + lane] ELSE regs[lane + 8]]

ChildFrame(regs) ==
  [lane \in Lane24 |-> IF lane < 8 THEN regs[24 + lane] ELSE 0]

AdvanceWindow(regs) ==
  /\ windows' = Append(SaveVisibleWindow(regs), ChildFrame(regs))
  /\ windowPinCounts' = Append(windowPinCounts, 0)
  /\ r' = LoadVisibleWindow(regs, ChildFrame(regs))

\* The parent of restore_previous_window, the child's R8-R15 in its R24-R31.
RestoredFrame_NotPropagated(regs) == windows[Len(windows) - 1]

RestoredFrame(regs) ==
  [lane \in Lane24 |-> IF lane < 16 THEN windows[Len(windows) - 1][lane]
                                    ELSE regs[lane - 8]]

CanRestore == windowEnabled /\ Len(windows) > 1

RestorePreviousWindow_PinsKept(regs) ==
  /\ windows' = [SubSeq(windows, 1, Len(windows) - 1)
                   EXCEPT ![Len(windows) - 1] = RestoredFrame(regs)]
  /\ UNCHANGED windowPinCounts
  /\ r' = LoadVisibleWindow(regs, RestoredFrame(regs))

\* pop_back is SubSeq up to the parent.
RestorePreviousWindow(regs) ==
  /\ windows' = [SubSeq(windows, 1, Len(windows) - 1)
                   EXCEPT ![Len(windows) - 1] = RestoredFrame(regs)]
  /\ windowPinCounts' = SubSeq(windowPinCounts, 1, Len(windows) - 1)
  /\ r' = LoadVisibleWindow(regs, RestoredFrame(regs))

-----------------------------------------------------------------------------
\* The reset state: the root window is the visible registers, which the host
\* may have loaded with arguments.  Its copy in `windows` is zero.
WindowInit ==
  /\ r \in [Reg -> Word]
  /\ windows = << [lane \in Lane24 |-> 0] >>
  /\ windowPinCounts = <<0>>
  /\ windowEnabled \in BOOLEAN
  /\ fault = "none"

Throw(exception) ==
  /\ fault' = exception
  /\ UNCHANGED <<r, windows, windowPinCounts, windowEnabled>>

WinNew_Unchecked ==
  /\ Len(windows) < MaxDepth
  /\ AdvanceWindow(r)
  /\ UNCHANGED <<windowEnabled, fault>>

WinNew ==
  /\ windowEnabled
  /\ Len(windows) < MaxDepth
  /\ AdvanceWindow(r)
  /\ UNCHANGED <<windowEnabled, fault>>

WinNewDisabled ==
  /\ ~windowEnabled
  /\ Throw(Disabled)

WinPrev ==
  /\ CanRestore
  /\ RestorePreviousWindow(r)
  /\ UNCHANGED <<windowEnabled, fault>>

WinPrevUnderflow ==
  /\ ~CanRestore
  /\ Throw(Underflow)

WinReserve == UNCHANGED windowVars

\* Neither WINPIN nor WINRELEASE looks at window_enabled.
WinPin ==
  /\ windowPinCounts[Len(windowPinCounts)] < MaxPins
  /\ windowPinCounts' = [windowPinCounts EXCEPT ![Len(windowPinCounts)] = @ + 1]
  /\ UNCHANGED <<r, windows, windowEnabled, fault>>

WinRelease_Parent ==
  /\ Len(windowPinCounts) > 1
  /\ windowPinCounts[Len(windowPinCounts) - 1] # 0
  /\ windowPinCounts' =
       [windowPinCounts EXCEPT ![Len(windowPinCounts) - 1] = @ - 1]
  /\ UNCHANGED <<r, windows, windowEnabled, fault>>

WinRelease ==
  /\ windowPinCounts[Len(windowPinCounts)] # 0
  /\ windowPinCounts' = [windowPinCounts EXCEPT ![Len(windowPinCounts)] = @ - 1]
  /\ UNCHANGED <<r, windows, windowEnabled, fault>>

WinReleaseUnbalanced ==
  /\ windowPinCounts[Len(windowPinCounts)] = 0
  /\ Throw(Unbalanced)

\* Any other instruction that writes an integer register.
WriteRegister(reg, value) ==
  /\ r' = [r EXCEPT ![reg] = value]
  /\ UNCHANGED <<windows, windowPinCounts, windowEnabled, fault>>

WindowStep ==
  \/ WinNew
  \/ WinNewDisabled
  \/ WinPrev
  \/ WinPrevUnderflow
  \/ WinReserve
  \/ WinPin
  \/ WinRelease
  \/ WinReleaseUnbalanced
  \/ \E reg \in Written, value \in Word : WriteRegister(reg, value)

WindowNext == fault = "none" /\ WindowStep

WindowSpec == WindowInit /\ [][WindowNext]_windowVars

-----------------------------------------------------------------------------
(***************************************************************************)
(* Refinement.  The copies are the abstract cells: a group shared by two   *)
(* live windows has its newest value in the younger of the two, and the    *)
(* youngest window of all is r itself, never its stale copy.               *)
(***************************************************************************)
LiveWindows == [windows EXCEPT ![Len(windows)] = VisibleFrame(r)]

\* R16-R23 of every window, and R8-R15 of every window followed by R24-R31 of
\* the youngest.
LocalCells(frames) ==
  [i \in 1..Len(frames) |-> [lane \in 0..7 |-> frames[i][8 + lane]]]

OverlapCells(frames) ==
  [i \in 1..(Len(frames) + 1) |->
     [lane \in 0..7 |-> IF i <= Len(frames) THEN frames[i][lane]
                                            ELSE frames[Len(frames)][16 + lane]]]

globalBar == [lane \in 0..7 |-> r[lane]]
localBar == LocalCells(LiveWindows)
overlapBar == OverlapCells(LiveWindows)

Logical == INSTANCE LogicalWindows
             WITH global <- globalBar, overlap <- overlapBar, local <- localBar

\* Copying windows in and out of r behaves as if a child's R8-R15 and its
\* parent's R24-R31 were the same cells, every fresh window began with zeroed
\* locals and outgoing registers, and a suspended window's locals were out of
\* reach (save_visible_window, advance_window, restore_previous_window).
ImplementsLogicalWindows == Logical!LogicalSpec

\* Retention counts belong to their window: the count of a suspended window
\* changes under no instruction of a younger window, and is found unchanged
\* when that window is current again (window_pin_counts, pushed and popped
\* beside windows).
SuspendedPinsKept ==
  [][\A i \in 1..(Len(windowPinCounts) - 1) :
       windowPinCounts'[i] = windowPinCounts[i]]_windowVars

\* Without the feature no window is ever created, so the registers stay the
\* flat file of the ordinary ABI and the root copy is never written
\* (advance_window's and restore_previous_window's first lines).
DisabledStaysFlat ==
  ~windowEnabled => windows = << [lane \in Lane24 |-> 0] >>
=============================================================================
