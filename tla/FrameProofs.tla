----------------------------- MODULE FrameProofs -----------------------------
(***************************************************************************)
(* Proofs about the two places the registers of a call live: the windows of *)
(* the reference machine (RegisterWindows), for every set of words, every  *)
(* bound and every set of written registers; and the stack frames of       *)
(* compiled code (StackFrames), for every set of functions, frame size,    *)
(* number of stack arguments, stack and bound on open calls.               *)
(*                                                                         *)
(* The frame of an activation lies between the lowest address it uses and  *)
(* the address of its return address.  The inductive invariant gives the   *)
(* place of everything in it; a step of the running function stores only   *)
(* into its own frame, and the frames of the others lie above.             *)
(***************************************************************************)
EXTENDS RegisterWindows, StackFrames, SequenceTheorems, TLAPS

-----------------------------------------------------------------------------
\* The frame operators build frames, and loading a frame builds registers.

LEMMA VisibleFrameIsFrame ==
  ASSUME NEW regs \in [Reg -> Word]
  PROVE  VisibleFrame(regs) \in Frame
BY DEF VisibleFrame, Frame, Reg, Lane24

LEMMA ChildFrameIsFrame ==
  ASSUME NEW regs \in [Reg -> Word]
  PROVE  ChildFrame(regs) \in Frame
BY WordAssumption DEF ChildFrame, Frame, Reg, Lane24

LEMMA RestoredFrameIsFrame ==
  ASSUME WindowTypeOK, Len(windows) > 1, NEW regs \in [Reg -> Word]
  PROVE  RestoredFrame(regs) \in Frame
<1> DEFINE parent == windows[Len(windows) - 1]
<1>1. parent \in Frame
  BY DEF WindowTypeOK
<1> HIDE DEF parent
<1>2. RestoredFrame(regs) =
        [lane \in Lane24 |-> IF lane < 16 THEN parent[lane] ELSE regs[lane - 8]]
  BY DEF RestoredFrame, parent
<1>3. QED
  BY <1>1, <1>2 DEF Frame, Reg, Lane24

LEMMA LoadedRegisters ==
  ASSUME NEW regs \in [Reg -> Word], NEW frame \in Frame
  PROVE  LoadVisibleWindow(regs, frame) \in [Reg -> Word]
BY DEF LoadVisibleWindow, Frame, Reg, Lane24

\* Advancing pushes one well-formed window; nothing else changes shape.
LEMMA AdvanceType ==
  ASSUME WindowTypeOK, NEW regs \in [Reg -> Word], AdvanceWindow(regs)
  PROVE  /\ r' \in [Reg -> Word]
         /\ windows' \in Seq(Frame)
         /\ windowPinCounts' \in Seq(Nat)
         /\ Len(windows') = Len(windows) + 1
         /\ Len(windowPinCounts') = Len(windowPinCounts) + 1
<1>1. ChildFrame(regs) \in Frame
  BY ChildFrameIsFrame
<1>2. SaveVisibleWindow(regs) \in Seq(Frame) /\ Len(SaveVisibleWindow(regs)) = Len(windows)
  BY VisibleFrameIsFrame DEF SaveVisibleWindow, WindowTypeOK
<1>3. /\ windows' \in Seq(Frame)
      /\ Len(windows') = Len(windows) + 1
  BY <1>1, <1>2 DEF AdvanceWindow, WindowTypeOK
<1>4. /\ windowPinCounts' \in Seq(Nat)
      /\ Len(windowPinCounts') = Len(windowPinCounts) + 1
  BY DEF AdvanceWindow, WindowTypeOK
<1>5. r' \in [Reg -> Word]
  BY <1>1, LoadedRegisters DEF AdvanceWindow
<1>6. QED
  BY <1>3, <1>4, <1>5

\* Restoring pops one window and keeps the rest well-formed.
LEMMA RestoreType ==
  ASSUME WindowTypeOK, Len(windows) > 1,
         NEW regs \in [Reg -> Word], RestorePreviousWindow(regs)
  PROVE  /\ r' \in [Reg -> Word]
         /\ windows' \in Seq(Frame)
         /\ windowPinCounts' \in Seq(Nat)
         /\ Len(windows') = Len(windows) - 1
         /\ Len(windowPinCounts') = Len(windowPinCounts) - 1
<1>1. RestoredFrame(regs) \in Frame
  BY RestoredFrameIsFrame
<1> DEFINE popped == SubSeq(windows, 1, Len(windows) - 1)
<1>2. popped \in Seq(Frame) /\ Len(popped) = Len(windows) - 1
  BY DEF WindowTypeOK
<1>3. windows' \in Seq(Frame) /\ Len(windows') = Len(windows) - 1
  BY <1>1, <1>2 DEF RestorePreviousWindow, WindowTypeOK
<1>4. /\ windowPinCounts' \in Seq(Nat)
      /\ Len(windowPinCounts') = Len(windowPinCounts) - 1
  BY DEF RestorePreviousWindow, WindowTypeOK
<1>5. r' \in [Reg -> Word]
  BY <1>1, LoadedRegisters DEF RestorePreviousWindow
<1>6. QED
  BY <1>3, <1>4, <1>5

-----------------------------------------------------------------------------
\* Type correctness: in particular the vector of windows and the vector of
\* retention counts have the same length, and the root window is never popped.
THEOREM WindowTypeCorrect == WindowSpec => []WindowTypeOK
<1>1. WindowInit => WindowTypeOK
  BY WordAssumption DEF WindowInit, WindowTypeOK, Frame, WindowFault
<1>2. WindowTypeOK /\ [WindowNext]_windowVars => WindowTypeOK'
  <2> SUFFICES ASSUME WindowTypeOK, [WindowNext]_windowVars
               PROVE  WindowTypeOK'
    OBVIOUS
  <2>1. CASE WinNew
    BY <2>1, AdvanceType DEF WinNew, WindowTypeOK
  <2>2. CASE WinNewDisabled
    BY <2>2 DEF WinNewDisabled, Throw, WindowTypeOK, WindowFault
  <2>3. CASE WinPrev
    BY <2>3, RestoreType DEF WinPrev, CanRestore, WindowTypeOK
  <2>4. CASE WinPrevUnderflow
    BY <2>4 DEF WinPrevUnderflow, Throw, WindowTypeOK, WindowFault
  <2>5. CASE WinReserve
    BY <2>5 DEF WinReserve, windowVars, WindowTypeOK
  <2>6. CASE WinPin
    BY <2>6 DEF WinPin, WindowTypeOK
  <2>7. CASE WinRelease
    BY <2>7 DEF WinRelease, WindowTypeOK
  <2>8. CASE WinReleaseUnbalanced
    BY <2>8 DEF WinReleaseUnbalanced, Throw, WindowTypeOK, WindowFault
  <2>9. ASSUME NEW reg \in Written, NEW value \in Word, WriteRegister(reg, value)
        PROVE  WindowTypeOK'
    BY <2>9 DEF WriteRegister, WindowTypeOK
  <2>10. CASE UNCHANGED windowVars
    BY <2>10 DEF windowVars, WindowTypeOK
  <2>11. QED
    BY <2>1, <2>2, <2>3, <2>4, <2>5, <2>6, <2>7, <2>8, <2>9, <2>10
       DEF WindowNext, WindowStep
<1>3. QED
  BY <1>1, <1>2, PTL DEF WindowSpec

-----------------------------------------------------------------------------
(***************************************************************************)
(* The refinement.  What the abstract cells are is a matter of the live    *)
(* windows alone, so the three ways an action changes them are treated     *)
(* first, as facts about sequences of frames.                              *)
(***************************************************************************)

\* What one cell is, in terms of the frame it comes from.
LEMMA LocalCell ==
  ASSUME NEW f \in Seq(Frame), NEW i \in 1..Len(f)
  PROVE  LocalCells(f)[i] = [lane \in 0..7 |-> f[i][8 + lane]]
BY DEF LocalCells

LEMMA OverlapCell ==
  ASSUME NEW f \in Seq(Frame), NEW i \in 1..Len(f)
  PROVE  OverlapCells(f)[i] = [lane \in 0..7 |-> f[i][lane]]
<1>1. i \in 1..(Len(f) + 1) /\ i <= Len(f)
  OBVIOUS
<1>2. QED
  BY <1>1, Zenon DEF OverlapCells

LEMMA OutgoingCell ==
  ASSUME NEW f \in Seq(Frame)
  PROVE  OverlapCells(f)[Len(f) + 1] = [lane \in 0..7 |-> f[Len(f)][16 + lane]]
<1>1. Len(f) + 1 \in 1..(Len(f) + 1) /\ ~(Len(f) + 1 <= Len(f))
  OBVIOUS
<1>2. QED
  BY <1>1, Zenon DEF OverlapCells

LEMMA CellShape ==
  ASSUME NEW f \in Seq(Frame), Len(f) >= 1
  PROVE  /\ LocalCells(f) \in Seq(Logical!Group)
         /\ Len(LocalCells(f)) = Len(f)
         /\ OverlapCells(f) \in Seq(Logical!Group)
         /\ Len(OverlapCells(f)) = Len(f) + 1
<1>1. PICK n \in Nat \ {0} : n = Len(f)
  OBVIOUS
<1>2. \A i \in 1..n : f[i] \in Frame
  BY <1>1
<1>3. LocalCells(f) \in [1..n -> Logical!Group]
  <2>1. ASSUME NEW i \in 1..n PROVE LocalCells(f)[i] \in Logical!Group
    <3>1. LocalCells(f)[i] = [lane \in 0..7 |-> f[i][8 + lane]]
      BY <1>1, LocalCell
    <3>2. QED
      BY <1>2, <3>1 DEF Frame, Lane24, Logical!Group, Logical!Lane
  <2>2. LocalCells(f) = [i \in 1..n |-> LocalCells(f)[i]]
    BY <1>1 DEF LocalCells
  <2>3. QED
    BY <2>1, <2>2
<1>4. OverlapCells(f) \in [1..(n + 1) -> Logical!Group]
  <2>1. ASSUME NEW i \in 1..n PROVE OverlapCells(f)[i] \in Logical!Group
    <3>1. OverlapCells(f)[i] = [lane \in 0..7 |-> f[i][lane]]
      BY <1>1, OverlapCell
    <3>2. QED
      BY <1>2, <3>1 DEF Frame, Lane24, Logical!Group, Logical!Lane
  <2>2. OverlapCells(f)[n + 1] \in Logical!Group
    <3>1. OverlapCells(f)[n + 1] = [lane \in 0..7 |-> f[n][16 + lane]]
      BY <1>1, OutgoingCell
    <3>2. f[n] \in Frame
      BY <1>2
    <3>3. QED
      BY <3>1, <3>2 DEF Frame, Lane24, Logical!Group, Logical!Lane
  <2>3. OverlapCells(f) = [i \in 1..(n + 1) |-> OverlapCells(f)[i]]
    BY <1>1 DEF OverlapCells
  <2>4. \A i \in 1..(n + 1) : i \in 1..n \/ i = n + 1
    BY <1>1
  <2>5. QED
    BY <2>1, <2>2, <2>3, <2>4, Zenon
<1>5. QED
  BY <1>1, <1>3, <1>4

\* A sequence is its length and its elements.
LEMMA AppendedCells ==
  ASSUME NEW S, NEW s \in Seq(S), NEW e \in S, NEW t \in Seq(S),
         Len(t) = Len(s) + 1,
         \A i \in 1..Len(s) : t[i] = s[i],
         t[Len(s) + 1] = e
  PROVE  t = Append(s, e)
<1>1. Append(s, e) \in Seq(S) /\ Len(Append(s, e)) = Len(t)
  BY AppendProperties
<1>2. \A i \in 1..Len(t) : t[i] = Append(s, e)[i]
  BY AppendProperties
<1>3. QED
  BY <1>1, <1>2, SeqEqual

\* Pushing a child frame: no cell of an older window changes.
LEMMA PushedCells ==
  ASSUME NEW f \in Seq(Frame), Len(f) >= 1, NEW child \in Frame,
         \A lane \in 0..7 : /\ child[lane] = f[Len(f)][16 + lane]
                            /\ child[8 + lane] = 0
                            /\ child[16 + lane] = 0
  PROVE  /\ LocalCells(Append(f, child)) = Append(LocalCells(f), Logical!ZeroGroup)
         /\ OverlapCells(Append(f, child)) = Append(OverlapCells(f), Logical!ZeroGroup)
<1>1. PICK n \in Nat \ {0} : n = Len(f)
  OBVIOUS
<1>2. PICK g \in Seq(Frame) : g = Append(f, child)
  BY AppendProperties
<1>3. /\ Len(g) = n + 1
      /\ g[n + 1] = child
      /\ \A i \in 1..n : g[i] = f[i]
  BY <1>1, <1>2, AppendProperties
<1>4. /\ \A i \in 1..n : i \in 1..Len(f) /\ i \in 1..Len(g)
      /\ n + 1 \in 1..Len(g)
      /\ n + 2 = Len(g) + 1
  BY <1>1, <1>3
<1>5. Logical!ZeroGroup \in Logical!Group
  BY WordAssumption DEF Logical!ZeroGroup, Logical!Group
<1>6. LocalCells(g) = Append(LocalCells(f), Logical!ZeroGroup)
  <2>1. ASSUME NEW i \in 1..n PROVE LocalCells(g)[i] = LocalCells(f)[i]
    <3>1. /\ LocalCells(g)[i] = [lane \in 0..7 |-> g[i][8 + lane]]
          /\ LocalCells(f)[i] = [lane \in 0..7 |-> f[i][8 + lane]]
      BY <1>4, LocalCell
    <3>2. QED
      BY <1>3, <3>1, Zenon
  <2>2. LocalCells(g)[n + 1] = Logical!ZeroGroup
    <3>1. LocalCells(g)[n + 1] = [lane \in 0..7 |-> g[n + 1][8 + lane]]
      BY <1>4, LocalCell
    <3>2. QED
      BY <1>3, <3>1, Zenon DEF Logical!ZeroGroup, Logical!Lane
  <2>3. /\ LocalCells(f) \in Seq(Logical!Group) /\ Len(LocalCells(f)) = n
        /\ LocalCells(g) \in Seq(Logical!Group) /\ Len(LocalCells(g)) = n + 1
    BY <1>1, <1>3, CellShape
  <2>4. QED
    BY <1>5, <2>1, <2>2, <2>3, AppendedCells
<1>7. OverlapCells(g) = Append(OverlapCells(f), Logical!ZeroGroup)
  <2>1. ASSUME NEW i \in 1..n PROVE OverlapCells(g)[i] = OverlapCells(f)[i]
    <3>1. /\ OverlapCells(g)[i] = [lane \in 0..7 |-> g[i][lane]]
          /\ OverlapCells(f)[i] = [lane \in 0..7 |-> f[i][lane]]
      BY <1>4, OverlapCell
    <3>2. QED
      BY <1>3, <3>1, Zenon
  <2>2. OverlapCells(g)[n + 1] = OverlapCells(f)[n + 1]
    <3>1. OverlapCells(g)[n + 1] = [lane \in 0..7 |-> g[n + 1][lane]]
      BY <1>4, OverlapCell
    <3>2. OverlapCells(f)[n + 1] = [lane \in 0..7 |-> f[n][16 + lane]]
      BY <1>1, OutgoingCell, Zenon
    <3>3. QED
      BY <1>1, <1>3, <3>1, <3>2, Zenon
  <2>3. OverlapCells(g)[n + 2] = Logical!ZeroGroup
    <3>1. OverlapCells(g)[n + 2] = [lane \in 0..7 |-> g[n + 1][16 + lane]]
      BY <1>3, <1>4, OutgoingCell, Zenon
    <3>2. QED
      BY <1>3, <3>1, Zenon DEF Logical!ZeroGroup, Logical!Lane
  <2>4. /\ OverlapCells(f) \in Seq(Logical!Group) /\ Len(OverlapCells(f)) = n + 1
        /\ OverlapCells(g) \in Seq(Logical!Group) /\ Len(OverlapCells(g)) = n + 2
    BY <1>1, <1>3, CellShape
  <2>5. \A i \in 1..Len(OverlapCells(f)) : OverlapCells(g)[i] = OverlapCells(f)[i]
    <3>1. \A i \in 1..Len(OverlapCells(f)) : i \in 1..n \/ i = n + 1
      BY <1>1, <2>4
    <3>2. QED
      BY <2>1, <2>2, <3>1, Zenon
  <2>6. /\ n + 2 = Len(OverlapCells(f)) + 1
        /\ Len(OverlapCells(g)) = Len(OverlapCells(f)) + 1
    BY <1>1, <2>4
  <2>7. QED
    BY <1>5, <2>3, <2>4, <2>5, <2>6, AppendedCells, Zenon
<1>8. QED
  BY <1>2, <1>6, <1>7

LEMMA PrefixCells ==
  ASSUME NEW S, NEW s \in Seq(S), NEW t \in Seq(S),
         Len(t) <= Len(s),
         \A i \in 1..Len(t) : t[i] = s[i]
  PROVE  t = SubSeq(s, 1, Len(t))
<1>1. PICK m \in Nat : m = Len(t) /\ m <= Len(s)
  OBVIOUS
<1>2. \A i \in 1..m : s[i] \in S
  BY <1>1
<1>3. SubSeq(s, 1, m) \in Seq(S) /\ Len(SubSeq(s, 1, m)) = m
  BY <1>1, <1>2, SubSeqProperties
<1>4. \A i \in 1..m : SubSeq(s, 1, m)[i] = s[i]
  BY <1>1
<1>5. QED
  BY <1>1, <1>3, <1>4, SeqEqual

LEMMA LastIndex ==
  ASSUME NEW n \in Nat, n >= 1
  PROVE  /\ n \in 1..n
         /\ n + 1 \in 1..(n + 1)
         /\ \A i \in 1..n : i \in 1..(n + 1) /\ (i \in 1..(n - 1) \/ i = n)
OBVIOUS

\* Popping: the parent keeps its own cells, and what the child left in the
\* shared group is the parent's outgoing group.
LEMMA PoppedCells ==
  ASSUME NEW f \in Seq(Frame), NEW g \in Seq(Frame), NEW n \in Nat,
         n = Len(g), n >= 1, Len(f) = n + 1,
         \A i \in 1..(n - 1) : g[i] = f[i],
         \A lane \in 0..7 : /\ g[n][lane] = f[n][lane]
                            /\ g[n][8 + lane] = f[n][8 + lane]
                            /\ g[n][16 + lane] = f[n + 1][lane]
  PROVE  /\ LocalCells(g) = SubSeq(LocalCells(f), 1, n)
         /\ OverlapCells(g) = SubSeq(OverlapCells(f), 1, n + 1)
<1>1. /\ \A i \in 1..n : i \in 1..Len(f) /\ i \in 1..Len(g)
      /\ n + 1 \in 1..Len(f)
      /\ \A i \in 1..n : i \in 1..(n - 1) \/ i = n
  <2>1. /\ n + 1 \in 1..(n + 1)
        /\ \A i \in 1..n : i \in 1..(n + 1) /\ (i \in 1..(n - 1) \/ i = n)
    BY LastIndex
  <2>2. ASSUME NEW i \in 1..n
        PROVE  i \in 1..Len(f) /\ i \in 1..Len(g) /\ (i \in 1..(n - 1) \/ i = n)
    <3>1. i \in 1..Len(g)
      OBVIOUS
    <3>2. i \in 1..Len(f)
      BY <2>1
    <3>3. QED
      BY <2>1, <3>1, <3>2
  <2>3. n + 1 \in 1..Len(f)
    BY <2>1
  <2>4. QED
    BY <2>2, <2>3
<1>2. LocalCells(g) = SubSeq(LocalCells(f), 1, n)
  <2>1. ASSUME NEW i \in 1..n PROVE LocalCells(g)[i] = LocalCells(f)[i]
    <3>1. /\ LocalCells(g)[i] = [lane \in 0..7 |-> g[i][8 + lane]]
          /\ LocalCells(f)[i] = [lane \in 0..7 |-> f[i][8 + lane]]
      BY <1>1, LocalCell
    <3>2. CASE i \in 1..(n - 1)
      BY <3>1, <3>2, Zenon
    <3>3. CASE i = n
      BY <3>1, <3>3, Zenon
    <3>4. QED
      BY <1>1, <3>2, <3>3
  <2>2. /\ LocalCells(f) \in Seq(Logical!Group) /\ Len(LocalCells(f)) = n + 1
        /\ LocalCells(g) \in Seq(Logical!Group) /\ Len(LocalCells(g)) = n
    BY CellShape
  <2>3. Len(LocalCells(g)) <= Len(LocalCells(f))
    BY <2>2
  <2>4. LocalCells(g) = SubSeq(LocalCells(f), 1, Len(LocalCells(g)))
    BY <2>1, <2>2, <2>3, PrefixCells, Zenon
  <2>5. QED
    BY <2>2, <2>4
<1>3. OverlapCells(g) = SubSeq(OverlapCells(f), 1, n + 1)
  <2>1. ASSUME NEW i \in 1..n PROVE OverlapCells(g)[i] = OverlapCells(f)[i]
    <3>1. /\ OverlapCells(g)[i] = [lane \in 0..7 |-> g[i][lane]]
          /\ OverlapCells(f)[i] = [lane \in 0..7 |-> f[i][lane]]
      BY <1>1, OverlapCell
    <3>2. CASE i \in 1..(n - 1)
      BY <3>1, <3>2, Zenon
    <3>3. CASE i = n
      BY <3>1, <3>3, Zenon
    <3>4. QED
      BY <1>1, <3>2, <3>3
  <2>2. OverlapCells(g)[n + 1] = OverlapCells(f)[n + 1]
    <3>1. OverlapCells(g)[n + 1] = [lane \in 0..7 |-> g[n][16 + lane]]
      BY OutgoingCell
    <3>2. OverlapCells(f)[n + 1] = [lane \in 0..7 |-> f[n + 1][lane]]
      BY <1>1, OverlapCell, Zenon
    <3>3. QED
      BY <3>1, <3>2, Zenon
  <2>3. /\ OverlapCells(f) \in Seq(Logical!Group) /\ Len(OverlapCells(f)) = n + 2
        /\ OverlapCells(g) \in Seq(Logical!Group) /\ Len(OverlapCells(g)) = n + 1
    BY CellShape
  <2>4. \A i \in 1..Len(OverlapCells(g)) : OverlapCells(g)[i] = OverlapCells(f)[i]
    <3>1. \A i \in 1..Len(OverlapCells(g)) : i \in 1..n \/ i = n + 1
      BY <2>3
    <3>2. QED
      BY <2>1, <2>2, <3>1, Zenon
  <2>5. Len(OverlapCells(g)) <= Len(OverlapCells(f))
    BY <2>3
  <2>6. OverlapCells(g) = SubSeq(OverlapCells(f), 1, Len(OverlapCells(g)))
    BY <2>3, <2>4, <2>5, PrefixCells, Zenon
  <2>7. QED
    BY <2>3, <2>6
<1>4. QED
  BY <1>2, <1>3

LEMMA SameCells ==
  ASSUME NEW S, NEW s \in Seq(S), NEW t \in Seq(S), NEW m \in Nat,
         Len(s) = m, Len(t) = m,
         \A i \in 1..m : t[i] = s[i]
  PROVE  t = s
BY SeqEqual

\* What the cells of n live windows are.
LEMMA CellsOf ==
  ASSUME NEW f \in Seq(Frame), NEW n \in Nat, n >= 1, Len(f) = n
  PROVE  /\ \A i \in 1..n : f[i] \in Frame
         /\ LocalCells(f) \in Seq(Logical!Group) /\ Len(LocalCells(f)) = n
         /\ OverlapCells(f) \in Seq(Logical!Group) /\ Len(OverlapCells(f)) = n + 1
         /\ \A i \in 1..n :
              /\ LocalCells(f)[i] = [lane \in 0..7 |-> f[i][8 + lane]]
              /\ OverlapCells(f)[i] = [lane \in 0..7 |-> f[i][lane]]
         /\ OverlapCells(f)[n + 1] = [lane \in 0..7 |-> f[n][16 + lane]]
<1>1. \A i \in 1..n : f[i] \in Frame
  OBVIOUS
<1>2. /\ LocalCells(f) \in Seq(Logical!Group) /\ Len(LocalCells(f)) = n
      /\ OverlapCells(f) \in Seq(Logical!Group) /\ Len(OverlapCells(f)) = n + 1
  BY CellShape
<1>3. ASSUME NEW i \in 1..n
      PROVE  /\ LocalCells(f)[i] = [lane \in 0..7 |-> f[i][8 + lane]]
             /\ OverlapCells(f)[i] = [lane \in 0..7 |-> f[i][lane]]
  BY LocalCell, OverlapCell
<1>4. OverlapCells(f)[n + 1] = [lane \in 0..7 |-> f[n][16 + lane]]
  BY OutgoingCell
<1>5. QED
  BY <1>1, <1>2, <1>3, <1>4

\* A group that alone differs has been replaced.
OneReplaced(f, g, n) ==
  /\ \A k \in 1..n :
       (\A i \in 1..n : i # k => LocalCells(g)[i] = LocalCells(f)[i])
       => LocalCells(g) = [LocalCells(f) EXCEPT ![k] = LocalCells(g)[k]]
  /\ \A k \in 1..(n + 1) :
       (\A i \in 1..(n + 1) : i # k => OverlapCells(g)[i] = OverlapCells(f)[i])
       => OverlapCells(g) = [OverlapCells(f) EXCEPT ![k] = OverlapCells(g)[k]]

LEMMA ReplacedCells ==
  ASSUME NEW f \in Seq(Frame), NEW g \in Seq(Frame), NEW n \in Nat, n >= 1,
         Len(f) = n, Len(g) = n
  PROVE  OneReplaced(f, g, n)
<1>1. /\ LocalCells(f) \in [1..n -> Logical!Group]
      /\ LocalCells(g) \in [1..n -> Logical!Group]
  BY CellShape
<1>2. /\ OverlapCells(f) \in [1..(n + 1) -> Logical!Group]
      /\ OverlapCells(g) \in [1..(n + 1) -> Logical!Group]
  BY CellShape
<1>3. QED
  BY <1>1, <1>2 DEF OneReplaced

\* One lane of a frame changes one of its three groups.
GroupsWritten(a, b, reg, value) ==
  /\ reg < 8 =>
       [lane \in 0..7 |-> b[lane]] =
         [[lane \in 0..7 |-> a[lane]] EXCEPT ![reg] = value]
  /\ reg \in 8..15 =>
       [lane \in 0..7 |-> b[8 + lane]] =
         [[lane \in 0..7 |-> a[8 + lane]] EXCEPT ![reg - 8] = value]
  /\ reg >= 16 =>
       [lane \in 0..7 |-> b[16 + lane]] =
         [[lane \in 0..7 |-> a[16 + lane]] EXCEPT ![reg - 16] = value]
  /\ reg >= 8 => [lane \in 0..7 |-> b[lane]] = [lane \in 0..7 |-> a[lane]]
  /\ reg \notin 8..15 =>
       [lane \in 0..7 |-> b[8 + lane]] = [lane \in 0..7 |-> a[8 + lane]]
  /\ reg < 16 =>
       [lane \in 0..7 |-> b[16 + lane]] = [lane \in 0..7 |-> a[16 + lane]]

LEMMA WrittenFrame ==
  ASSUME NEW a \in Frame, NEW reg \in Lane24, NEW value \in Word, NEW b,
         b = [a EXCEPT ![reg] = value]
  PROVE  GroupsWritten(a, b, reg, value)
<1>1. \A lane \in 0..7 :
        /\ b[lane] = IF lane = reg THEN value ELSE a[lane]
        /\ b[8 + lane] = IF 8 + lane = reg THEN value ELSE a[8 + lane]
        /\ b[16 + lane] = IF 16 + lane = reg THEN value ELSE a[16 + lane]
  BY DEF Frame, Lane24
<1>2. ASSUME reg < 8
      PROVE  [lane \in 0..7 |-> b[lane]] =
               [[lane \in 0..7 |-> a[lane]] EXCEPT ![reg] = value]
  BY <1>1, <1>2 DEF Lane24
<1>3. ASSUME reg \in 8..15
      PROVE  [lane \in 0..7 |-> b[8 + lane]] =
               [[lane \in 0..7 |-> a[8 + lane]] EXCEPT ![reg - 8] = value]
  <2>1. PICK l \in 0..7 : l = reg - 8
    BY <1>3 DEF Lane24
  <2>2. \A lane \in 0..7 : b[8 + lane] = IF lane = l THEN value ELSE a[8 + lane]
    BY <1>1, <2>1 DEF Lane24
  <2>3. [lane \in 0..7 |-> b[8 + lane]] =
          [[lane \in 0..7 |-> a[8 + lane]] EXCEPT ![l] = value]
    BY <2>2
  <2>4. QED
    BY <2>1, <2>3
<1>4. ASSUME reg >= 16
      PROVE  [lane \in 0..7 |-> b[16 + lane]] =
               [[lane \in 0..7 |-> a[16 + lane]] EXCEPT ![reg - 16] = value]
  <2>1. PICK l \in 0..7 : l = reg - 16
    BY <1>4 DEF Lane24
  <2>2. \A lane \in 0..7 : b[16 + lane] = IF lane = l THEN value ELSE a[16 + lane]
    BY <1>1, <2>1 DEF Lane24
  <2>3. [lane \in 0..7 |-> b[16 + lane]] =
          [[lane \in 0..7 |-> a[16 + lane]] EXCEPT ![l] = value]
    BY <2>2
  <2>4. QED
    BY <2>1, <2>3
<1>5. ASSUME reg >= 8
      PROVE  [lane \in 0..7 |-> b[lane]] = [lane \in 0..7 |-> a[lane]]
  BY <1>1, <1>5 DEF Lane24
<1>6. ASSUME reg \notin 8..15
      PROVE  [lane \in 0..7 |-> b[8 + lane]] = [lane \in 0..7 |-> a[8 + lane]]
  BY <1>1, <1>6 DEF Lane24
<1>7. ASSUME reg < 16
      PROVE  [lane \in 0..7 |-> b[16 + lane]] = [lane \in 0..7 |-> a[16 + lane]]
  BY <1>1, <1>7 DEF Lane24
<1>8. QED
  BY <1>2, <1>3, <1>4, <1>5, <1>6, <1>7 DEF GroupsWritten

\* Writing one register of the current window: one cell changes, in the group
\* shared with the parent, in the local group or in the outgoing group.
CellWritten(f, g, n, reg, value) ==
  /\ reg < 8 =>
       /\ LocalCells(g) = LocalCells(f)
       /\ OverlapCells(g) =
            [OverlapCells(f) EXCEPT ![n] = [@ EXCEPT ![reg] = value]]
  /\ reg \in 8..15 =>
       /\ LocalCells(g) =
            [LocalCells(f) EXCEPT ![n] = [@ EXCEPT ![reg - 8] = value]]
       /\ OverlapCells(g) = OverlapCells(f)
  /\ reg >= 16 =>
       /\ LocalCells(g) = LocalCells(f)
       /\ OverlapCells(g) =
            [OverlapCells(f) EXCEPT ![n + 1] = [@ EXCEPT ![reg - 16] = value]]

LEMMA WrittenCells ==
  \A f \in Seq(Frame), g \in Seq(Frame), n \in Nat, reg \in Lane24, value \in Word :
    /\ n >= 1 /\ Len(f) = n /\ Len(g) = n
    /\ g = [f EXCEPT ![n] = [@ EXCEPT ![reg] = value]]
    => CellWritten(f, g, n, reg, value)
<1> SUFFICES ASSUME NEW f \in Seq(Frame), NEW g \in Seq(Frame), NEW n \in Nat,
                    NEW reg \in Lane24, NEW value \in Word
             PROVE  /\ n >= 1 /\ Len(f) = n /\ Len(g) = n
                    /\ g = [f EXCEPT ![n] = [@ EXCEPT ![reg] = value]]
                    => CellWritten(f, g, n, reg, value)
  OBVIOUS
<1>0. HAVE /\ n >= 1 /\ Len(f) = n /\ Len(g) = n
           /\ g = [f EXCEPT ![n] = [@ EXCEPT ![reg] = value]]
<1>1. /\ \A i \in 1..n : f[i] \in Frame
      /\ LocalCells(f) \in Seq(Logical!Group) /\ Len(LocalCells(f)) = n
      /\ OverlapCells(f) \in Seq(Logical!Group) /\ Len(OverlapCells(f)) = n + 1
      /\ \A i \in 1..n :
           /\ LocalCells(f)[i] = [lane \in 0..7 |-> f[i][8 + lane]]
           /\ OverlapCells(f)[i] = [lane \in 0..7 |-> f[i][lane]]
      /\ OverlapCells(f)[n + 1] = [lane \in 0..7 |-> f[n][16 + lane]]
  BY <1>0, CellsOf, Zenon
<1>2. /\ LocalCells(g) \in Seq(Logical!Group) /\ Len(LocalCells(g)) = n
      /\ OverlapCells(g) \in Seq(Logical!Group) /\ Len(OverlapCells(g)) = n + 1
      /\ \A i \in 1..n :
           /\ LocalCells(g)[i] = [lane \in 0..7 |-> g[i][8 + lane]]
           /\ OverlapCells(g)[i] = [lane \in 0..7 |-> g[i][lane]]
      /\ OverlapCells(g)[n + 1] = [lane \in 0..7 |-> g[n][16 + lane]]
  BY <1>0, CellsOf, Zenon
<1>3. /\ n \in 1..n
      /\ \A i \in 1..(n + 1) : i \in 1..n \/ i = n + 1
      /\ n \in 1..(n + 1) /\ n + 1 \in 1..(n + 1) /\ n # n + 1
  BY <1>0
<1>4. PICK a \in Frame : a = f[n]
  BY <1>1, <1>3
<1>5. PICK b : b = [a EXCEPT ![reg] = value]
  OBVIOUS
<1>6. /\ g[n] = b
      /\ \A i \in 1..n : i # n => g[i] = f[i]
  BY <1>0, <1>3, <1>4, <1>5
<1>7. ASSUME NEW i \in 1..n, i # n
      PROVE  /\ LocalCells(g)[i] = LocalCells(f)[i]
             /\ OverlapCells(g)[i] = OverlapCells(f)[i]
  <2>1. g[i] = f[i]
    BY <1>6, <1>7
  <2>2. /\ LocalCells(g)[i] = [lane \in 0..7 |-> g[i][8 + lane]]
        /\ LocalCells(f)[i] = [lane \in 0..7 |-> f[i][8 + lane]]
        /\ OverlapCells(g)[i] = [lane \in 0..7 |-> g[i][lane]]
        /\ OverlapCells(f)[i] = [lane \in 0..7 |-> f[i][lane]]
    BY <1>1, <1>2
  <2>3. QED
    BY <2>1, <2>2
<1>8. /\ LocalCells(f)[n] = [lane \in 0..7 |-> a[8 + lane]]
      /\ OverlapCells(f)[n] = [lane \in 0..7 |-> a[lane]]
      /\ OverlapCells(f)[n + 1] = [lane \in 0..7 |-> a[16 + lane]]
  BY <1>1, <1>3, <1>4, Zenon
<1>9. /\ LocalCells(g)[n] = [lane \in 0..7 |-> b[8 + lane]]
      /\ OverlapCells(g)[n] = [lane \in 0..7 |-> b[lane]]
      /\ OverlapCells(g)[n + 1] = [lane \in 0..7 |-> b[16 + lane]]
  <2>1. /\ LocalCells(g)[n] = [lane \in 0..7 |-> g[n][8 + lane]]
        /\ OverlapCells(g)[n] = [lane \in 0..7 |-> g[n][lane]]
        /\ OverlapCells(g)[n + 1] = [lane \in 0..7 |-> g[n][16 + lane]]
    BY <1>2, <1>3
  <2>2. g[n] = b
    BY <1>6
  <2>3. QED
    BY <2>1, <2>2
<1>10. /\ reg < 8 =>
            /\ OverlapCells(g)[n] = [OverlapCells(f)[n] EXCEPT ![reg] = value]
            /\ LocalCells(g)[n] = LocalCells(f)[n]
            /\ OverlapCells(g)[n + 1] = OverlapCells(f)[n + 1]
       /\ reg \in 8..15 =>
            /\ LocalCells(g)[n] = [LocalCells(f)[n] EXCEPT ![reg - 8] = value]
            /\ OverlapCells(g)[n] = OverlapCells(f)[n]
            /\ OverlapCells(g)[n + 1] = OverlapCells(f)[n + 1]
       /\ reg >= 16 =>
            /\ OverlapCells(g)[n + 1] =
                 [OverlapCells(f)[n + 1] EXCEPT ![reg - 16] = value]
            /\ LocalCells(g)[n] = LocalCells(f)[n]
            /\ OverlapCells(g)[n] = OverlapCells(f)[n]
  <2>1. /\ reg < 8 => reg \notin 8..15 /\ reg < 16
        /\ reg \in 8..15 => reg >= 8 /\ reg < 16
        /\ reg >= 16 => reg >= 8 /\ reg \notin 8..15
    BY DEF Lane24
  <2>2. GroupsWritten(a, b, reg, value)
    BY <1>5, WrittenFrame
  <2>3. QED
    BY <1>8, <1>9, <2>1, <2>2 DEF GroupsWritten
<1>11. /\ n + 1 \in Nat
       /\ reg < 8 => reg \notin 8..15 /\ ~(reg >= 16)
       /\ reg \in 8..15 => ~(reg < 8) /\ ~(reg >= 16)
       /\ reg >= 16 => ~(reg < 8) /\ reg \notin 8..15
  BY DEF Lane24
<1>12. OneReplaced(f, g, n)
  <2>1. n >= 1 /\ Len(f) = n /\ Len(g) = n
    BY <1>0
  <2>2. QED
    BY <2>1, ReplacedCells, Zenon
<1>13. CASE reg < 8
  <2>1. \A i \in 1..n : LocalCells(g)[i] = LocalCells(f)[i]
    BY <1>7, <1>10, <1>13
  <2>2. \A i \in 1..(n + 1) : i # n => OverlapCells(g)[i] = OverlapCells(f)[i]
    BY <1>3, <1>7, <1>10, <1>13
  <2>3. LocalCells(g) = LocalCells(f)
    BY <1>1, <1>2, <2>1, SameCells, Zenon
  <2>4. OverlapCells(g) = [OverlapCells(f) EXCEPT ![n] = OverlapCells(g)[n]]
    BY <1>3, <1>12, <2>2, Zenon DEF OneReplaced
  <2>5. OverlapCells(g)[n] = [OverlapCells(f)[n] EXCEPT ![reg] = value]
    BY <1>10, <1>13
  <2>6. OverlapCells(g) = [OverlapCells(f) EXCEPT ![n] = [@ EXCEPT ![reg] = value]]
    BY <2>4, <2>5
  <2>7. QED
    BY <1>11, <1>13, <2>3, <2>6, Zenon DEF CellWritten
<1>14. CASE reg \in 8..15
  <2>1. \A i \in 1..n : i # n => LocalCells(g)[i] = LocalCells(f)[i]
    BY <1>7
  <2>2. \A i \in 1..(n + 1) : OverlapCells(g)[i] = OverlapCells(f)[i]
    BY <1>3, <1>7, <1>10, <1>14
  <2>3. OverlapCells(g) = OverlapCells(f)
    BY <1>1, <1>2, <1>11, <2>2, SameCells, Zenon
  <2>4. LocalCells(g) = [LocalCells(f) EXCEPT ![n] = LocalCells(g)[n]]
    BY <1>3, <1>12, <2>1, Zenon DEF OneReplaced
  <2>5. LocalCells(g)[n] = [LocalCells(f)[n] EXCEPT ![reg - 8] = value]
    BY <1>10, <1>14
  <2>6. LocalCells(g) = [LocalCells(f) EXCEPT ![n] = [@ EXCEPT ![reg - 8] = value]]
    BY <2>4, <2>5
  <2>7. QED
    BY <1>11, <1>14, <2>3, <2>6, Zenon DEF CellWritten
<1>15. CASE reg >= 16
  <2>1. \A i \in 1..n : LocalCells(g)[i] = LocalCells(f)[i]
    BY <1>7, <1>10, <1>15
  <2>2. \A i \in 1..(n + 1) : i # n + 1 => OverlapCells(g)[i] = OverlapCells(f)[i]
    BY <1>3, <1>7, <1>10, <1>15
  <2>3. LocalCells(g) = LocalCells(f)
    BY <1>1, <1>2, <2>1, SameCells, Zenon
  <2>4. OverlapCells(g) = [OverlapCells(f) EXCEPT ![n + 1] = OverlapCells(g)[n + 1]]
    BY <1>3, <1>12, <2>2, Zenon DEF OneReplaced
  <2>5. OverlapCells(g)[n + 1] = [OverlapCells(f)[n + 1] EXCEPT ![reg - 16] = value]
    BY <1>10, <1>15
  <2>6. OverlapCells(g) =
          [OverlapCells(f) EXCEPT ![n + 1] = [@ EXCEPT ![reg - 16] = value]]
    BY <2>4, <2>5
  <2>7. QED
    BY <1>11, <1>15, <2>3, <2>6, Zenon DEF CellWritten
<1>16. QED
  BY <1>13, <1>14, <1>15 DEF Lane24

-----------------------------------------------------------------------------
\* The steps.

LEMMA LiveShape ==
  ASSUME WindowTypeOK
  PROVE  /\ LiveWindows \in Seq(Frame)
         /\ Len(LiveWindows) = Len(windows)
         /\ LiveWindows[Len(windows)] = VisibleFrame(r)
         /\ \A i \in 1..(Len(windows) - 1) : LiveWindows[i] = windows[i]
<1>1. VisibleFrame(r) \in Frame
  BY VisibleFrameIsFrame DEF WindowTypeOK
<1>2. QED
  BY <1>1 DEF LiveWindows, WindowTypeOK

\* A frame just loaded is what the registers show.
LEMMA LoadedIsVisible ==
  ASSUME NEW frame \in Frame, NEW regs, r' = LoadVisibleWindow(regs, frame)
  PROVE  /\ VisibleFrame(r)' = frame
         /\ \A reg \in 0..7 : r'[reg] = regs[reg]
<1>1. r' = [reg \in Reg |-> IF reg < 8 THEN regs[reg] ELSE frame[reg - 8]]
  BY DEF LoadVisibleWindow
<1>2. VisibleFrame(r)' = [lane \in Lane24 |-> frame[lane]]
  BY <1>1 DEF VisibleFrame, Reg, Lane24
<1>3. QED
  BY <1>1, <1>2 DEF Frame, Reg

LEMMA TopOfAppend ==
  ASSUME NEW S, NEW f \in Seq(S), NEW e \in S
  PROVE  [Append(f, e) EXCEPT ![Len(f) + 1] = e] = Append(f, e)
<1>1. PICK m \in Nat : m = Len(f) + 1
  OBVIOUS
<1>2. PICK t : t = Append(f, e)
  OBVIOUS
<1>3. t \in Seq(S) /\ Len(t) = m /\ t[m] = e
  BY <1>1, <1>2, AppendProperties
<1>4. t \in [1..m -> S]
  BY <1>1, <1>3
<1>5. [t EXCEPT ![m] = e] = t
  BY <1>3, <1>4
<1>6. QED
  BY <1>1, <1>2, <1>5

\* The lanes of the frames built from the registers.
LEMMA FrameLanes ==
  /\ \A lane \in 0..7 : /\ VisibleFrame(r)[lane] = r[8 + lane]
                        /\ VisibleFrame(r)[8 + lane] = r[16 + lane]
                        /\ VisibleFrame(r)[16 + lane] = r[24 + lane]
  /\ \A lane \in 0..7 : /\ ChildFrame(r)[lane] = r[24 + lane]
                        /\ ChildFrame(r)[8 + lane] = 0
                        /\ ChildFrame(r)[16 + lane] = 0
<1>1. ASSUME NEW lane \in 0..7
      PROVE  /\ VisibleFrame(r)[lane] = r[8 + lane]
             /\ VisibleFrame(r)[8 + lane] = r[16 + lane]
             /\ VisibleFrame(r)[16 + lane] = r[24 + lane]
  <2>1. /\ lane + 8 = 8 + lane
        /\ (8 + lane) + 8 = 16 + lane
        /\ (16 + lane) + 8 = 24 + lane
        /\ lane \in Lane24 /\ 8 + lane \in Lane24 /\ 16 + lane \in Lane24
    BY DEF Lane24
  <2>2. \A l \in Lane24 : VisibleFrame(r)[l] = r[l + 8]
    BY DEF VisibleFrame
  <2>3. QED
    BY <2>1, <2>2
<1>2. ASSUME NEW lane \in 0..7
      PROVE  /\ ChildFrame(r)[lane] = r[24 + lane]
             /\ ChildFrame(r)[8 + lane] = 0
             /\ ChildFrame(r)[16 + lane] = 0
  BY DEF ChildFrame, Lane24
<1>3. QED
  BY <1>1, <1>2

LEMMA AdvanceSimulates ==
  ASSUME WindowTypeOK, AdvanceWindow(r)
  PROVE  Logical!Advance
<1>1. PICK child \in Frame : child = ChildFrame(r)
  BY ChildFrameIsFrame DEF WindowTypeOK
<1>2. VisibleFrame(r)' = child /\ \A reg \in 0..7 : r'[reg] = r[reg]
  BY <1>1, LoadedIsVisible DEF AdvanceWindow
<1>3. windows' = Append(LiveWindows, child)
  BY <1>1 DEF AdvanceWindow, SaveVisibleWindow, LiveWindows
<1>4. LiveWindows' = Append(LiveWindows, child)
  <2>1. LiveWindows' = [windows' EXCEPT ![Len(windows')] = child]
    BY <1>2 DEF LiveWindows
  <2>2. PICK f \in Seq(Frame) : f = LiveWindows
    BY LiveShape
  <2>3. Len(Append(f, child)) = Len(f) + 1
    BY AppendProperties
  <2>4. QED
    BY <1>3, <2>1, <2>2, <2>3, TopOfAppend
<1>5. PICK f \in Seq(Frame) : f = LiveWindows /\ Len(f) >= 1 /\ f[Len(f)] = VisibleFrame(r)
  BY LiveShape DEF WindowTypeOK
<1>6. \A lane \in 0..7 : /\ child[lane] = f[Len(f)][16 + lane]
                         /\ child[8 + lane] = 0
                         /\ child[16 + lane] = 0
  BY <1>1, <1>5, FrameLanes, Zenon
<1>7. /\ LocalCells(Append(f, child)) = Append(LocalCells(f), Logical!ZeroGroup)
      /\ OverlapCells(Append(f, child)) = Append(OverlapCells(f), Logical!ZeroGroup)
  BY <1>5, <1>6, PushedCells
<1>8. globalBar' = globalBar
  BY <1>2 DEF globalBar
<1>9. QED
  BY <1>4, <1>5, <1>7, <1>8 DEF Logical!Advance, localBar, overlapBar

LEMMA RestoreSimulates ==
  ASSUME WindowTypeOK, CanRestore, RestorePreviousWindow(r)
  PROVE  Logical!Restore
<1>1. PICK rest \in Frame : rest = RestoredFrame(r)
  BY RestoredFrameIsFrame DEF WindowTypeOK, CanRestore
<1>2. VisibleFrame(r)' = rest /\ \A reg \in 0..7 : r'[reg] = r[reg]
  BY <1>1, LoadedIsVisible DEF RestorePreviousWindow
<1>3. PICK n \in Nat : n >= 1 /\ Len(windows) = n + 1
  <2>1. /\ Len(windows) - 1 \in Nat /\ Len(windows) - 1 >= 1
        /\ Len(windows) = (Len(windows) - 1) + 1
    BY DEF WindowTypeOK, CanRestore
  <2>2. QED
    BY <2>1
<1>4. PICK f \in Seq(Frame) :
        /\ f = LiveWindows /\ Len(f) = n + 1
        /\ f[n + 1] = VisibleFrame(r)
        /\ \A i \in 1..n : f[i] = windows[i]
  <2>1. Len(windows) - 1 = n
    BY <1>3
  <2>2. QED
    BY <1>3, <2>1, LiveShape
<1>5. PICK s \in Seq(Frame) :
        s = SubSeq(windows, 1, n) /\ Len(s) = n /\ \A i \in 1..n : s[i] = f[i]
  <2>1. windows \in Seq(Frame)
    BY DEF WindowTypeOK
  <2>2. \A i \in 1..n : windows[i] \in Frame
    BY <1>3, <2>1
  <2>3. SubSeq(windows, 1, n) \in Seq(Frame) /\ Len(SubSeq(windows, 1, n)) = n
    BY <1>3, <2>1, <2>2, SubSeqProperties
  <2>4. \A i \in 1..n : SubSeq(windows, 1, n)[i] = windows[i]
    BY <1>3, <2>1
  <2>5. QED
    BY <1>4, <2>3, <2>4
<1>6. PICK g \in Seq(Frame) :
        /\ g = LiveWindows' /\ Len(g) = n /\ g[n] = rest
        /\ \A i \in 1..(n - 1) : g[i] = f[i]
  <2>1. PICK g \in Seq(Frame) :
          /\ g = [s EXCEPT ![n] = rest] /\ Len(g) = n /\ g[n] = rest
          /\ [g EXCEPT ![n] = rest] = g
          /\ \A i \in 1..(n - 1) : g[i] = f[i]
    <3>1. s \in [1..n -> Frame] /\ n \in 1..n
      <4>1. s \in Seq(Frame) /\ Len(s) = n
        BY <1>5
      <4>2. QED
        BY <1>3, <4>1
    <3>2. [s EXCEPT ![n] = rest] \in [1..n -> Frame]
      BY <3>1
    <3>3. PICK g \in [1..n -> Frame] : g = [s EXCEPT ![n] = rest]
      BY <3>2
    <3>4. g \in Seq(Frame) /\ Len(g) = n
      BY <3>3
    <3>5. g[n] = rest /\ [g EXCEPT ![n] = rest] = g
      BY <3>1, <3>3
    <3>6. \A i \in 1..(n - 1) : g[i] = f[i]
      <4>1. \A i \in 1..(n - 1) : i \in 1..n /\ i # n
        BY <1>3
      <4>2. \A i \in 1..n : i # n => g[i] = s[i]
        BY <3>1, <3>3
      <4>3. QED
        BY <1>5, <4>1, <4>2, Zenon
    <3>7. QED
      BY <3>3, <3>4, <3>5, <3>6
  <2>2. windows' = g
    <3>1. Len(windows) - 1 = n
      BY <1>3
    <3>2. QED
      BY <1>1, <1>5, <2>1, <3>1 DEF RestorePreviousWindow
  <2>3. LiveWindows' = [windows' EXCEPT ![Len(windows')] = rest]
    BY <1>2 DEF LiveWindows
  <2>4. QED
    BY <2>1, <2>2, <2>3
<1>7. \A lane \in 0..7 : /\ g[n][lane] = f[n][lane]
                         /\ g[n][8 + lane] = f[n][8 + lane]
                         /\ g[n][16 + lane] = f[n + 1][lane]
  <2>1. rest = [lane \in Lane24 |-> IF lane < 16 THEN f[n][lane] ELSE r[lane - 8]]
    <3>1. Len(windows) - 1 = n /\ n \in 1..n
      BY <1>3
    <3>2. QED
      BY <1>1, <1>4, <3>1 DEF RestoredFrame
  <2>2. ASSUME NEW lane \in 0..7
        PROVE  /\ rest[lane] = f[n][lane]
               /\ rest[8 + lane] = f[n][8 + lane]
               /\ rest[16 + lane] = r[8 + lane]
    <3>1. /\ lane \in Lane24 /\ lane < 16
          /\ 8 + lane \in Lane24 /\ 8 + lane < 16
          /\ 16 + lane \in Lane24 /\ ~(16 + lane < 16)
          /\ (16 + lane) - 8 = 8 + lane
      BY DEF Lane24
    <3>2. \A l \in Lane24 : rest[l] = IF l < 16 THEN f[n][l] ELSE r[l - 8]
      BY <2>1
    <3>3. QED
      BY <3>1, <3>2
  <2>3. \A lane \in 0..7 : f[n + 1][lane] = r[8 + lane]
    BY <1>4, FrameLanes, Zenon
  <2>4. QED
    BY <1>6, <2>2, <2>3, Zenon
<1>8. /\ LocalCells(g) = SubSeq(LocalCells(f), 1, n)
      /\ OverlapCells(g) = SubSeq(OverlapCells(f), 1, n + 1)
  BY <1>3, <1>4, <1>6, <1>7, PoppedCells
<1>9. globalBar' = globalBar
  BY <1>2 DEF globalBar
<1>10. Len(LocalCells(f)) = n + 1
  BY <1>4, CellShape
<1>11. QED
  BY <1>3, <1>4, <1>6, <1>8, <1>9, <1>10
     DEF Logical!Restore, Logical!Current, localBar, overlapBar

LEMMA WriteSimulates ==
  ASSUME WindowTypeOK, NEW reg \in Reg, NEW value \in Word,
         WriteRegister(reg, value)
  PROVE  \E lane \in Logical!Lane :
           \/ Logical!WriteGlobal(lane, value)
           \/ Logical!WriteIncoming(lane, value)
           \/ Logical!WriteLocal(lane, value)
           \/ Logical!WriteOutgoing(lane, value)
<1>1. r \in [Reg -> Word] /\ r' = [r EXCEPT ![reg] = value] /\ windows' = windows
  BY DEF WindowTypeOK, WriteRegister
<1>2. PICK f \in Seq(Frame), n \in Nat :
        /\ f = LiveWindows /\ n >= 1 /\ Len(f) = n /\ n = Len(windows)
        /\ f[n] = VisibleFrame(r)
  <2>1. Len(windows) \in Nat /\ Len(windows) >= 1
    BY DEF WindowTypeOK
  <2>2. QED
    BY <2>1, LiveShape
<1>3. f \in [1..n -> Frame] /\ n \in 1..n
  <2>1. f \in Seq(Frame) /\ Len(f) = n /\ n >= 1
    BY <1>2
  <2>2. QED
    BY <2>1
<1>4. LiveWindows' = [f EXCEPT ![n] = VisibleFrame(r)']
  <2>1. LiveWindows' = [windows EXCEPT ![n] = VisibleFrame(r)']
    BY <1>1, <1>2 DEF LiveWindows
  <2>2. f = [windows EXCEPT ![n] = VisibleFrame(r)]
    BY <1>2 DEF LiveWindows
  <2>3. windows \in Seq(Frame)
    BY DEF WindowTypeOK
  <2>4. QED
    BY <2>1, <2>2, <2>3
<1>5. CASE reg < 8
  <2>1. VisibleFrame(r)' = VisibleFrame(r)
    <3>1. \A l \in Lane24 : l + 8 \in Reg /\ l + 8 # reg
      BY <1>5 DEF Reg, Lane24
    <3>2. \A l \in Lane24 : r'[l + 8] = r[l + 8]
      BY <1>1, <3>1
    <3>3. QED
      BY <3>2 DEF VisibleFrame
  <2>2. LiveWindows' = f
    BY <1>2, <1>3, <1>4, <2>1
  <2>3. globalBar' = [globalBar EXCEPT ![reg] = value]
    <3>1. \A l \in 0..7 : r'[l] = IF l = reg THEN value ELSE r[l]
      <4>1. \A l \in Reg : r'[l] = IF l = reg THEN value ELSE r[l]
        BY <1>1
      <4>2. \A l \in 0..7 : l \in Reg
        BY DEF Reg
      <4>3. QED
        BY <4>1, <4>2
    <3>2. globalBar' = [l \in 0..7 |-> IF l = reg THEN value ELSE r[l]]
      BY <3>1 DEF globalBar
    <3>3. QED
      BY <3>2 DEF globalBar
  <2>4. reg \in Logical!Lane
    BY <1>5 DEF Logical!Lane, Reg
  <2>5. Logical!WriteGlobal(reg, value)
    BY <1>2, <2>2, <2>3 DEF Logical!WriteGlobal, localBar, overlapBar
  <2>6. QED
    BY <2>4, <2>5
<1>6. CASE reg >= 8
  <2>1. PICK lane24 \in Lane24 : lane24 = reg - 8
    BY <1>6 DEF Reg, Lane24
  <2>2. VisibleFrame(r)' = [VisibleFrame(r) EXCEPT ![lane24] = value]
    <3>1. \A l \in Lane24 : l + 8 = reg <=> l = lane24
      BY <2>1 DEF Reg, Lane24
    <3>2. \A l \in Lane24 : l + 8 \in Reg
      BY DEF Reg, Lane24
    <3>3. VisibleFrame(r)' =
            [l \in Lane24 |-> IF l = lane24 THEN value ELSE r[l + 8]]
      BY <1>1, <3>1, <3>2 DEF VisibleFrame
    <3>4. QED
      BY <3>3 DEF VisibleFrame
  <2>3. PICK g \in Seq(Frame) :
          /\ g = LiveWindows' /\ Len(g) = n
          /\ g = [f EXCEPT ![n] = [@ EXCEPT ![lane24] = value]]
    <3>1. [f[n] EXCEPT ![lane24] = value] \in Frame
      <4>1. f[n] \in Frame
        BY <1>3
      <4>2. QED
        BY <4>1 DEF Frame
    <3>2. PICK g \in [1..n -> Frame] :
            g = [f EXCEPT ![n] = [f[n] EXCEPT ![lane24] = value]]
      BY <1>3, <3>1
    <3>3. g = LiveWindows'
      BY <1>2, <1>4, <2>2, <3>2
    <3>4. g \in Seq(Frame) /\ Len(g) = n
      BY <3>2
    <3>5. QED
      BY <3>2, <3>3, <3>4
  <2>4. CellWritten(f, g, n, lane24, value)
    BY <1>2, <2>3, WrittenCells, Zenon
  <2>5. globalBar' = globalBar
    <3>1. \A l \in 0..7 : l \in Reg /\ l # reg
      BY <1>6 DEF Reg
    <3>2. \A l \in 0..7 : r'[l] = r[l]
      BY <1>1, <3>1
    <3>3. QED
      BY <3>2 DEF globalBar
  <2>6. /\ localBar = LocalCells(f) /\ localBar' = LocalCells(g)
        /\ overlapBar = OverlapCells(f) /\ overlapBar' = OverlapCells(g)
    BY <1>2, <2>3 DEF localBar, overlapBar
  <2>7. Logical!Current = n
    BY <1>2, <2>6, CellsOf DEF Logical!Current
  <2>8. CASE lane24 < 8
    <3>1. Logical!WriteIncoming(lane24, value)
      BY <2>4, <2>5, <2>6, <2>7, <2>8
         DEF CellWritten, Logical!WriteIncoming
    <3>2. QED
      BY <2>8, <3>1 DEF Logical!Lane, Lane24
  <2>9. CASE lane24 \in 8..15
    <3>1. Logical!WriteLocal(lane24 - 8, value)
      BY <2>4, <2>5, <2>6, <2>7, <2>9
         DEF CellWritten, Logical!WriteLocal
    <3>2. lane24 - 8 \in Logical!Lane
      BY <2>9 DEF Logical!Lane
    <3>3. QED
      BY <3>1, <3>2
  <2>10. CASE lane24 >= 16
    <3>1. Logical!WriteOutgoing(lane24 - 16, value)
      BY <2>4, <2>5, <2>6, <2>7, <2>10
         DEF CellWritten, Logical!WriteOutgoing
    <3>2. lane24 - 16 \in Logical!Lane
      BY <2>10 DEF Logical!Lane, Lane24
    <3>3. QED
      BY <3>1, <3>2
  <2>11. QED
    BY <2>8, <2>9, <2>10 DEF Lane24
<1>7. QED
  BY <1>5, <1>6 DEF Reg

\* The copying machine implements the aliasing one: every step of the register
\* file is a step of LogicalWindows on the shared cells, or changes none of
\* them (advance_window, restore_previous_window, save_ and load_visible_window
\* and every register write between them).
THEOREM WindowRefinement == WindowSpec => ImplementsLogicalWindows
<1>1. WindowInit => Logical!LogicalInit
  <2> SUFFICES ASSUME WindowInit PROVE Logical!LogicalInit
    OBVIOUS
  <2>1. WindowTypeOK
    BY WordAssumption DEF WindowInit, WindowTypeOK, Frame, WindowFault
  <2>2. /\ LiveWindows \in Seq(Frame) /\ Len(LiveWindows) = 1
    BY <2>1, LiveShape DEF WindowInit
  <2>3. localBar \in [1..1 -> Logical!Group] /\ overlapBar \in [1..2 -> Logical!Group]
    <3>1. PICK f \in Seq(Frame) : f = LiveWindows /\ Len(f) = 1 /\ Len(f) >= 1
      BY <2>2
    <3>2. /\ LocalCells(f) \in Seq(Logical!Group) /\ Len(LocalCells(f)) = Len(f)
          /\ OverlapCells(f) \in Seq(Logical!Group) /\ Len(OverlapCells(f)) = Len(f) + 1
      BY <3>1, CellShape, Zenon
    <3>3. /\ localBar \in Seq(Logical!Group) /\ Len(localBar) = 1
          /\ overlapBar \in Seq(Logical!Group) /\ Len(overlapBar) = 2
      BY <3>1, <3>2 DEF localBar, overlapBar
    <3>4. /\ localBar \in [1..Len(localBar) -> Logical!Group]
          /\ overlapBar \in [1..Len(overlapBar) -> Logical!Group]
      BY <3>3, LenProperties, Zenon
    <3>5. QED
      BY <3>3, <3>4, Zenon
  <2>4. globalBar \in Logical!Group
    BY <2>1 DEF globalBar, WindowTypeOK, Reg, Logical!Group, Logical!Lane
  <2>5. QED
    BY <2>3, <2>4 DEF Logical!LogicalInit
<1>2. WindowTypeOK /\ [WindowNext]_windowVars
      => [Logical!LogicalNext]_(Logical!logicalVars)
  <2> SUFFICES ASSUME WindowTypeOK, [WindowNext]_windowVars
               PROVE  [Logical!LogicalNext]_(Logical!logicalVars)
    OBVIOUS
  <2>1. CASE WinNew
    BY <2>1, AdvanceSimulates DEF WinNew, Logical!LogicalNext
  <2>2. CASE WinPrev
    BY <2>2, RestoreSimulates DEF WinPrev, Logical!LogicalNext
  <2>3. ASSUME NEW reg \in Written, NEW value \in Word, WriteRegister(reg, value)
        PROVE  Logical!LogicalNext
    BY <2>3, WriteSimulates, WrittenAssumption DEF Logical!LogicalNext, Reg
  <2>4. CASE UNCHANGED <<r, windows>>
    BY <2>4 DEF Logical!logicalVars, globalBar, localBar, overlapBar,
                LiveWindows, VisibleFrame, LocalCells, OverlapCells
  <2>5. QED
    BY <2>1, <2>2, <2>3, <2>4
       DEF WindowNext, WindowStep, WinNewDisabled, WinPrevUnderflow, WinReserve,
           WinPin, WinRelease, WinReleaseUnbalanced, Throw, windowVars
<1>3. QED
  BY <1>1, <1>2, WindowTypeCorrect, PTL
     DEF WindowSpec, ImplementsLogicalWindows, Logical!LogicalSpec

-----------------------------------------------------------------------------
\* Retention counts of suspended windows change under no instruction
\* (window_pin_counts is only ever touched at its back).
THEOREM SuspendedPins == WindowSpec => SuspendedPinsKept
<1>1. WindowTypeOK /\ [WindowNext]_windowVars =>
        [\A i \in 1..(Len(windowPinCounts) - 1) :
           windowPinCounts'[i] = windowPinCounts[i]]_windowVars
  <2> SUFFICES ASSUME WindowTypeOK, WindowNext,
                      NEW i \in 1..(Len(windowPinCounts) - 1)
               PROVE  windowPinCounts'[i] = windowPinCounts[i]
    OBVIOUS
  <2>1. windowPinCounts \in Seq(Nat) /\ i \in 1..Len(windowPinCounts)
        /\ i # Len(windowPinCounts)
    BY DEF WindowTypeOK
  <2>2. CASE WinNew
    BY <2>1, <2>2 DEF WinNew, AdvanceWindow
  <2>3. CASE WinPrev
    BY <2>1, <2>3 DEF WinPrev, CanRestore, RestorePreviousWindow, WindowTypeOK
  <2>4. CASE WinPin \/ WinRelease
    BY <2>1, <2>4 DEF WinPin, WinRelease
  <2>5. CASE UNCHANGED windowPinCounts
    BY <2>5
  <2>6. QED
    BY <2>2, <2>3, <2>4, <2>5
       DEF WindowNext, WindowStep, WinNewDisabled, WinPrevUnderflow, WinReserve,
           WinReleaseUnbalanced, WriteRegister, Throw, windowVars
<1>2. QED
  BY <1>1, WindowTypeCorrect, PTL DEF WindowSpec, SuspendedPinsKept

\* With the feature off no window is created and the root copy is never
\* written (the first lines of advance_window and restore_previous_window).
THEOREM FlatWhenDisabled == WindowSpec => []DisabledStaysFlat
<1>1. WindowInit => DisabledStaysFlat
  BY DEF WindowInit, DisabledStaysFlat
<1>2. DisabledStaysFlat /\ [WindowNext]_windowVars => DisabledStaysFlat'
  BY DEF DisabledStaysFlat, WindowNext, WindowStep, WinNew, WinNewDisabled, WinPrev,
         WinPrevUnderflow, WinReserve, WinPin, WinRelease, WinReleaseUnbalanced,
         WriteRegister, Throw, CanRestore, windowVars
<1>3. QED
  BY <1>1, <1>2, PTL DEF WindowSpec

-----------------------------------------------------------------------------
(* Stack frames: what prologues, epilogues, frame accesses and call        *)
(* sequences leave in the registers and in memory.                         *)
\* The activation has its frame.
Active(a) == a.phase \in {"body", "calling", "returned"}

\* Where R7 is after the prologue, before any allocation.
Bottom(a) == a.entry - SavedPointer(a.fn) - StackSize[a.fn]

\* Where R7 is in the body, and where it is now: the lowest slot of the frame.
Base(a) == IF a.buffers = <<>> THEN Bottom(a) ELSE a.buffers[Len(a.buffers)].at
Lowest(a) ==
  IF ~Active(a) THEN a.entry
  ELSE IF a.phase = "body" THEN Base(a) ELSE Base(a) - CallFrame(a.callee)

\* What R6 is while it runs.
HeldPointer(a) == IF Active(a) /\ HasFP(a.fn) THEN Bottom(a) ELSE a.saved

Buffer == [at : Int, value : Int]

ActivationRecord ==
  [fn : Function, phase : Phase, callee : Function, passed : Seq(Int),
   entry : 0..StackTop, saved : Int, arguments : Seq(Int), objects : Seq(Int),
   buffers : Seq(Buffer)]

\* The parts of a frame: as many objects and arguments as the function has, buffers
\* one below the other and below the objects, room for the arguments of a call below
\* the buffers, all of it on the stack.
WellFormed(a) ==
  /\ a \in ActivationRecord
  /\ DOMAIN a.objects = 1..Locals[a.fn]
  /\ Len(a.arguments) = StackArguments[a.fn]
  /\ a.phase \in {"calling", "returned"} => DOMAIN a.passed = 1..StackArguments[a.callee]
  /\ a.phase = "entry" =>
       a.buffers = <<>> /\ \A o \in DOMAIN a.objects : a.objects[o] = Unset
  /\ ~HasFP(a.fn) => a.buffers = <<>>
  /\ Active(a) =>
       /\ Lowest(a) >= 0
       /\ \A b \in DOMAIN a.buffers : a.buffers[b].at < Bottom(a)
       /\ \A b, c \in DOMAIN a.buffers : b < c => a.buffers[c].at < a.buffers[b].at

\* Where the parts are in a memory m.
PointerHeld(a, m) == Active(a) /\ HasFP(a.fn) => m[a.entry - Block] = a.saved
BuffersHeld(a, m) ==
  Active(a) => \A b \in DOMAIN a.buffers :
                 a.buffers[b].value # Unset => m[a.buffers[b].at] = a.buffers[b].value
ObjectsHeld(a, m) ==
  Active(a) => \A o \in DOMAIN a.objects :
                 a.objects[o] # Unset => m[a.entry - SavedPointer(a.fn) - o] = a.objects[o]
PassedHeld(a, m) ==
  a.phase = "calling" =>
    \A k \in DOMAIN a.passed :
      a.passed[k] # Unset => m[Lowest(a) + k - 1] = a.passed[k]

\* Objects and arguments are certain only before an object was stored displaced.
FrameHeld(a, m, sure) ==
  /\ PointerHeld(a, m) /\ BuffersHeld(a, m)
  /\ sure => ObjectsHeld(a, m) /\ PassedHeld(a, m)

\* An open call and the activation it began.
Linked(a, b) ==
  /\ a.phase = "calling"
  /\ \A k \in DOMAIN a.passed : a.passed[k] # Unset
  /\ b.fn = a.callee /\ b.arguments = a.passed
  /\ b.entry = Lowest(a) - 1
  /\ b.saved = HeldPointer(a)

FrameInv ==
  /\ memory \in [Slot -> Int]
  /\ displaced \in BOOLEAN
  /\ calls \in Seq(ActivationRecord) /\ Len(calls) \in 1..MaxCalls
  /\ \A i \in 1..Len(calls) : WellFormed(calls[i])
  /\ calls[1].entry = StackTop /\ StackArguments[calls[1].fn] = 0
  /\ \A i \in 1..(Len(calls) - 1) : Linked(calls[i], calls[i + 1])
  /\ \A i, j \in 1..Len(calls) : i < j => calls[j].entry < Lowest(calls[i])
  /\ r7 = Lowest(Top) /\ r6 = HeldPointer(Top)
  /\ \A i \in 1..Len(calls) : FrameHeld(calls[i], memory, ~displaced)
  /\ \A i \in 2..Len(calls) : memory[calls[i].entry] = ReturnMark(i - 1)

-----------------------------------------------------------------------------
\* Sizes.
LEMMA RoundUp ==
  ASSUME NEW value \in Nat, NEW unit \in Nat \ {0}
  PROVE  /\ ((value + unit - 1) \div unit) * unit \in Nat
         /\ value <= ((value + unit - 1) \div unit) * unit
<1> DEFINE total == value + unit - 1
           quotient == total \div unit
<1>1. total \in Nat
  OBVIOUS
<1>2. quotient \in Nat /\ (total % unit) \in 0..(unit - 1)
      /\ total = quotient * unit + (total % unit)
  BY <1>1
<1>3. quotient * unit \in Nat
  BY <1>2
<1>4. quotient * unit >= value
  BY <1>2, <1>3
<1> QED
  BY <1>3, <1>4

LEMMA CallFrameHolds ==
  ASSUME NEW g \in Function
  PROVE  CallFrame(g) \in Nat /\ StackArguments[g] <= CallFrame(g)
<1>1. Block \in Nat \ {0} /\ StackArguments[g] \in Nat
  BY BlockAssumption, FunctionAssumption
<1> QED
  BY <1>1, RoundUp DEF CallFrame

LEMMA Sizes ==
  ASSUME NEW f \in Function
  PROVE  /\ StackSize[f] \in Nat /\ Locals[f] \in Nat /\ StackArguments[f] \in Nat
         /\ Locals[f] <= StackSize[f]
         /\ SavedPointer(f) \in Nat
         /\ HasFP(f) => SavedPointer(f) = Block /\ Block >= 1
         /\ ~HasFP(f) => SavedPointer(f) = 0
BY BlockAssumption, FunctionAssumption DEF SavedPointer, HasFP

LEMMA RecordTypes ==
  ASSUME NEW a \in ActivationRecord
  PROVE  /\ a.fn \in Function /\ a.callee \in Function /\ a.phase \in Phase
         /\ a.entry \in 0..StackTop /\ a.entry \in Int /\ a.saved \in Int
         /\ a.passed \in Seq(Int) /\ a.arguments \in Seq(Int)
         /\ a.objects \in Seq(Int) /\ a.buffers \in Seq(Buffer)
BY StackAssumption DEF ActivationRecord

\* The order of the parts of a frame.
LEMMA Places ==
  ASSUME NEW a, WellFormed(a)
  PROVE  /\ Bottom(a) \in Int /\ Base(a) \in Int /\ Lowest(a) \in Int
         /\ Bottom(a) + StackSize[a.fn] + SavedPointer(a.fn) = a.entry
         /\ 0 <= Lowest(a) /\ Lowest(a) <= a.entry
         /\ Active(a) => Lowest(a) <= Base(a) /\ Base(a) <= Bottom(a)
         /\ a.phase \in {"calling", "returned"} =>
              Lowest(a) + StackArguments[a.callee] <= Base(a)
         /\ Active(a) => \A b \in DOMAIN a.buffers :
              /\ a.buffers[b].at \in Int
              /\ Base(a) <= a.buffers[b].at /\ a.buffers[b].at < Bottom(a)
<1>1. /\ a \in ActivationRecord /\ a.fn \in Function /\ a.callee \in Function
      /\ a.entry \in 0..StackTop /\ a.entry \in Int /\ a.entry >= 0
      /\ a.buffers \in Seq(Buffer)
  BY RecordTypes, StackAssumption DEF WellFormed
<1>2. /\ StackSize[a.fn] \in Nat /\ SavedPointer(a.fn) \in Nat
      /\ CallFrame(a.callee) \in Nat /\ StackArguments[a.callee] \in Nat
      /\ StackArguments[a.callee] <= CallFrame(a.callee)
  BY <1>1, Sizes, CallFrameHolds
<1>3. /\ Bottom(a) \in Int /\ Bottom(a) <= a.entry
      /\ Bottom(a) + StackSize[a.fn] + SavedPointer(a.fn) = a.entry
  BY <1>1, <1>2 DEF Bottom
<1> DEFINE n == Len(a.buffers)
<1>4. n \in Nat /\ \A b \in 1..n : a.buffers[b].at \in Int
  <2>1. n \in Nat /\ \A b \in 1..n : a.buffers[b] \in Buffer
    BY <1>1
  <2>2. \A buffer \in Buffer : buffer.at \in Int
    BY DEF Buffer
  <2> QED
    BY <2>1, <2>2
<1>5. DOMAIN a.buffers = 1..n /\ (a.buffers # <<>> => n >= 1)
  BY <1>1
<1>6. Base(a) \in Int
  BY <1>3, <1>4, <1>5 DEF Base
<1>7. ASSUME Active(a)
      PROVE  /\ Base(a) <= Bottom(a)
             /\ \A b \in DOMAIN a.buffers :
                  Base(a) <= a.buffers[b].at /\ a.buffers[b].at < Bottom(a)
  <2>1. CASE a.buffers = <<>>
    BY <2>1, <1>3 DEF Base
  <2>2. CASE a.buffers # <<>>
    <3>1. n \in 1..n /\ Base(a) = a.buffers[n].at
      BY <2>2, <1>4, <1>5 DEF Base
    <3>2. \A b \in 1..n : a.buffers[b].at < Bottom(a)
      BY <1>5, <1>7 DEF WellFormed
    <3>3. \A b \in 1..n : b < n => a.buffers[n].at < a.buffers[b].at
      BY <1>5, <1>7, <3>1 DEF WellFormed
    <3>4. \A b \in 1..n : Base(a) <= a.buffers[b].at
      BY <1>4, <3>1, <3>3
    <3> QED
      BY <1>3, <1>4, <1>5, <1>6, <3>1, <3>2, <3>4
  <2> QED
    BY <2>1, <2>2
<1>8. Lowest(a) \in Int
  BY <1>1, <1>2, <1>6 DEF Lowest
<1>9. Active(a) => Lowest(a) <= Base(a)
  BY <1>2, <1>6 DEF Lowest
<1>10. 0 <= Lowest(a) /\ Lowest(a) <= a.entry
  <2>1. CASE Active(a)
    BY <1>1, <1>3, <1>6, <1>7, <1>8, <1>9, <2>1 DEF WellFormed
  <2>2. CASE ~Active(a)
    BY <1>1, <2>2 DEF Lowest
  <2> QED
    BY <2>1, <2>2
<1>11. a.phase \in {"calling", "returned"} =>
         Lowest(a) + StackArguments[a.callee] <= Base(a)
  BY <1>2, <1>6 DEF Lowest, Active
<1> QED
  BY <1>3, <1>4, <1>5, <1>6, <1>7, <1>8, <1>9, <1>10, <1>11

\* A frame is kept by a step that changes no slot of it.
LEMMA HeldKept ==
  ASSUME NEW a, WellFormed(a), NEW m, NEW n, NEW sure, NEW still, still => sure,
         FrameHeld(a, m, sure),
         \A x \in Slot : x >= Lowest(a) /\ x # a.entry => n[x] = m[x]
  PROVE  FrameHeld(a, n, still)
<1>1. /\ a \in ActivationRecord /\ a.fn \in Function /\ a.callee \in Function
      /\ a.entry \in 0..StackTop /\ a.entry \in Int
  BY RecordTypes DEF WellFormed
<1>2. /\ Bottom(a) \in Int /\ Base(a) \in Int /\ Lowest(a) \in Int
      /\ Bottom(a) + StackSize[a.fn] + SavedPointer(a.fn) = a.entry
      /\ 0 <= Lowest(a)
  BY Places
<1>3. /\ StackSize[a.fn] \in Nat /\ SavedPointer(a.fn) \in Nat
      /\ Locals[a.fn] \in Nat /\ Locals[a.fn] <= StackSize[a.fn]
      /\ HasFP(a.fn) => SavedPointer(a.fn) = Block /\ Block >= 1
      /\ StackArguments[a.callee] \in Nat
  BY <1>1, Sizes
<1>4. Block \in Int /\ StackTop \in Nat
  BY BlockAssumption, StackAssumption
<1>5. ASSUME Active(a), NEW x \in Int, Lowest(a) <= x, x < a.entry
      PROVE  n[x] = m[x]
  <2>1. x \in Slot /\ x # a.entry
    BY <1>1, <1>2, <1>4, <1>5 DEF Slot
  <2> QED
    BY <1>5, <2>1
<1>6. PointerHeld(a, n)
  <2> SUFFICES ASSUME Active(a), HasFP(a.fn) PROVE n[a.entry - Block] = a.saved
    BY DEF PointerHeld
  <2>1. Lowest(a) <= Bottom(a)
    BY <1>2, Places
  <2>2. a.entry - Block \in Int /\ Lowest(a) <= a.entry - Block /\ a.entry - Block < a.entry
    BY <1>1, <1>2, <1>3, <1>4, <2>1
  <2> QED
    BY <1>5, <2>2 DEF FrameHeld, PointerHeld
<1>7. BuffersHeld(a, n)
  <2> SUFFICES ASSUME Active(a), NEW b \in DOMAIN a.buffers, a.buffers[b].value # Unset
               PROVE  n[a.buffers[b].at] = a.buffers[b].value
    BY DEF BuffersHeld
  <2> DEFINE x == a.buffers[b].at
  <2>1. x \in Int /\ Base(a) <= x /\ x < Bottom(a) /\ Lowest(a) <= Base(a)
    BY Places
  <2>2. m[x] = a.buffers[b].value
    BY DEF FrameHeld, BuffersHeld
  <2> HIDE DEF x
  <2>3. Lowest(a) <= x /\ x < a.entry
    BY <1>1, <1>2, <1>3, <2>1
  <2>4. n[x] = m[x]
    BY <1>5, <2>1, <2>3
  <2> QED
    BY <2>2, <2>4 DEF x
<1>8. ASSUME still PROVE ObjectsHeld(a, n)
  <2> SUFFICES ASSUME Active(a), NEW o \in DOMAIN a.objects, a.objects[o] # Unset
               PROVE  n[a.entry - SavedPointer(a.fn) - o] = a.objects[o]
    BY DEF ObjectsHeld
  <2> DEFINE x == a.entry - SavedPointer(a.fn) - o
  <2>1. o \in 1..Locals[a.fn] /\ Lowest(a) <= Base(a) /\ Base(a) <= Bottom(a)
    BY Places DEF WellFormed
  <2>2. m[x] = a.objects[o]
    BY <1>8 DEF FrameHeld, ObjectsHeld
  <2>3. x \in Int /\ Lowest(a) <= x /\ x < a.entry
    BY <1>1, <1>2, <1>3, <2>1
  <2>4. n[x] = m[x]
    BY <1>5, <2>3
  <2> QED
    BY <2>2, <2>4
<1>9. ASSUME still PROVE PassedHeld(a, n)
  <2> SUFFICES ASSUME a.phase = "calling", NEW k \in DOMAIN a.passed, a.passed[k] # Unset
               PROVE  n[Lowest(a) + k - 1] = a.passed[k]
    BY DEF PassedHeld
  <2> DEFINE x == Lowest(a) + k - 1
  <2>1. k \in 1..StackArguments[a.callee] /\ Active(a)
    BY DEF WellFormed, Active
  <2>2. Base(a) <= Bottom(a) /\ Lowest(a) + StackArguments[a.callee] <= Base(a)
    BY <2>1, Places
  <2>3. m[x] = a.passed[k]
    BY <1>9 DEF FrameHeld, PassedHeld
  <2>4. x \in Int /\ Lowest(a) <= x /\ x < a.entry
    BY <1>1, <1>2, <1>3, <2>1, <2>2
  <2>5. n[x] = m[x]
    BY <1>5, <2>1, <2>4
  <2> QED
    BY <2>3, <2>5
<1> QED
  BY <1>6, <1>7, <1>8, <1>9 DEF FrameHeld

-----------------------------------------------------------------------------
\* The running activation.
LEMMA TopFacts ==
  ASSUME FrameInv
  PROVE  /\ Len(calls) \in Nat \ {0} /\ Len(calls) \in 1..Len(calls)
         /\ WellFormed(Top) /\ Top \in ActivationRecord
         /\ FrameHeld(Top, memory, ~displaced)
         /\ Top.entry \in Int /\ Top.fn \in Function /\ Top.callee \in Function
         /\ StackArguments[Top.fn] \in Nat
<1>1. Len(calls) \in 1..MaxCalls
  BY DEF FrameInv
<1>2. Len(calls) \in Nat \ {0} /\ Len(calls) \in 1..Len(calls)
  BY <1>1, BoundAssumption
<1>3. WellFormed(Top) /\ FrameHeld(Top, memory, ~displaced)
  BY <1>2 DEF FrameInv, Top
<1>4. Top \in ActivationRecord
  BY <1>3 DEF WellFormed
<1> QED
  BY <1>2, <1>3, <1>4, RecordTypes, Sizes

\* A step of the running function, which becomes t: it stores below its return
\* address only.
LEMMA TopStep ==
  ASSUME FrameInv, NEW t, SetTop(t), WellFormed(t),
         t.fn = Top.fn, t.entry = Top.entry, t.saved = Top.saved,
         t.arguments = Top.arguments,
         memory' \in [Slot -> Int], displaced' \in BOOLEAN, displaced => displaced',
         r7' = Lowest(t), r6' = HeldPointer(t), FrameHeld(t, memory', ~displaced'),
         \A x \in Slot : x >= Top.entry => memory'[x] = memory[x]
  PROVE  FrameInv'
<1> DEFINE n == Len(calls)
<1>1. n \in Nat \ {0} /\ n \in 1..n /\ Top.entry \in Int
  BY TopFacts
<1>2. /\ calls \in Seq(ActivationRecord) /\ n \in 1..MaxCalls
      /\ \A i \in 1..n : WellFormed(calls[i])
      /\ \A i \in 1..(n - 1) : Linked(calls[i], calls[i + 1])
      /\ \A i, j \in 1..n : i < j => calls[j].entry < Lowest(calls[i])
      /\ \A i \in 1..n : FrameHeld(calls[i], memory, ~displaced)
      /\ \A i \in 2..n : memory[calls[i].entry] = ReturnMark(i - 1)
      /\ calls[1].entry = StackTop /\ StackArguments[calls[1].fn] = 0
  BY DEF FrameInv
<1>3. t \in ActivationRecord
  BY DEF WellFormed
<1>4. /\ calls' \in Seq(ActivationRecord) /\ Len(calls') = n /\ calls'[n] = t
      /\ \A i \in 1..n : i # n => calls'[i] = calls[i]
  BY <1>1, <1>2, <1>3 DEF SetTop
<1>5. \A i \in 1..n : calls'[i].entry = calls[i].entry /\ calls'[i].fn = calls[i].fn
  BY <1>4 DEF Top
<1>6. Top' = t
  BY <1>4 DEF Top
<1>7. \A i \in 1..n : WellFormed(calls'[i])
  BY <1>2, <1>4
<1>8. \A i \in 1..(n - 1) : Linked(calls'[i], calls'[i + 1])
  <2> TAKE i \in 1..(n - 1)
  <2>1. /\ i \in 1..n /\ i # n /\ i + 1 \in 1..n
        /\ Linked(calls[i], calls[i + 1])
    BY <1>1, <1>2
  <2>2. calls'[i] = calls[i]
    BY <1>4, <2>1
  <2>3. /\ calls'[i + 1].fn = calls[i + 1].fn
        /\ calls'[i + 1].arguments = calls[i + 1].arguments
        /\ calls'[i + 1].entry = calls[i + 1].entry
        /\ calls'[i + 1].saved = calls[i + 1].saved
    BY <1>4, <2>1 DEF Top
  <2> QED
    BY <2>1, <2>2, <2>3 DEF Linked
<1>9. ASSUME NEW i \in 1..n, NEW j \in 1..n, i < j
      PROVE  calls'[j].entry < Lowest(calls'[i])
  <2>1. i # n
    BY <1>1, <1>9
  <2> QED
    BY <1>2, <1>4, <1>5, <1>9, <2>1
<1>10. ASSUME NEW i \in 1..n PROVE FrameHeld(calls'[i], memory', ~displaced')
  <2>1. CASE i = n
    BY <1>4, <2>1
  <2>2. CASE i # n
    <3>1. /\ calls'[i] = calls[i] /\ WellFormed(calls[i])
          /\ FrameHeld(calls[i], memory, ~displaced)
      BY <1>2, <1>4, <2>2
    <3>2. Top.entry < Lowest(calls[i]) /\ Lowest(calls[i]) \in Int
      BY <1>1, <1>2, <2>2, <3>1, Places DEF Top
    <3>3. \A x \in Slot : x >= Lowest(calls[i]) => memory'[x] = memory[x]
      BY <1>1, <3>2, StackAssumption DEF Slot
    <3> QED
      BY <3>1, <3>3, HeldKept
  <2> QED
    BY <2>1, <2>2
<1>11. ASSUME NEW i \in 2..n PROVE memory'[calls'[i].entry] = ReturnMark(i - 1)
  <2>1. i \in 1..n /\ 1 \in 1..n /\ 1 < i /\ i \in Int
    BY <1>1
  <2>2. calls[i].entry < Lowest(calls[1]) /\ Lowest(calls[1]) <= StackTop
        /\ Lowest(calls[1]) \in Int
    BY <1>2, <2>1, Places
  <2>3. calls[i].entry \in 0..StackTop
    BY <1>2, <2>1, RecordTypes DEF WellFormed
  <2>4. calls[i].entry \in Slot
    BY <2>2, <2>3, StackAssumption DEF Slot
  <2>5. calls[i].entry >= Top.entry
    <3>1. CASE i = n
      BY <1>1, <3>1 DEF Top
    <3>2. CASE i # n
      <4>1. i < n
        BY <1>1, <2>1, <3>2
      <4>2. Top.entry < Lowest(calls[i]) /\ Lowest(calls[i]) <= calls[i].entry
            /\ Lowest(calls[i]) \in Int
        BY <1>1, <1>2, <2>1, <4>1, Places DEF Top
      <4> QED
        BY <1>1, <2>3, <4>2
    <3> QED
      BY <3>1, <3>2
  <2> QED
    BY <1>2, <1>5, <2>1, <2>4, <2>5
<1>12. calls'[1].entry = StackTop /\ StackArguments[calls'[1].fn] = 0
  BY <1>1, <1>2, <1>5
<1> QED
  BY <1>2, <1>4, <1>6, <1>7, <1>8, <1>9, <1>10, <1>11, <1>12, Zenon DEF FrameInv

-----------------------------------------------------------------------------
\* What a step may do to the activation: each changes a few fields of the record.
SameFrame(a, t) ==
  /\ t \in ActivationRecord
  /\ t.fn = a.fn /\ t.entry = a.entry /\ t.saved = a.saved /\ t.arguments = a.arguments

LEMMA SetPhase ==
  ASSUME NEW a \in ActivationRecord, NEW p \in Phase
  PROVE  LET t == [a EXCEPT !.phase = p]
         IN  /\ SameFrame(a, t) /\ t.phase = p
             /\ t.callee = a.callee /\ t.passed = a.passed
             /\ t.objects = a.objects /\ t.buffers = a.buffers
BY DEF ActivationRecord, SameFrame

LEMMA SetObject ==
  ASSUME NEW a \in ActivationRecord, NEW o \in DOMAIN a.objects, NEW value \in Int
  PROVE  LET t == [a EXCEPT !.objects[o] = value]
         IN  /\ SameFrame(a, t) /\ t.phase = a.phase
             /\ t.callee = a.callee /\ t.passed = a.passed /\ t.buffers = a.buffers
             /\ DOMAIN t.objects = DOMAIN a.objects
             /\ t.objects[o] = value
             /\ \A q \in DOMAIN a.objects : q # o => t.objects[q] = a.objects[q]
<1> DEFINE objects == [a.objects EXCEPT ![o] = value]
           t == [a EXCEPT !.objects = objects]
<1>1. a.objects \in Seq(Int)
  BY RecordTypes
<1>2. objects \in Seq(Int) /\ DOMAIN objects = DOMAIN a.objects /\ objects[o] = value
      /\ \A q \in DOMAIN a.objects : q # o => objects[q] = a.objects[q]
  BY <1>1
<1> HIDE DEF objects
<1>3. /\ SameFrame(a, t) /\ t.phase = a.phase /\ t.objects = objects
      /\ t.callee = a.callee /\ t.passed = a.passed /\ t.buffers = a.buffers
  BY <1>2 DEF ActivationRecord, SameFrame
<1> QED
  BY <1>2, <1>3 DEF objects

LEMMA SetPassed ==
  ASSUME NEW a \in ActivationRecord, NEW k \in DOMAIN a.passed, NEW value \in Int
  PROVE  LET t == [a EXCEPT !.passed[k] = value]
         IN  /\ SameFrame(a, t) /\ t.phase = a.phase
             /\ t.callee = a.callee /\ t.objects = a.objects /\ t.buffers = a.buffers
             /\ DOMAIN t.passed = DOMAIN a.passed
             /\ t.passed[k] = value
             /\ \A q \in DOMAIN a.passed : q # k => t.passed[q] = a.passed[q]
<1> DEFINE passed == [a.passed EXCEPT ![k] = value]
           t == [a EXCEPT !.passed = passed]
<1>1. a.passed \in Seq(Int)
  BY RecordTypes
<1>2. passed \in Seq(Int) /\ DOMAIN passed = DOMAIN a.passed /\ passed[k] = value
      /\ \A q \in DOMAIN a.passed : q # k => passed[q] = a.passed[q]
  BY <1>1
<1> HIDE DEF passed
<1>3. /\ SameFrame(a, t) /\ t.phase = a.phase /\ t.passed = passed
      /\ t.callee = a.callee /\ t.objects = a.objects /\ t.buffers = a.buffers
  BY <1>2 DEF ActivationRecord, SameFrame
<1> QED
  BY <1>2, <1>3 DEF passed

LEMMA SetBuffers ==
  ASSUME NEW a \in ActivationRecord, NEW buffers \in Seq(Buffer)
  PROVE  LET t == [a EXCEPT !.buffers = buffers]
         IN  /\ SameFrame(a, t) /\ t.phase = a.phase /\ t.buffers = buffers
             /\ t.callee = a.callee /\ t.objects = a.objects /\ t.passed = a.passed
BY DEF ActivationRecord, SameFrame

\* Where frame accesses are taken from.
LEMMA FrameRegisterPlace ==
  ASSUME FrameInv, Runs
  PROVE  /\ ~Moved => FrameRegister(Top.fn) = Bottom(Top)
         /\ Moved => /\ ~HasFP(Top.fn) /\ Top.buffers = <<>>
                     /\ FrameRegister(Top.fn) = Bottom(Top) - CallFrame(Top.callee)
         /\ ~HasFP(Top.fn) => Top.buffers = <<>>
<1>1. Active(Top) /\ WellFormed(Top) /\ Bottom(Top) \in Int
  BY TopFacts, Places DEF Runs, Active
<1>2. r7 = Lowest(Top) /\ r6 = HeldPointer(Top)
  BY DEF FrameInv
<1>3. CallFrame(Top.callee) \in Nat
  BY TopFacts, CallFrameHolds
<1>4. ~HasFP(Top.fn) => Top.buffers = <<>> /\ Base(Top) = Bottom(Top)
  BY <1>1 DEF WellFormed, Base
<1>5. HasFP(Top.fn) => r6 = Bottom(Top)
  BY <1>1, <1>2 DEF HeldPointer
<1>6. ~HasFP(Top.fn) /\ Top.phase = "body" => r7 = Bottom(Top)
  BY <1>1, <1>2, <1>4 DEF Lowest
<1>7. ~HasFP(Top.fn) /\ Top.phase # "body" => r7 = Bottom(Top) - CallFrame(Top.callee)
  BY <1>1, <1>2, <1>4 DEF Lowest
<1>8. Top.phase # "body" => Top.phase \in {"calling", "returned"}
  BY DEF Runs
<1>9. ~Moved => HasFP(Top.fn) \/ Top.phase = "body" \/ CallFrame(Top.callee) = 0
  BY <1>8 DEF Moved
<1> QED
  BY <1>1, <1>3, <1>4, <1>5, <1>6, <1>7, <1>9 DEF FrameRegister, Moved

-----------------------------------------------------------------------------
\* One lemma per step of the running function.
LEMMA PrologueStep ==
  ASSUME FrameInv, Prologue
  PROVE  FrameInv'
<1> DEFINE t == [Top EXCEPT !.phase = "body"]
           f == Top.fn
<1>1. /\ WellFormed(Top) /\ Top \in ActivationRecord /\ f \in Function
      /\ Top.entry \in Int /\ Top.phase = "entry"
      /\ Top.entry \in 0..StackTop /\ Top.saved \in Int
  BY TopFacts, RecordTypes DEF Prologue
<1>2. /\ SameFrame(Top, t) /\ t.phase = "body" /\ t.callee = Top.callee
      /\ t.passed = Top.passed /\ t.objects = Top.objects /\ t.buffers = Top.buffers
  BY <1>1, SetPhase DEF Phase
<1>3. /\ Top.buffers = <<>> /\ \A o \in DOMAIN Top.objects : Top.objects[o] = Unset
      /\ DOMAIN Top.objects = 1..Locals[f] /\ Len(Top.arguments) = StackArguments[f]
  BY <1>1 DEF WellFormed
<1>4. r7 = Top.entry /\ r6 = Top.saved
  BY <1>1 DEF FrameInv, Lowest, HeldPointer, Active
<1>5. /\ SavedPointer(f) \in Nat /\ StackSize[f] \in Nat
      /\ HasFP(f) => SavedPointer(f) = Block /\ Block >= 1 /\ Block \in Nat
  BY <1>1, Sizes, BlockAssumption
<1>6. /\ r7' = r7 - SavedPointer(f) - StackSize[f] /\ r7 >= SavedPointer(f) + StackSize[f]
      /\ r6' = IF HasFP(f) THEN r7 - SavedPointer(f) - StackSize[f] ELSE r6
      /\ memory' = PrologueMemory(f) /\ SetTop(t) /\ displaced' = displaced
  BY DEF Prologue, Room
<1> HIDE DEF t, f
<1>7. Bottom(t) = r7 - SavedPointer(f) - StackSize[f] /\ Bottom(t) \in Int /\ Bottom(t) >= 0
  BY <1>1, <1>2, <1>4, <1>5, <1>6 DEF Bottom, SameFrame, f
<1>8. /\ Active(t) /\ Lowest(t) = Bottom(t)
      /\ HeldPointer(t) = IF HasFP(f) THEN Bottom(t) ELSE Top.saved
  BY <1>2, <1>3 DEF Active, Lowest, Base, HeldPointer, SameFrame, f
<1>9. WellFormed(t)
  BY <1>2, <1>3, <1>7, <1>8 DEF WellFormed, SameFrame, f
<1>10. r7' = Lowest(t) /\ r6' = HeldPointer(t)
  BY <1>4, <1>6, <1>7, <1>8
<1>11. memory \in [Slot -> Int] /\ displaced \in BOOLEAN
  BY DEF FrameInv
<1>12. CASE HasFP(f)
  <2> DEFINE x == Top.entry - Block
  <2>1. memory' = [memory EXCEPT ![x] = Top.saved]
    BY <1>4, <1>5, <1>6, <1>12 DEF PrologueMemory
  <2>2. x \in Slot /\ x < Top.entry /\ x \in Int
    BY <1>1, <1>4, <1>5, <1>6, <1>12, StackAssumption DEF Slot
  <2> HIDE DEF x
  <2>3. /\ memory' \in [Slot -> Int] /\ memory'[x] = Top.saved
        /\ \A y \in Slot : y >= Top.entry => memory'[y] = memory[y]
    BY <1>1, <1>11, <2>1, <2>2
  <2>4. FrameHeld(t, memory', ~displaced')
    BY <1>2, <1>3, <2>3 DEF FrameHeld, PointerHeld, BuffersHeld, ObjectsHeld, PassedHeld,
       SameFrame, x
  <2> QED
    BY <1>2, <1>6, <1>9, <1>10, <1>11, <2>3, <2>4, TopStep DEF SameFrame
<1>13. CASE ~HasFP(f)
  <2>1. memory' = memory
    BY <1>6, <1>13 DEF PrologueMemory
  <2>2. FrameHeld(t, memory', ~displaced')
    BY <1>2, <1>3, <1>13 DEF FrameHeld, PointerHeld, BuffersHeld, ObjectsHeld,
       PassedHeld, SameFrame, f
  <2> QED
    BY <1>2, <1>6, <1>9, <1>10, <1>11, <2>1, <2>2, TopStep DEF SameFrame
<1> QED
  BY <1>12, <1>13

\* A step that stores nothing and leaves R6.
LEMMA RegisterStep ==
  ASSUME FrameInv, NEW t, SetTop(t), SameFrame(Top, t), WellFormed(t),
         memory' = memory, displaced' = displaced,
         r7' = Lowest(t), r6' = HeldPointer(t), FrameHeld(t, memory, ~displaced)
  PROVE  FrameInv'
<1>1. memory \in [Slot -> Int] /\ displaced \in BOOLEAN
  BY DEF FrameInv
<1> QED
  BY <1>1, TopStep DEF SameFrame

LEMMA StartCallStep ==
  ASSUME FrameInv, NEW g \in Function, StartCall(g)
  PROVE  FrameInv'
<1> DEFINE passed == [k \in 1..StackArguments[g] |-> Unset]
           t == [Top EXCEPT !.phase = "calling", !.callee = g, !.passed = passed]
<1>1. /\ WellFormed(Top) /\ Top \in ActivationRecord /\ Top.phase = "body"
      /\ FrameHeld(Top, memory, ~displaced)
  BY TopFacts DEF StartCall
<1>2. CallFrame(g) \in Nat /\ StackArguments[g] \in Nat
  BY CallFrameHolds, Sizes
<1>3. passed \in Seq(Int) /\ DOMAIN passed = 1..StackArguments[g]
      /\ \A k \in DOMAIN passed : passed[k] = Unset
  BY <1>2 DEF Unset
<1>4. SetTop(t) /\ r7' = r7 - CallFrame(g) /\ r7 >= CallFrame(g)
      /\ UNCHANGED <<r6, memory, displaced>>
  BY DEF StartCall, Room
<1> HIDE DEF passed
<1>5. /\ SameFrame(Top, t) /\ t.phase = "calling" /\ t.callee = g /\ t.passed = passed
      /\ t.objects = Top.objects /\ t.buffers = Top.buffers
  BY <1>1, <1>3 DEF ActivationRecord, SameFrame, Phase
<1> HIDE DEF t
<1>6. /\ Active(t) /\ Active(Top) /\ Bottom(t) = Bottom(Top) /\ Base(t) = Base(Top)
      /\ HeldPointer(t) = HeldPointer(Top)
      /\ Lowest(Top) = Base(Top) /\ Lowest(t) = Base(t) - CallFrame(g)
      /\ Base(Top) \in Int
  BY <1>1, <1>5, Places DEF Active, Bottom, Base, HeldPointer, Lowest, SameFrame
<1>7. r7 = Lowest(Top) /\ r6 = HeldPointer(Top)
  BY DEF FrameInv
<1>8. r7' = Lowest(t) /\ r6' = HeldPointer(t) /\ Lowest(t) >= 0
  BY <1>2, <1>4, <1>6, <1>7
<1>9. WellFormed(t)
  BY <1>1, <1>3, <1>5, <1>6, <1>8 DEF WellFormed, SameFrame
<1>10. FrameHeld(t, memory, ~displaced)
  BY <1>1, <1>3, <1>5, <1>6 DEF FrameHeld, PointerHeld, BuffersHeld, ObjectsHeld,
     PassedHeld, SameFrame
<1> QED
  BY <1>4, <1>5, <1>8, <1>9, <1>10, RegisterStep

LEMMA EndCallStep ==
  ASSUME FrameInv, EndCall
  PROVE  FrameInv'
<1> DEFINE t == [Top EXCEPT !.phase = "body"]
<1>1. /\ WellFormed(Top) /\ Top \in ActivationRecord /\ Top.phase = "returned"
      /\ FrameHeld(Top, memory, ~displaced) /\ Top.callee \in Function
  BY TopFacts DEF EndCall
<1>2. CallFrame(Top.callee) \in Nat
  BY <1>1, CallFrameHolds
<1>3. SetTop(t) /\ r7' = r7 + CallFrame(Top.callee) /\ UNCHANGED <<r6, memory, displaced>>
  BY DEF EndCall
<1>4. /\ SameFrame(Top, t) /\ t.phase = "body" /\ t.passed = Top.passed
      /\ t.callee = Top.callee /\ t.objects = Top.objects /\ t.buffers = Top.buffers
  BY <1>1, SetPhase DEF Phase
<1> HIDE DEF t
<1>5. /\ Active(t) /\ Active(Top) /\ Bottom(t) = Bottom(Top) /\ Base(t) = Base(Top)
      /\ HeldPointer(t) = HeldPointer(Top)
      /\ Lowest(Top) = Base(Top) - CallFrame(Top.callee) /\ Lowest(t) = Base(Top)
      /\ Base(Top) \in Int /\ Lowest(Top) >= 0
  BY <1>1, <1>4, Places DEF Active, Bottom, Base, HeldPointer, Lowest, SameFrame
<1>6. r7 = Lowest(Top) /\ r6 = HeldPointer(Top)
  BY DEF FrameInv
<1>7. r7' = Lowest(t) /\ r6' = HeldPointer(t) /\ Lowest(t) >= 0
  BY <1>2, <1>3, <1>5, <1>6
<1>8. WellFormed(t)
  BY <1>1, <1>4, <1>5, <1>7 DEF WellFormed, SameFrame
<1>9. FrameHeld(t, memory, ~displaced)
  BY <1>1, <1>4, <1>5 DEF FrameHeld, PointerHeld, BuffersHeld, ObjectsHeld,
     PassedHeld, SameFrame
<1> QED
  BY <1>3, <1>4, <1>7, <1>8, <1>9, RegisterStep

LEMMA EpilogueStep ==
  ASSUME FrameInv, Epilogue
  PROVE  FrameInv'
<1> DEFINE t == [Top EXCEPT !.phase = "left"]
           f == Top.fn
<1>1. /\ WellFormed(Top) /\ Top \in ActivationRecord /\ Top.phase = "body"
      /\ FrameHeld(Top, memory, ~displaced) /\ f \in Function /\ Top.entry \in Int
      /\ Top.entry \in 0..StackTop
  BY TopFacts, RecordTypes DEF Epilogue
<1>2. /\ SavedPointer(f) \in Nat /\ StackSize[f] \in Nat
      /\ HasFP(f) => SavedPointer(f) = Block
      /\ Bottom(Top) \in Int /\ Bottom(Top) + StackSize[f] + SavedPointer(f) = Top.entry
  BY <1>1, Sizes, Places
<1>3. FrameRegister(f) = Bottom(Top)
  BY <1>1, FrameRegisterPlace DEF Moved, Runs
<1>4. /\ SetTop(t) /\ UNCHANGED <<memory, displaced>>
      /\ r7' = Bottom(Top) + StackSize[f] + SavedPointer(f)
      /\ r6' = IF HasFP(f) THEN memory[Bottom(Top) + StackSize[f]] ELSE r6
  BY <1>3 DEF Epilogue, FrameBottom
<1>5. /\ SameFrame(Top, t) /\ t.phase = "left" /\ t.passed = Top.passed
      /\ t.callee = Top.callee /\ t.objects = Top.objects /\ t.buffers = Top.buffers
  BY <1>1, SetPhase DEF Phase
<1> HIDE DEF t
<1>6. ~Active(t) /\ Lowest(t) = Top.entry /\ HeldPointer(t) = Top.saved
  BY <1>5 DEF Active, Lowest, HeldPointer, SameFrame
<1>7. r6' = Top.saved
  <2>1. CASE HasFP(f)
    <3>1. Bottom(Top) + StackSize[f] = Top.entry - Block
      BY <1>1, <1>2, <2>1, BlockAssumption
    <3>2. memory[Top.entry - Block] = Top.saved
      BY <1>1, <2>1 DEF FrameHeld, PointerHeld, Active
    <3> QED
      BY <1>4, <2>1, <3>1, <3>2
  <2>2. CASE ~HasFP(f)
    BY <1>4, <2>2 DEF FrameInv, HeldPointer
  <2> QED
    BY <2>1, <2>2
<1>8. r7' = Lowest(t) /\ r6' = HeldPointer(t)
  BY <1>2, <1>4, <1>6, <1>7
<1>9. WellFormed(t)
  BY <1>1, <1>5, <1>6 DEF WellFormed, SameFrame
<1>10. FrameHeld(t, memory, ~displaced)
  BY <1>5, <1>6 DEF FrameHeld, PointerHeld, BuffersHeld, ObjectsHeld, PassedHeld
<1> QED
  BY <1>4, <1>5, <1>8, <1>9, <1>10, RegisterStep

LEMMA AllocateStep ==
  ASSUME FrameInv, NEW n \in 1..2, Allocate(n)
  PROVE  FrameInv'
<1> DEFINE old == Top.buffers
           new == [at |-> r7', value |-> Unset]
           t == [Top EXCEPT !.buffers = Append(old, new)]
<1>1. /\ WellFormed(Top) /\ Top \in ActivationRecord /\ Top.phase = "body"
      /\ HasFP(Top.fn) /\ FrameHeld(Top, memory, ~displaced)
      /\ old \in Seq(Buffer) /\ Active(Top)
  BY TopFacts, RecordTypes DEF Allocate, Active
<1>2. n * Block \in Nat \ {0}
  BY BlockAssumption
<1>3. r7' = r7 - n * Block /\ r7 >= n * Block /\ UNCHANGED <<r6, memory, displaced>>
      /\ SetTop(t)
  BY DEF Allocate, Room
<1>4. r7 = Base(Top) /\ r6 = HeldPointer(Top) /\ Base(Top) \in Int /\ Bottom(Top) \in Int
      /\ Base(Top) <= Bottom(Top)
  BY <1>1, Places DEF FrameInv, Lowest
<1>5. r7' \in Int /\ 0 <= r7' /\ r7' < Base(Top)
  BY <1>2, <1>3, <1>4
<1>6. new \in Buffer /\ new.at = r7' /\ new.value = Unset
  BY <1>5 DEF Buffer, Unset
<1> HIDE DEF new
<1>7. Append(old, new) \in Seq(Buffer)
  BY <1>1, <1>6
<1>8. /\ SameFrame(Top, t) /\ t.phase = "body" /\ t.passed = Top.passed
      /\ t.callee = Top.callee /\ t.objects = Top.objects
      /\ t.buffers = Append(old, new)
  BY <1>1, <1>7, SetBuffers
<1> HIDE DEF t
<1> DEFINE m == Len(old)
<1>9. /\ m \in Nat /\ DOMAIN old = 1..m /\ DOMAIN t.buffers = 1..(m + 1)
      /\ Len(t.buffers) = m + 1 /\ t.buffers[m + 1] = new /\ t.buffers # <<>>
      /\ \A b \in 1..m : t.buffers[b] = old[b]
  BY <1>1, <1>6, <1>7, <1>8
<1> HIDE DEF m, old
<1>10. /\ Active(t) /\ Base(t) = r7' /\ Lowest(t) = r7' /\ Bottom(t) = Bottom(Top)
       /\ HeldPointer(t) = HeldPointer(Top)
  BY <1>1, <1>6, <1>8, <1>9 DEF Active, Base, Lowest, Bottom, HeldPointer, SameFrame
<1>11. \A b \in 1..m : /\ old[b].at \in Int /\ Base(Top) <= old[b].at
                       /\ old[b].at < Bottom(Top)
  BY <1>1, <1>9, Places DEF old
<1>12. \A b \in DOMAIN t.buffers : t.buffers[b].at < Bottom(t)
  <2> TAKE b \in DOMAIN t.buffers
  <2>1. CASE b = m + 1
    BY <1>4, <1>5, <1>6, <1>9, <1>10, <2>1
  <2>2. CASE b \in 1..m
    BY <1>9, <1>10, <1>11, <2>2
  <2> QED
    BY <1>9, <2>1, <2>2
<1>13. ASSUME NEW b \in DOMAIN t.buffers, NEW c \in DOMAIN t.buffers, b < c
       PROVE  t.buffers[c].at < t.buffers[b].at
  <2>1. b \in 1..m
    BY <1>9, <1>13
  <2>2. CASE c = m + 1
    BY <1>4, <1>5, <1>6, <1>9, <1>11, <2>1, <2>2
  <2>3. CASE c \in 1..m
    <3>1. old[c].at < old[b].at
      BY <1>1, <1>9, <1>13, <2>1, <2>3 DEF WellFormed, old
    <3> QED
      BY <1>9, <2>1, <2>3, <3>1
  <2> QED
    BY <1>9, <2>2, <2>3
<1>14. WellFormed(t)
  BY <1>1, <1>5, <1>8, <1>10, <1>12, <1>13 DEF WellFormed, SameFrame
<1>15. BuffersHeld(t, memory)
  <2> SUFFICES ASSUME NEW b \in DOMAIN t.buffers, t.buffers[b].value # Unset
               PROVE  memory[t.buffers[b].at] = t.buffers[b].value
    BY DEF BuffersHeld
  <2>1. b \in 1..m
    BY <1>6, <1>9
  <2> QED
    BY <1>1, <1>9, <2>1 DEF FrameHeld, BuffersHeld, old
<1>16. FrameHeld(t, memory, ~displaced)
  BY <1>1, <1>8, <1>10, <1>15 DEF FrameHeld, PointerHeld, ObjectsHeld, PassedHeld,
     SameFrame
<1> QED
  BY <1>3, <1>4, <1>8, <1>10, <1>14, <1>16, RegisterStep

\* What is not a buffer lies apart from the buffers.
LEMMA StoreBufferStep ==
  ASSUME FrameInv, NEW b \in DOMAIN Top.buffers, NEW value \in Value, StoreBuffer(b, value)
  PROVE  FrameInv'
<1> DEFINE old == Top.buffers
           x == old[b].at
           buffers == [old EXCEPT ![b] = [old[b] EXCEPT !.value = value]]
           t == [Top EXCEPT !.buffers = buffers]
<1>1. /\ WellFormed(Top) /\ Top \in ActivationRecord
      /\ FrameHeld(Top, memory, ~displaced)
      /\ old \in Seq(Buffer) /\ Active(Top) /\ Top.entry \in Int
      /\ Top.entry \in 0..StackTop /\ Top.fn \in Function /\ Top.callee \in Function
  BY TopFacts, RecordTypes DEF StoreBuffer, Runs, Active
<1>2. value \in Int
  BY ValueAssumption
<1>3. memory' = [memory EXCEPT ![x] = value] /\ UNCHANGED <<r6, r7, displaced>>
      /\ SetTop([Top EXCEPT !.buffers[b].value = value])
  BY DEF StoreBuffer
<1>4. [Top EXCEPT !.buffers[b].value = value] = t
  OBVIOUS
<1>5. /\ buffers \in Seq(Buffer) /\ DOMAIN buffers = DOMAIN old /\ Len(buffers) = Len(old)
      /\ buffers[b].at = x /\ buffers[b].value = value
      /\ \A c \in DOMAIN old : buffers[c].at = old[c].at
      /\ \A c \in DOMAIN old : c # b => buffers[c] = old[c]
  <2>1. old[b] \in Buffer
    BY <1>1
  <2>2. [old[b] EXCEPT !.value = value] \in Buffer
        /\ [old[b] EXCEPT !.value = value].at = x
        /\ [old[b] EXCEPT !.value = value].value = value
    BY <1>2, <2>1 DEF Buffer
  <2> QED
    BY <1>1, <2>2
<1> HIDE DEF buffers
<1>6. /\ SameFrame(Top, t) /\ t.phase = Top.phase /\ t.passed = Top.passed
      /\ t.callee = Top.callee /\ t.objects = Top.objects /\ t.buffers = buffers
  BY <1>1, <1>5, SetBuffers
<1> HIDE DEF t
<1>7. /\ Active(t) /\ Bottom(t) = Bottom(Top) /\ Base(t) = Base(Top)
      /\ HeldPointer(t) = HeldPointer(Top) /\ Lowest(t) = Lowest(Top)
  <2>1. Base(t) = Base(Top)
    <3>1. CASE old = <<>>
      BY <1>1, <3>1
    <3>2. CASE old # <<>>
      <4>1. Len(old) \in DOMAIN old /\ buffers # <<>>
        BY <1>1, <1>5, <3>2
      <4> QED
        BY <1>5, <1>6, <3>2, <4>1 DEF Base
    <3> QED
      BY <3>1, <3>2
  <2> QED
    BY <1>1, <1>6, <2>1 DEF Active, Bottom, HeldPointer, Lowest, SameFrame, Base
<1>8. r7' = Lowest(t) /\ r6' = HeldPointer(t)
  BY <1>3, <1>7 DEF FrameInv
<1>9. WellFormed(t)
  BY <1>1, <1>5, <1>6, <1>7 DEF WellFormed, SameFrame
<1>10. /\ x \in Int /\ Base(Top) <= x /\ x < Bottom(Top) /\ Base(Top) \in Int
       /\ Bottom(Top) \in Int /\ 0 <= Lowest(Top) /\ Lowest(Top) <= Base(Top)
       /\ Bottom(Top) + StackSize[Top.fn] + SavedPointer(Top.fn) = Top.entry
       /\ Lowest(Top) \in Int
       /\ Top.phase = "calling" => Lowest(Top) + StackArguments[Top.callee] <= Base(Top)
  BY <1>1, Places
<1>11. /\ SavedPointer(Top.fn) \in Nat /\ StackSize[Top.fn] \in Nat
       /\ Locals[Top.fn] \in Nat /\ Locals[Top.fn] <= StackSize[Top.fn]
       /\ HasFP(Top.fn) => SavedPointer(Top.fn) = Block
       /\ StackArguments[Top.callee] \in Nat
  BY <1>1, Sizes
<1> HIDE DEF x
<1>12. x \in Slot /\ x < Top.entry
  BY <1>1, <1>10, <1>11, StackAssumption DEF Slot
<1>13. /\ memory' \in [Slot -> Int] /\ memory'[x] = value
       /\ \A y : y # x => memory'[y] = memory[y]
       /\ \A y \in Slot : y >= Top.entry => memory'[y] = memory[y]
       /\ displaced \in BOOLEAN
  <2>1. memory \in [Slot -> Int] /\ displaced \in BOOLEAN
    BY DEF FrameInv
  <2>2. \A y \in Slot : y >= Top.entry => y # x
    BY <1>1, <1>12, StackAssumption DEF Slot
  <2>3. \A y : y # x => memory'[y] = memory[y]
    BY <1>3, <2>1
  <2> QED
    BY <1>2, <1>3, <1>12, <2>1, <2>2, <2>3
<1>14. PointerHeld(t, memory')
  <2>1. HasFP(Top.fn) => Top.entry - Block # x
    BY <1>1, <1>10, <1>11, BlockAssumption
  <2> QED
    BY <1>1, <1>6, <1>13, <2>1 DEF FrameHeld, PointerHeld, SameFrame
<1>15. BuffersHeld(t, memory')
  <2> SUFFICES ASSUME NEW c \in DOMAIN old, buffers[c].value # Unset
               PROVE  memory'[buffers[c].at] = buffers[c].value
    BY <1>5, <1>6 DEF BuffersHeld
  <2>1. CASE c = b
    BY <1>5, <1>13, <2>1
  <2>2. CASE c # b
    <3>1. old[c].at # x
      <4>1. DOMAIN old = 1..Len(old) /\ Len(old) \in Nat
        BY <1>1
      <4>2. b < c \/ c < b
        BY <2>2, <4>1
      <4>3. old[c].at < old[b].at \/ old[b].at < old[c].at
        BY <1>1, <4>2 DEF WellFormed
      <4>4. old[c].at \in Int
        BY <1>1, Places
      <4> QED
        BY <1>10, <4>3, <4>4 DEF x
    <3> QED
      BY <1>1, <1>5, <1>13, <2>2, <3>1 DEF FrameHeld, BuffersHeld
  <2> QED
    BY <2>1, <2>2
<1>16. ~displaced => ObjectsHeld(t, memory')
  <2>1. \A o \in DOMAIN Top.objects : Top.entry - SavedPointer(Top.fn) - o # x
    <3>1. DOMAIN Top.objects = 1..Locals[Top.fn]
      BY <1>1 DEF WellFormed
    <3> QED
      BY <1>1, <1>10, <1>11, <3>1
  <2> QED
    BY <1>1, <1>6, <1>13, <2>1 DEF FrameHeld, ObjectsHeld, SameFrame
<1>17. ~displaced => PassedHeld(t, memory')
  <2>1. Top.phase = "calling" =>
          \A k \in DOMAIN Top.passed : Lowest(Top) + k - 1 # x
    <3>1. Top.phase = "calling" => DOMAIN Top.passed = 1..StackArguments[Top.callee]
      BY <1>1 DEF WellFormed
    <3> QED
      BY <1>10, <1>11, <3>1
  <2> QED
    BY <1>1, <1>6, <1>7, <1>13, <2>1 DEF FrameHeld, PassedHeld
<1>18. FrameHeld(t, memory', ~displaced')
  BY <1>3, <1>14, <1>15, <1>16, <1>17 DEF FrameHeld
<1> QED
  BY <1>3, <1>4, <1>6, <1>8, <1>9, <1>13, <1>18, TopStep DEF SameFrame

LEMMA StoreObjectStep ==
  ASSUME FrameInv, NEW o \in DOMAIN Top.objects, NEW value \in Value, StoreObject(o, value)
  PROVE  FrameInv'
<1> DEFINE x == ObjectAddress(o)
           t == [Top EXCEPT !.objects[o] = value]
           f == Top.fn
<1>1. /\ WellFormed(Top) /\ Top \in ActivationRecord
      /\ FrameHeld(Top, memory, ~displaced) /\ Active(Top) /\ Top.entry \in Int
      /\ Top.entry \in 0..StackTop /\ f \in Function /\ Top.callee \in Function
  BY TopFacts, RecordTypes DEF StoreObject, Runs, Active
<1>2. value \in Int
  BY ValueAssumption
<1>3. memory' = [memory EXCEPT ![x] = value] /\ UNCHANGED <<r6, r7>> /\ SetTop(t)
      /\ x \in Slot /\ displaced' = (displaced \/ Moved)
  BY DEF StoreObject
<1>4. /\ SameFrame(Top, t) /\ t.phase = Top.phase /\ t.passed = Top.passed
      /\ t.callee = Top.callee /\ t.buffers = Top.buffers
      /\ DOMAIN t.objects = DOMAIN Top.objects /\ t.objects[o] = value
      /\ \A q \in DOMAIN Top.objects : q # o => t.objects[q] = Top.objects[q]
  BY <1>1, <1>2, SetObject
<1> HIDE DEF t
<1>5. /\ Active(t) /\ Bottom(t) = Bottom(Top) /\ Base(t) = Base(Top)
      /\ HeldPointer(t) = HeldPointer(Top) /\ Lowest(t) = Lowest(Top)
  BY <1>1, <1>4 DEF Active, Bottom, HeldPointer, Lowest, SameFrame, Base
<1>6. r7' = Lowest(t) /\ r6' = HeldPointer(t)
  BY <1>3, <1>5 DEF FrameInv
<1>7. Top.phase # "entry"
  BY <1>1 DEF Active
<1>8. WellFormed(t)
  BY <1>1, <1>4, <1>5, <1>7 DEF WellFormed, SameFrame
<1>9. /\ Base(Top) \in Int /\ Base(Top) <= Bottom(Top)
      /\ Bottom(Top) \in Int /\ 0 <= Lowest(Top) /\ Lowest(Top) <= Base(Top)
      /\ Bottom(Top) + StackSize[f] + SavedPointer(f) = Top.entry
      /\ Lowest(Top) \in Int
      /\ Top.phase = "calling" => Lowest(Top) + StackArguments[Top.callee] <= Base(Top)
  BY <1>1, Places
<1>10. /\ SavedPointer(f) \in Nat /\ StackSize[f] \in Nat
       /\ Locals[f] \in Nat /\ Locals[f] <= StackSize[f]
       /\ HasFP(f) => SavedPointer(f) = Block /\ Block >= 1 /\ Block \in Nat
       /\ StackArguments[Top.callee] \in Nat /\ CallFrame(Top.callee) \in Nat
  BY <1>1, Sizes, CallFrameHolds, BlockAssumption
<1>11. o \in 1..Locals[f] /\ DOMAIN Top.objects = 1..Locals[f]
  BY <1>1 DEF WellFormed
<1>12. /\ ~Moved => x = Bottom(Top) + StackSize[f] - o
       /\ Moved => /\ ~HasFP(f) /\ Top.buffers = <<>>
                   /\ x = Bottom(Top) - CallFrame(Top.callee) + StackSize[f] - o
  <2>1. x = FrameRegister(f) + StackSize[f] + (-o)
    BY DEF ObjectAddress, FrameAddress
  <2>2. Runs
    BY DEF StoreObject
  <2>3. ASSUME NEW place \in Int, FrameRegister(f) = place
        PROVE  x = place + StackSize[f] - o
    BY <1>10, <1>11, <2>1, <2>3
  <2>4. CASE ~Moved
    BY <1>9, <2>2, <2>3, <2>4, FrameRegisterPlace
  <2>5. CASE Moved
    <3>1. Bottom(Top) - CallFrame(Top.callee) \in Int
      BY <1>9, <1>10
    <3> QED
      BY <2>2, <2>3, <2>5, <3>1, FrameRegisterPlace
  <2> QED
    BY <2>4, <2>5
<1> HIDE DEF x, f
<1>13. x \in Int /\ x < Top.entry
  BY <1>1, <1>9, <1>10, <1>11, <1>12
<1>14. /\ memory' \in [Slot -> Int] /\ memory'[x] = value
       /\ \A y : y # x => memory'[y] = memory[y]
       /\ \A y \in Slot : y >= Top.entry => memory'[y] = memory[y]
  <2>1. memory \in [Slot -> Int]
    BY DEF FrameInv
  <2>2. \A y \in Slot : y >= Top.entry => y # x
    BY <1>1, <1>13, StackAssumption DEF Slot
  <2>3. \A y : y # x => memory'[y] = memory[y]
    BY <1>3, <2>1
  <2> QED
    BY <1>2, <1>3, <2>1, <2>2, <2>3
<1>15. displaced' \in BOOLEAN /\ (displaced => displaced')
       /\ (~displaced' => ~displaced /\ ~Moved)
  BY <1>3 DEF FrameInv
<1>16. PointerHeld(t, memory')
  <2>1. HasFP(f) => Top.entry - Block # x
    BY <1>1, <1>9, <1>10, <1>11, <1>12
  <2> QED
    BY <1>1, <1>4, <1>14, <2>1 DEF FrameHeld, PointerHeld, SameFrame, f
<1>17. BuffersHeld(t, memory')
  <2> SUFFICES ASSUME NEW b \in DOMAIN Top.buffers, Top.buffers[b].value # Unset
               PROVE  memory'[Top.buffers[b].at] = Top.buffers[b].value
    BY <1>4 DEF BuffersHeld
  <2>1. ~Moved
    BY <1>12
  <2>2. Top.buffers[b].at \in Int /\ Top.buffers[b].at < Bottom(Top)
    BY <1>1, Places
  <2>3. Top.buffers[b].at # x
    BY <1>9, <1>10, <1>11, <1>12, <2>1, <2>2
  <2> QED
    BY <1>1, <1>14, <2>3 DEF FrameHeld, BuffersHeld
<1>18. ASSUME ~displaced' PROVE ObjectsHeld(t, memory')
  <2> SUFFICES ASSUME NEW q \in DOMAIN Top.objects, t.objects[q] # Unset
               PROVE  memory'[Top.entry - SavedPointer(f) - q] = t.objects[q]
    BY <1>4 DEF ObjectsHeld, SameFrame, f
  <2>1. q \in 1..Locals[f] /\ x = Top.entry - SavedPointer(f) - o
    BY <1>1, <1>9, <1>10, <1>11, <1>12, <1>15, <1>18
  <2>2. CASE q = o
    BY <1>4, <1>14, <2>1, <2>2
  <2>3. CASE q # o
    <3>1. Top.entry - SavedPointer(f) - q # x
      BY <1>1, <1>10, <1>11, <2>1, <2>3
    <3>2. memory[Top.entry - SavedPointer(f) - q] = Top.objects[q]
      BY <1>1, <1>4, <1>15, <1>18, <2>3 DEF FrameHeld, ObjectsHeld, f
    <3> QED
      BY <1>4, <1>14, <2>3, <3>1, <3>2
  <2> QED
    BY <2>2, <2>3
<1>19. ASSUME ~displaced' PROVE PassedHeld(t, memory')
  <2> SUFFICES ASSUME Top.phase = "calling", NEW k \in DOMAIN Top.passed,
                      Top.passed[k] # Unset
               PROVE  memory'[Lowest(Top) + k - 1] = Top.passed[k]
    BY <1>4, <1>5 DEF PassedHeld
  <2>1. k \in 1..StackArguments[Top.callee]
    BY <1>1 DEF WellFormed
  <2>2. x = Bottom(Top) + StackSize[f] - o
    BY <1>12, <1>15, <1>19
  <2>3. x >= Bottom(Top)
    BY <1>9, <1>10, <1>11, <2>2
  <2>4. Lowest(Top) + k - 1 # x
    BY <1>9, <1>10, <1>13, <2>1, <2>3
  <2> QED
    BY <1>1, <1>14, <1>15, <1>19, <2>4 DEF FrameHeld, PassedHeld
<1>20. FrameHeld(t, memory', ~displaced')
  BY <1>16, <1>17, <1>18, <1>19 DEF FrameHeld
<1> QED
  BY <1>3, <1>4, <1>6, <1>8, <1>14, <1>15, <1>20, TopStep DEF SameFrame

LEMMA StoreArgumentStep ==
  ASSUME FrameInv, NEW k \in DOMAIN Top.passed, NEW value \in Value, StoreArgument(k, value)
  PROVE  FrameInv'
<1> DEFINE x == r7 + k - 1
           t == [Top EXCEPT !.passed[k] = value]
           f == Top.fn
<1>1. /\ WellFormed(Top) /\ Top \in ActivationRecord /\ Top.phase = "calling"
      /\ FrameHeld(Top, memory, ~displaced) /\ Active(Top) /\ Top.entry \in Int
      /\ Top.entry \in 0..StackTop /\ f \in Function /\ Top.callee \in Function
  BY TopFacts, RecordTypes DEF StoreArgument, Active
<1>2. value \in Int
  BY ValueAssumption
<1>3. memory' = [memory EXCEPT ![x] = value] /\ UNCHANGED <<r6, r7, displaced>> /\ SetTop(t)
  BY DEF StoreArgument
<1>4. /\ SameFrame(Top, t) /\ t.phase = Top.phase /\ t.objects = Top.objects
      /\ t.callee = Top.callee /\ t.buffers = Top.buffers
      /\ DOMAIN t.passed = DOMAIN Top.passed /\ t.passed[k] = value
      /\ \A q \in DOMAIN Top.passed : q # k => t.passed[q] = Top.passed[q]
  BY <1>1, <1>2, SetPassed
<1> HIDE DEF t
<1>5. /\ Active(t) /\ Bottom(t) = Bottom(Top) /\ Base(t) = Base(Top)
      /\ HeldPointer(t) = HeldPointer(Top) /\ Lowest(t) = Lowest(Top)
  BY <1>1, <1>4 DEF Active, Bottom, HeldPointer, Lowest, SameFrame, Base
<1>6. r7' = Lowest(t) /\ r6' = HeldPointer(t) /\ r7 = Lowest(Top)
  BY <1>3, <1>5 DEF FrameInv
<1>7. WellFormed(t)
  BY <1>1, <1>4, <1>5 DEF WellFormed, SameFrame
<1>8. /\ Base(Top) \in Int /\ Base(Top) <= Bottom(Top)
      /\ Bottom(Top) \in Int /\ 0 <= Lowest(Top)
      /\ Bottom(Top) + StackSize[f] + SavedPointer(f) = Top.entry
      /\ Lowest(Top) \in Int
      /\ Lowest(Top) + StackArguments[Top.callee] <= Base(Top)
  BY <1>1, Places
<1>9. /\ SavedPointer(f) \in Nat /\ StackSize[f] \in Nat
      /\ Locals[f] \in Nat /\ Locals[f] <= StackSize[f]
      /\ HasFP(f) => SavedPointer(f) = Block /\ Block >= 1 /\ Block \in Nat
      /\ StackArguments[Top.callee] \in Nat
  BY <1>1, Sizes, BlockAssumption
<1>10. k \in 1..StackArguments[Top.callee]
       /\ DOMAIN Top.passed = 1..StackArguments[Top.callee]
       /\ DOMAIN Top.objects = 1..Locals[f]
  BY <1>1 DEF WellFormed
<1>11. x \in Int /\ x = Lowest(Top) + k - 1 /\ x < Base(Top) /\ x < Top.entry /\ 0 <= x
  BY <1>6, <1>8, <1>9, <1>10
<1> HIDE DEF x, f
<1>12. x \in Slot
  BY <1>1, <1>11, StackAssumption DEF Slot
<1>13. /\ memory' \in [Slot -> Int] /\ memory'[x] = value /\ displaced \in BOOLEAN
       /\ \A y : y # x => memory'[y] = memory[y]
       /\ \A y \in Slot : y >= Top.entry => memory'[y] = memory[y]
  <2>1. memory \in [Slot -> Int] /\ displaced \in BOOLEAN
    BY DEF FrameInv
  <2>2. \A y \in Slot : y >= Top.entry => y # x
    BY <1>1, <1>11, StackAssumption DEF Slot
  <2>3. \A y : y # x => memory'[y] = memory[y]
    BY <1>3, <2>1
  <2> QED
    BY <1>2, <1>3, <1>12, <2>1, <2>2, <2>3
<1>14. PointerHeld(t, memory')
  <2>1. HasFP(f) => Top.entry - Block # x
    BY <1>1, <1>8, <1>9, <1>11
  <2> QED
    BY <1>1, <1>4, <1>13, <2>1 DEF FrameHeld, PointerHeld, SameFrame, f
<1>15. BuffersHeld(t, memory')
  <2> SUFFICES ASSUME NEW b \in DOMAIN Top.buffers, Top.buffers[b].value # Unset
               PROVE  memory'[Top.buffers[b].at] = Top.buffers[b].value
    BY <1>4 DEF BuffersHeld
  <2>1. Top.buffers[b].at \in Int /\ Base(Top) <= Top.buffers[b].at
    BY <1>1, Places
  <2>2. Top.buffers[b].at # x
    BY <1>8, <1>11, <2>1
  <2> QED
    BY <1>1, <1>13, <2>2 DEF FrameHeld, BuffersHeld
<1>16. ~displaced => ObjectsHeld(t, memory')
  <2>1. \A o \in DOMAIN Top.objects : Top.entry - SavedPointer(f) - o # x
    BY <1>1, <1>8, <1>9, <1>10, <1>11
  <2> QED
    BY <1>1, <1>4, <1>13, <2>1 DEF FrameHeld, ObjectsHeld, SameFrame, f
<1>17. ASSUME ~displaced PROVE PassedHeld(t, memory')
  <2> SUFFICES ASSUME NEW q \in DOMAIN Top.passed, t.passed[q] # Unset
               PROVE  memory'[Lowest(Top) + q - 1] = t.passed[q]
    BY <1>4, <1>5 DEF PassedHeld
  <2>1. CASE q = k
    BY <1>4, <1>11, <1>13, <2>1
  <2>2. CASE q # k
    <3>1. Lowest(Top) + q - 1 # x
      BY <1>8, <1>9, <1>10, <1>11, <2>2
    <3>2. memory[Lowest(Top) + q - 1] = Top.passed[q]
      BY <1>1, <1>4, <1>17, <2>2 DEF FrameHeld, PassedHeld
    <3> QED
      BY <1>4, <1>13, <2>2, <3>1, <3>2
  <2> QED
    BY <2>1, <2>2
<1>18. FrameHeld(t, memory', ~displaced')
  BY <1>3, <1>14, <1>15, <1>16, <1>17 DEF FrameHeld
<1> QED
  BY <1>3, <1>4, <1>6, <1>7, <1>13, <1>18, TopStep DEF SameFrame

-----------------------------------------------------------------------------
\* CALL puts the callee's frame below; what was the running activation is an open
\* call from here on.
LEMMA CallStep ==
  ASSUME FrameInv, CallFunction
  PROVE  FrameInv'
<1> DEFINE n == Len(calls)
           t == Activation(Top.callee, r7 - 1, r6, Top.passed)
<1>1. /\ n \in Nat \ {0} /\ n \in 1..n
      /\ WellFormed(Top) /\ Top \in ActivationRecord /\ Top.phase = "calling"
      /\ Top.entry \in 0..StackTop /\ Top.callee \in Function
      /\ Top.passed \in Seq(Int)
      /\ \A k \in DOMAIN Top.passed : Top.passed[k] # Unset
  BY TopFacts, RecordTypes DEF CallFunction
<1>2. /\ calls \in Seq(ActivationRecord) /\ n + 1 \in 1..MaxCalls
      /\ \A i \in 1..n : WellFormed(calls[i])
      /\ \A i \in 1..(n - 1) : Linked(calls[i], calls[i + 1])
      /\ \A i, j \in 1..n : i < j => calls[j].entry < Lowest(calls[i])
      /\ \A i \in 1..n : FrameHeld(calls[i], memory, ~displaced)
      /\ \A i \in 2..n : memory[calls[i].entry] = ReturnMark(i - 1)
      /\ calls[1].entry = StackTop /\ StackArguments[calls[1].fn] = 0
      /\ memory \in [Slot -> Int] /\ displaced \in BOOLEAN
  BY <1>1, BoundAssumption DEF FrameInv, CallFunction
<1>3. r7 = Lowest(Top) /\ r6 = HeldPointer(Top)
  BY DEF FrameInv
<1>4. /\ r7 \in Int /\ r7 - 1 \in 0..StackTop /\ r7 - 1 \in Slot /\ r7 <= Top.entry
  BY <1>1, <1>3, Places, StackAssumption DEF CallFunction, Room, Slot
<1>5. r6 \in Int
  BY <1>1, <1>3, Places, RecordTypes DEF HeldPointer
<1>6. /\ r7' = r7 - 1 /\ memory' = [memory EXCEPT ![r7 - 1] = ReturnMark(n)]
      /\ calls' = Append(calls, t) /\ UNCHANGED <<r6, displaced>>
  BY DEF CallFunction
<1>7. /\ Locals[Top.callee] \in Nat /\ StackArguments[Top.callee] \in Nat
      /\ DOMAIN Top.passed = 1..StackArguments[Top.callee]
  BY <1>1, Sizes DEF WellFormed
<1>8. /\ t \in ActivationRecord /\ t.fn = Top.callee /\ t.phase = "entry"
      /\ t.entry = r7 - 1 /\ t.saved = r6 /\ t.arguments = Top.passed
      /\ DOMAIN t.objects = 1..Locals[Top.callee]
      /\ \A o \in DOMAIN t.objects : t.objects[o] = Unset
      /\ t.buffers = <<>>
  <2> DEFINE objects == [o \in 1..Locals[Top.callee] |-> Unset]
  <2>1. objects \in Seq(Int) /\ DOMAIN objects = 1..Locals[Top.callee]
        /\ \A o \in DOMAIN objects : objects[o] = Unset
    BY <1>7 DEF Unset
  <2>2. <<>> \in Seq(Int) /\ <<>> \in Seq(Buffer) /\ "entry" \in Phase
    BY DEF Phase
  <2> HIDE DEF objects
  <2>3. t = [fn |-> Top.callee, phase |-> "entry", callee |-> Top.callee, passed |-> <<>>,
             entry |-> r7 - 1, saved |-> r6, arguments |-> Top.passed,
             objects |-> objects, buffers |-> <<>>]
    BY DEF Activation, objects
  <2> HIDE DEF t
  <2> QED
    BY <1>1, <1>4, <1>5, <2>1, <2>2, <2>3 DEF ActivationRecord
<1> HIDE DEF t
<1>9. Len(t.arguments) = StackArguments[t.fn]
  BY <1>1, <1>7, <1>8
<1>10. ~Active(t) /\ Lowest(t) = r7 - 1 /\ HeldPointer(t) = r6
  BY <1>8 DEF Active, Lowest, HeldPointer
<1>11. WellFormed(t)
  BY <1>8, <1>9, <1>10 DEF WellFormed
<1>12. Linked(Top, t)
  BY <1>1, <1>3, <1>8 DEF Linked
<1>13. /\ calls' \in Seq(ActivationRecord) /\ Len(calls') = n + 1 /\ calls'[n + 1] = t
       /\ \A i \in 1..n : calls'[i] = calls[i]
  BY <1>1, <1>2, <1>6, <1>8
<1> HIDE DEF n
<1>14. Top' = t /\ Top = calls[n]
  BY <1>13 DEF Top, n
<1>15. /\ memory' \in [Slot -> Int] /\ memory'[r7 - 1] = ReturnMark(n)
       /\ \A x : x # r7 - 1 => memory'[x] = memory[x]
  <2>1. ReturnMark(n) \in Int
    BY <1>1 DEF ReturnMark
  <2>2. \A x : x # r7 - 1 => memory'[x] = memory[x]
    BY <1>2, <1>6
  <2> QED
    BY <1>2, <1>4, <1>6, <2>1, <2>2
<1>16. \A i \in 1..n : r7 <= Lowest(calls[i]) /\ Lowest(calls[i]) \in Int
                       /\ Lowest(calls[i]) <= calls[i].entry /\ calls[i].entry \in Int
  <2> TAKE i \in 1..n
  <2>1. WellFormed(calls[i])
    BY <1>2
  <2>2. Lowest(calls[i]) \in Int /\ Lowest(calls[i]) <= calls[i].entry
        /\ calls[i].entry \in Int
    BY <2>1, Places, RecordTypes DEF WellFormed
  <2>3. CASE i = n
    BY <1>3, <1>4, <1>14, <2>2, <2>3
  <2>4. CASE i # n
    <3>1. Top.entry < Lowest(calls[i])
      BY <1>1, <1>2, <1>14, <2>4
    <3> QED
      BY <1>1, <1>4, <2>2, <3>1
  <2> QED
    BY <2>3, <2>4
<1>17. \A i \in 1..(n + 1) : WellFormed(calls'[i])
  <2> TAKE i \in 1..(n + 1)
  <2>1. i = n + 1 \/ i \in 1..n
    BY <1>1
  <2> QED
    BY <1>2, <1>11, <1>13, <2>1
<1>18. \A i \in 1..n : Linked(calls'[i], calls'[i + 1])
  <2> TAKE i \in 1..n
  <2>1. i = n \/ (i \in 1..(n - 1) /\ i + 1 \in 1..n)
    BY <1>1
  <2> QED
    BY <1>2, <1>12, <1>13, <1>14, <2>1
<1>19. ASSUME NEW i \in 1..(n + 1), NEW j \in 1..(n + 1), i < j
       PROVE  calls'[j].entry < Lowest(calls'[i])
  <2>1. i \in 1..n
    BY <1>1, <1>19
  <2>2. CASE j = n + 1
    BY <1>4, <1>8, <1>13, <1>16, <2>1, <2>2
  <2>3. CASE j \in 1..n
    BY <1>2, <1>13, <1>19, <2>1, <2>3
  <2> QED
    BY <1>1, <2>2, <2>3
<1>20. ASSUME NEW i \in 1..(n + 1) PROVE FrameHeld(calls'[i], memory', ~displaced')
  <2>1. CASE i = n + 1
    BY <1>8, <1>10, <1>13, <2>1 DEF FrameHeld, PointerHeld, BuffersHeld, ObjectsHeld,
       PassedHeld
  <2>2. CASE i \in 1..n
    <3>1. \A x \in Slot : x >= Lowest(calls[i]) => memory'[x] = memory[x]
      <4> TAKE x \in Slot
      <4> HAVE x >= Lowest(calls[i])
      <4>1. x # r7 - 1
        BY <1>4, <1>16, <2>2, StackAssumption DEF Slot
      <4> QED
        BY <1>15, <4>1
    <3>2. WellFormed(calls[i]) /\ FrameHeld(calls[i], memory, ~displaced)
          /\ calls'[i] = calls[i]
      BY <1>2, <1>13, <2>2
    <3> QED
      BY <1>6, <3>1, <3>2, HeldKept
  <2> QED
    BY <1>1, <2>1, <2>2
<1>21. ASSUME NEW i \in 2..(n + 1) PROVE memory'[calls'[i].entry] = ReturnMark(i - 1)
  <2>1. CASE i = n + 1
    BY <1>1, <1>8, <1>13, <1>15, <2>1
  <2>2. CASE i \in 2..n
    <3>1. i \in 1..n
      BY <2>2
    <3>2. calls[i].entry # r7 - 1
      BY <1>4, <1>16, <3>1
    <3> QED
      BY <1>2, <1>13, <1>15, <2>2, <3>1, <3>2
  <2> QED
    BY <1>1, <2>1, <2>2
<1>22. calls'[1].entry = StackTop /\ StackArguments[calls'[1].fn] = 0
  BY <1>1, <1>2, <1>13
<1>23. r7' = Lowest(Top') /\ r6' = HeldPointer(Top')
  BY <1>6, <1>10, <1>14
<1>24. n + 1 - 1 = n /\ displaced' \in BOOLEAN
  BY <1>1, <1>2, <1>6
<1>25. Len(calls') - 1 = n /\ Len(calls') \in 1..MaxCalls
  BY <1>1, <1>2, <1>13
<1> QED
  BY <1>13, <1>15, <1>17, <1>18, <1>19, <1>20, <1>21, <1>22, <1>23, <1>24, <1>25, Zenon
     DEF FrameInv

\* RET leaves the frames of the callers as they are.
LEMMA ReturnStep ==
  ASSUME FrameInv, Return
  PROVE  FrameInv'
<1> DEFINE n == Len(calls)
           m == n - 1
           caller == calls[m]
           t == [caller EXCEPT !.phase = "returned"]
<1>1. /\ n \in Nat \ {0} /\ n > 1 /\ Top.phase = "left"
      /\ Top.entry \in Int
  BY TopFacts DEF Return
<1>2. /\ calls \in Seq(ActivationRecord) /\ n \in 1..MaxCalls
      /\ \A i \in 1..n : WellFormed(calls[i])
      /\ \A i \in 1..(n - 1) : Linked(calls[i], calls[i + 1])
      /\ \A i, j \in 1..n : i < j => calls[j].entry < Lowest(calls[i])
      /\ \A i \in 1..n : FrameHeld(calls[i], memory, ~displaced)
      /\ \A i \in 2..n : memory[calls[i].entry] = ReturnMark(i - 1)
      /\ calls[1].entry = StackTop /\ StackArguments[calls[1].fn] = 0
      /\ memory \in [Slot -> Int] /\ displaced \in BOOLEAN
      /\ r7 = Lowest(Top) /\ r6 = HeldPointer(Top)
  BY DEF FrameInv
<1>3. m \in Nat \ {0} /\ m \in 1..n /\ m \in 1..(n - 1) /\ m + 1 = n /\ m \in 1..MaxCalls
      /\ m \in 1..m
  BY <1>1, <1>2, BoundAssumption
<1>4. Linked(caller, Top) /\ WellFormed(caller) /\ FrameHeld(caller, memory, ~displaced)
  BY <1>2, <1>3 DEF Top
<1>5. r7 = Top.entry /\ r6 = Top.saved
  BY <1>1, <1>2 DEF Lowest, HeldPointer, Active
<1>6. /\ r7' = r7 + 1 /\ UNCHANGED <<r6, memory, displaced>>
      /\ calls' = [SubSeq(calls, 1, m) EXCEPT ![m].phase = "returned"]
  BY DEF Return
<1>7. caller \in ActivationRecord /\ caller.phase = "calling"
  BY <1>4 DEF WellFormed, Linked
<1>8. /\ SameFrame(caller, t) /\ t.phase = "returned" /\ t.passed = caller.passed
      /\ t.callee = caller.callee /\ t.objects = caller.objects
      /\ t.buffers = caller.buffers
  BY <1>7, SetPhase DEF Phase
<1>9. /\ calls' \in Seq(ActivationRecord) /\ Len(calls') = m /\ calls'[m] = t
      /\ \A i \in 1..m : i # m => calls'[i] = calls[i]
  <2> DEFINE rest == SubSeq(calls, 1, m)
  <2>1. \A i \in 1..m : calls[i] \in ActivationRecord
    BY <1>1, <1>2, <1>3
  <2>2. rest \in Seq(ActivationRecord) /\ Len(rest) = (IF 1 <= m THEN m - 1 + 1 ELSE 0)
        /\ \A i \in 1..(m - 1 + 1) : rest[i] = calls[1 + i - 1]
    BY <1>3, <2>1, SubSeqProperties
  <2>3. Len(rest) = m /\ \A i \in 1..m : rest[i] = calls[i]
    BY <1>3, <2>2
  <2> HIDE DEF rest, m
  <2>4. t \in ActivationRecord
    BY <1>8 DEF SameFrame
  <2>5. calls' = [rest EXCEPT ![m] = t]
    BY <1>3, <1>6, <2>3 DEF rest
  <2> HIDE DEF t
  <2> QED
    BY <1>3, <2>2, <2>3, <2>4, <2>5
<1> HIDE DEF t, m
<1>10. /\ Active(t) /\ Active(caller) /\ Bottom(t) = Bottom(caller) /\ Base(t) = Base(caller)
       /\ HeldPointer(t) = HeldPointer(caller) /\ Lowest(t) = Lowest(caller)
  BY <1>7, <1>8 DEF Active, Bottom, Base, HeldPointer, Lowest, SameFrame
<1>11. WellFormed(t)
  BY <1>4, <1>7, <1>8, <1>10 DEF WellFormed, SameFrame
<1>12. FrameHeld(t, memory', ~displaced')
  BY <1>4, <1>6, <1>8, <1>10 DEF FrameHeld, PointerHeld, BuffersHeld, ObjectsHeld,
     PassedHeld, SameFrame
<1>13. Top' = t
  BY <1>9 DEF Top
<1>14. Lowest(caller) \in Int /\ Top.entry = Lowest(caller) - 1 /\ Top.saved = HeldPointer(caller)
  BY <1>4, Places DEF Linked
<1>15. r7' = Lowest(Top') /\ r6' = HeldPointer(Top')
  BY <1>5, <1>6, <1>10, <1>13, <1>14
<1>16. \A i \in 1..m : i \in 1..n /\ WellFormed(calls'[i])
          /\ calls'[i].entry = calls[i].entry /\ calls'[i].fn = calls[i].fn
          /\ calls'[i].saved = calls[i].saved /\ calls'[i].arguments = calls[i].arguments
          /\ Lowest(calls'[i]) = Lowest(calls[i])
          /\ FrameHeld(calls'[i], memory', ~displaced')
  <2> TAKE i \in 1..m
  <2>1. i \in 1..n
    BY <1>3
  <2>2. CASE i = m
    BY <1>8, <1>9, <1>10, <1>11, <1>12, <2>1, <2>2 DEF SameFrame
  <2>3. CASE i # m
    BY <1>2, <1>6, <1>9, <2>1, <2>3
  <2> QED
    BY <2>2, <2>3
<1>17. \A i \in 1..(m - 1) : Linked(calls'[i], calls'[i + 1])
  <2> TAKE i \in 1..(m - 1)
  <2>1. i \in 1..m /\ i + 1 \in 1..m /\ i # m /\ i \in 1..(n - 1)
    BY <1>3
  <2>2. Linked(calls[i], calls[i + 1]) /\ calls'[i] = calls[i]
    BY <1>2, <1>9, <2>1
  <2> QED
    BY <1>16, <2>1, <2>2 DEF Linked
<1>18. \A i, j \in 1..m : i < j => calls'[j].entry < Lowest(calls'[i])
  BY <1>2, <1>16
<1>19. ASSUME NEW i \in 2..m PROVE memory'[calls'[i].entry] = ReturnMark(i - 1)
  <2>1. i \in 1..m /\ i \in 2..n
    BY <1>3
  <2> QED
    BY <1>2, <1>6, <1>16, <2>1
<1>20. calls'[1].entry = StackTop /\ StackArguments[calls'[1].fn] = 0
  <2>1. 1 \in 1..m
    BY <1>3
  <2> QED
    BY <1>2, <1>16, <2>1
<1> QED
  BY <1>2, <1>3, <1>6, <1>9, <1>15, <1>16, <1>17, <1>18, <1>19, <1>20, Zenon DEF FrameInv

-----------------------------------------------------------------------------
LEMMA FrameInvInit == FrameInit => FrameInv
<1> SUFFICES ASSUME FrameInit PROVE FrameInv
  OBVIOUS
<1>1. PICK f \in Function : /\ StackArguments[f] = 0
                           /\ calls = << Activation(f, StackTop, 0, <<>>) >>
  BY DEF FrameInit
<1> DEFINE t == Activation(f, StackTop, 0, <<>>)
           objects == [o \in 1..Locals[f] |-> Unset]
<1>2. Locals[f] \in Nat
  BY Sizes
<1>3. objects \in Seq(Int) /\ DOMAIN objects = 1..Locals[f]
      /\ \A o \in DOMAIN objects : objects[o] = Unset
  BY <1>2 DEF Unset
<1>4. /\ <<>> \in Seq(Int) /\ <<>> \in Seq(Buffer) /\ "entry" \in Phase
      /\ StackTop \in 0..StackTop /\ 0 \in Int /\ Len(<<>>) = 0
  BY StackAssumption DEF Phase
<1> HIDE DEF objects
<1>5. t = [fn |-> f, phase |-> "entry", callee |-> f, passed |-> <<>>,
           entry |-> StackTop, saved |-> 0, arguments |-> <<>>,
           objects |-> objects, buffers |-> <<>>]
  BY DEF Activation, objects
<1> HIDE DEF t
<1>6. t \in ActivationRecord
  BY <1>3, <1>4, <1>5 DEF ActivationRecord
<1>7. /\ t.fn = f /\ t.phase = "entry" /\ t.entry = StackTop /\ t.saved = 0
      /\ t.arguments = <<>> /\ t.objects = objects /\ t.buffers = <<>>
  BY <1>5
<1>8. ~Active(t) /\ Lowest(t) = StackTop /\ HeldPointer(t) = 0
  BY <1>7 DEF Active, Lowest, HeldPointer
<1>9. WellFormed(t)
  BY <1>1, <1>3, <1>4, <1>6, <1>7, <1>8 DEF WellFormed
<1>10. FrameHeld(t, memory, ~displaced)
  BY <1>7, <1>8 DEF FrameHeld, PointerHeld, BuffersHeld, ObjectsHeld, PassedHeld
<1>11. calls \in Seq(ActivationRecord) /\ Len(calls) = 1 /\ calls[1] = t /\ Top = t
  BY <1>1, <1>6 DEF t, Top
<1>12. memory \in [Slot -> Int] /\ r7 = StackTop /\ r6 = 0
  BY DEF FrameInit
<1>13. displaced \in BOOLEAN
  BY Zenon DEF FrameInit
<1>14. \A i \in 1..Len(calls) : i = 1
  BY <1>11
<1>15. 1..(Len(calls) - 1) = {} /\ 2..Len(calls) = {}
  BY <1>11
<1>16. \A i, j \in 1..Len(calls) : ~(i < j)
  BY <1>14
<1>17. Len(calls) \in 1..MaxCalls
  BY <1>11, BoundAssumption
<1> QED
  BY <1>1, <1>7, <1>8, <1>9, <1>10, <1>11, <1>12, <1>13, <1>14, <1>15, <1>16, <1>17, Zenon
     DEF FrameInv

LEMMA FrameInvStep == FrameInv /\ [FrameNext]_frameVars => FrameInv'
<1> SUFFICES ASSUME FrameInv, [FrameNext]_frameVars PROVE FrameInv'
  OBVIOUS
<1>1. CASE Prologue
  BY <1>1, PrologueStep
<1>2. CASE \E o \in DOMAIN Top.objects, value \in Value : StoreObject(o, value)
  BY <1>2, StoreObjectStep
<1>3. CASE \E n \in 1..2 : Allocate(n)
  BY <1>3, AllocateStep
<1>4. CASE \E b \in DOMAIN Top.buffers, value \in Value : StoreBuffer(b, value)
  BY <1>4, StoreBufferStep
<1>5. CASE \E g \in Function : StartCall(g)
  BY <1>5, StartCallStep
<1>6. CASE \E k \in DOMAIN Top.passed, value \in Value : StoreArgument(k, value)
  BY <1>6, StoreArgumentStep
<1>7. CASE CallFunction
  BY <1>7, CallStep
<1>8. CASE Epilogue
  BY <1>8, EpilogueStep
<1>9. CASE Return
  BY <1>9, ReturnStep
<1>10. CASE EndCall
  BY <1>10, EndCallStep
<1>11. CASE UNCHANGED frameVars
  BY <1>11 DEF frameVars, FrameInv, Top
<1> QED
  BY <1>1, <1>2, <1>3, <1>4, <1>5, <1>6, <1>7, <1>8, <1>9, <1>10, <1>11 DEF FrameNext

\* Every frame is where the layout puts it, with everything its activation stored in
\* it, after any sequence of prologues, accesses, allocations, calls and returns.
THEOREM FramesCorrect == FrameSpec => []FrameInv
BY FrameInvInit, FrameInvStep, PTL DEF FrameSpec

-----------------------------------------------------------------------------
\* The registers, the memory and the activations are well-formed, and R7 never rises
\* above the return address of the function that runs: no epilogue, allocation or end
\* of a call loses its place (emitPrologue, emitEpilogue, call-frame pseudos).
THEOREM FrameTypes == FrameSpec => []FrameTypeOK
<1>1. FrameInv => FrameTypeOK
  <2> SUFFICES ASSUME FrameInv PROVE FrameTypeOK
    OBVIOUS
  <2>1. /\ memory \in [Slot -> Int] /\ displaced \in BOOLEAN /\ Len(calls) \in 1..MaxCalls
        /\ r7 = Lowest(Top) /\ r6 = HeldPointer(Top)
    BY DEF FrameInv
  <2>2. WellFormed(Top) /\ Len(calls) \in Nat
    BY TopFacts
  <2>3. Top.entry \in 0..StackTop /\ Top.saved \in Int
    BY <2>2, RecordTypes DEF WellFormed
  <2>4. r7 \in 0..StackTop /\ r7 <= Top.entry /\ r6 \in Int
    BY <2>1, <2>2, <2>3, Places, StackAssumption DEF HeldPointer
  <2>5. ASSUME NEW i \in 1..Len(calls)
        PROVE  /\ calls[i].fn \in Function /\ calls[i].callee \in Function
               /\ calls[i].phase \in Phase
               /\ calls[i].entry \in 0..StackTop
               /\ Len(calls[i].arguments) = StackArguments[calls[i].fn]
               /\ i < Len(calls) => calls[i].phase = "calling"
    <3>1. WellFormed(calls[i])
      BY DEF FrameInv
    <3>2. i < Len(calls) => Linked(calls[i], calls[i + 1])
      BY <2>2 DEF FrameInv
    <3> QED
      BY <3>1, <3>2, RecordTypes DEF WellFormed, Linked
  <2> QED
    BY <2>1, <2>4, <2>5 DEF FrameTypeOK
<1> QED
  BY <1>1, FramesCorrect, PTL

\* What a function has stored in its frame it finds again after any calls and
\* allocations (eliminateFrameIndex against the prologue and the call sequence).
THEOREM ObjectsFound == FrameSpec => []ObjectsReachable
<1>1. FrameInv => ObjectsReachable
  <2> SUFFICES ASSUME FrameInv, ~displaced, Runs, ~Moved,
                      NEW o \in DOMAIN Top.objects, Top.objects[o] # Unset
               PROVE  memory[ObjectAddress(o)] = Top.objects[o]
    BY DEF ObjectsReachable
  <2>1. WellFormed(Top) /\ FrameHeld(Top, memory, ~displaced) /\ Active(Top)
        /\ Top.entry \in Int /\ Top.fn \in Function
    BY TopFacts DEF Runs, Active
  <2>2. memory[Top.entry - SavedPointer(Top.fn) - o] = Top.objects[o]
    BY <2>1 DEF FrameHeld, ObjectsHeld
  <2>3. /\ Bottom(Top) \in Int /\ StackSize[Top.fn] \in Nat /\ SavedPointer(Top.fn) \in Nat
        /\ Bottom(Top) + StackSize[Top.fn] + SavedPointer(Top.fn) = Top.entry
        /\ o \in 1..Locals[Top.fn]
    BY <2>1, Places, Sizes DEF WellFormed
  <2>4. FrameRegister(Top.fn) = Bottom(Top)
    BY FrameRegisterPlace
  <2>5. ObjectAddress(o) = Bottom(Top) + StackSize[Top.fn] + (-o)
    BY <2>4 DEF ObjectAddress, FrameAddress
  <2>6. ObjectAddress(o) = Top.entry - SavedPointer(Top.fn) - o
    BY <2>1, <2>3, <2>5
  <2> QED
    BY <2>2, <2>6
<1> QED
  BY <1>1, FramesCorrect, PTL

\* A function without frame pointer finds every stack argument where its caller
\* stored it (LowerCall against LowerFormalArguments), until it returns.
THEOREM ArgumentsFound == FrameSpec => []ArgumentsReachable
<1>1. FrameInv => ArgumentsReachable
  <2> SUFFICES ASSUME FrameInv, ~displaced, Runs, ~Moved, ~HasFP(Top.fn),
                      NEW k \in DOMAIN Top.arguments
               PROVE  memory[ArgumentAddress(k)] = Top.arguments[k]
    BY DEF ArgumentsReachable
  <2> DEFINE n == Len(calls)
             caller == calls[n - 1]
  <2>1. /\ WellFormed(Top) /\ Top.entry \in Int /\ Top.fn \in Function
        /\ n \in Nat \ {0} /\ Top.arguments \in Seq(Int)
    BY TopFacts, RecordTypes
  <2>2. k \in 1..StackArguments[Top.fn]
    BY <2>1 DEF WellFormed
  <2>3. n # 1
    BY <2>2 DEF FrameInv, Top
  <2>4. Linked(caller, Top) /\ FrameHeld(caller, memory, ~displaced) /\ WellFormed(caller)
    <3>1. \A q \in Nat \ {0} :
            q # 1 => q - 1 \in 1..(q - 1) /\ q - 1 \in 1..q /\ q - 1 + 1 = q
      OBVIOUS
    <3>2. n - 1 \in 1..(n - 1) /\ n - 1 \in 1..n /\ n - 1 + 1 = n
      BY <2>1, <2>3, <3>1
    <3> QED
      BY <3>2 DEF FrameInv, Top
  <2>5. k \in DOMAIN caller.passed /\ caller.passed[k] = Top.arguments[k]
        /\ memory[Lowest(caller) + k - 1] = caller.passed[k]
    BY <2>4 DEF Linked, FrameHeld, PassedHeld
  <2>6. Lowest(caller) \in Int /\ Top.entry = Lowest(caller) - 1
    BY <2>4, Places DEF Linked
  <2>7. /\ Bottom(Top) \in Int /\ StackSize[Top.fn] \in Nat /\ SavedPointer(Top.fn) = 0
        /\ Bottom(Top) + StackSize[Top.fn] + SavedPointer(Top.fn) = Top.entry
    BY <2>1, Places, Sizes
  <2>8. ArgumentAddress(k) = Bottom(Top) + StackSize[Top.fn] + k
    BY FrameRegisterPlace DEF ArgumentAddress, ArgumentOffset, FrameAddress
  <2>9. ArgumentAddress(k) = Lowest(caller) + k - 1
    BY <2>1, <2>2, <2>6, <2>7, <2>8
  <2> QED
    BY <2>5, <2>9
<1> QED
  BY <1>1, FramesCorrect, PTL

\* A dynamic allocation of any open activation keeps its contents through further
\* allocations, calls and their arguments (DYNAMIC_STACKALLOC).
THEOREM AllocationsKept == FrameSpec => []BuffersKept
<1>1. FrameInv => BuffersKept
  <2> SUFFICES ASSUME FrameInv, NEW i \in 1..Len(calls), NEW b \in DOMAIN calls[i].buffers,
                      calls[i].phase # "left", calls[i].buffers[b].value # Unset
               PROVE  memory[calls[i].buffers[b].at] = calls[i].buffers[b].value
    BY DEF BuffersKept
  <2>1. WellFormed(calls[i]) /\ FrameHeld(calls[i], memory, ~displaced)
    BY DEF FrameInv
  <2>2. calls[i].phase \in Phase /\ calls[i].phase # "entry"
    BY <2>1, RecordTypes DEF WellFormed
  <2>3. Active(calls[i])
    BY <2>2 DEF Active, Phase
  <2> QED
    BY <2>1, <2>3 DEF FrameHeld, BuffersHeld
<1> QED
  BY <1>1, FramesCorrect, PTL

\* RET finds the return address of its own call at R7, and R6 and R7 are handed back
\* as they were before the call (emitPrologue, emitEpilogue).
THEOREM ReturnsRestore == FrameSpec => []ReturnRestores
<1>1. FrameInv => ReturnRestores
  <2> SUFFICES ASSUME FrameInv, Top.phase = "left"
               PROVE  /\ r6 = Top.saved /\ r7 = Top.entry
                      /\ Len(calls) > 1 => memory[r7] = ReturnMark(Len(calls) - 1)
    BY DEF ReturnRestores
  <2>1. r6 = Top.saved /\ r7 = Top.entry
    BY DEF FrameInv, Lowest, HeldPointer, Active
  <2>2. ASSUME Len(calls) > 1 PROVE memory[r7] = ReturnMark(Len(calls) - 1)
    <3>1. Len(calls) \in 2..Len(calls)
      BY <2>2, TopFacts
    <3> QED
      BY <2>1, <3>1 DEF FrameInv, Top
  <2> QED
    BY <2>1, <2>2
<1> QED
  BY <1>1, FramesCorrect, PTL
=============================================================================
