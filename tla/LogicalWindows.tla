--------------------------- MODULE LogicalWindows ---------------------------
(***************************************************************************)
(* The promise of the register-window extension, independent of how a      *)
(* machine stores windows (docs/REGISTER_WINDOWING_EXTENSION.md, "Register *)
(* partition" and "Logical operations"): R24-R31 of a window and R8-R15 of *)
(* its child are ONE group of eight cells that both windows name.  Nothing *)
(* is copied here: a write through either name is a write to the cell, and *)
(* a window's local group is reachable only while that window is current.  *)
(*                                                                         *)
(*   overlap[i]      the group that is incoming in window i, and outgoing  *)
(*                   in window i-1                                         *)
(*   overlap[d + 1]  the outgoing group of the current window d            *)
(*   local[i]        R16-R23 of window i                                   *)
(***************************************************************************)
EXTENDS Integers, Sequences

CONSTANTS
  Word        \* the values a register can hold, 0 among them

VARIABLES
  global,     \* R0-R7, the same cells in every window
  overlap,    \* the overlapping groups, root first
  local       \* the local groups, root first

logicalVars == <<global, overlap, local>>

Lane == 0..7
Group == [Lane -> Word]
ZeroGroup == [lane \in Lane |-> 0]

\* The depth of the current window; the root has depth 1.
Current == Len(local)

LogicalTypeOK ==
  /\ global \in Group
  /\ local \in Seq(Group)
  /\ overlap \in Seq(Group)
  /\ Len(local) >= 1
  /\ Len(overlap) = Len(local) + 1

LogicalInit ==
  /\ global \in Group
  /\ local \in [1..1 -> Group]
  /\ overlap \in [1..2 -> Group]

-----------------------------------------------------------------------------
WriteGlobal(lane, value) ==
  /\ global' = [global EXCEPT ![lane] = value]
  /\ UNCHANGED <<overlap, local>>

WriteIncoming(lane, value) ==
  /\ overlap' = [overlap EXCEPT ![Current] = [@ EXCEPT ![lane] = value]]
  /\ UNCHANGED <<global, local>>

WriteLocal(lane, value) ==
  /\ local' = [local EXCEPT ![Current] = [@ EXCEPT ![lane] = value]]
  /\ UNCHANGED <<global, overlap>>

WriteOutgoing(lane, value) ==
  /\ overlap' = [overlap EXCEPT ![Current + 1] = [@ EXCEPT ![lane] = value]]
  /\ UNCHANGED <<global, local>>

\* The child takes over the outgoing group and starts with zeroed groups of
\* its own; no cell of an older window changes.
Advance ==
  /\ overlap' = Append(overlap, ZeroGroup)
  /\ local' = Append(local, ZeroGroup)
  /\ UNCHANGED global

\* The child's own groups disappear; what it left in the shared group stays.
Restore ==
  /\ Current > 1
  /\ overlap' = SubSeq(overlap, 1, Current)
  /\ local' = SubSeq(local, 1, Current - 1)
  /\ UNCHANGED global

LogicalNext ==
  \/ \E lane \in Lane, value \in Word :
       \/ WriteGlobal(lane, value)
       \/ WriteIncoming(lane, value)
       \/ WriteLocal(lane, value)
       \/ WriteOutgoing(lane, value)
  \/ Advance
  \/ Restore

LogicalSpec == LogicalInit /\ [][LogicalNext]_logicalVars
=============================================================================
