--------------------------- MODULE MCStackFrames ---------------------------
(***************************************************************************)
(* TLC instances of StackFrames for SB64: a function with a frame pointer  *)
(* and one without, each with a local variable; one of them takes an       *)
(* argument on the stack.                                                  *)
(***************************************************************************)
EXTENDS StackFrames

MCFunction == {"plain", "dynamic"}
MCFramePointer == {"dynamic"}
MCStackSize == [f \in MCFunction |-> 2]
MCLocals == [f \in MCFunction |-> 1]
MCPlainArgument == [plain |-> 1, dynamic |-> 0]
MCDynamicArgument == [plain |-> 0, dynamic |-> 1]

MCSpec == FrameSpec
=============================================================================
