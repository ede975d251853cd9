-------------------------- MODULE MCCallDiscipline --------------------------
(***************************************************************************)
(* TLC instance of CallDiscipline: words of four bits, two or three slots  *)
(* of memory, and every program of a few shapes.                           *)
(***************************************************************************)
EXTENDS CallDiscipline

I(op, reg, rm, imm) == [op |-> op, reg |-> reg, rm |-> rm, imm |-> imm]

ReturnI == I("RET", 0, 0, 0)
CallI(imm) == I("CALL", 0, 0, imm)
Nop == I("ADD", 0, 8, 0)

\* What a function may do between its call and its return.
Body ==
  { CallI(-2), CallI(1), I("CALLA", 0, 24, 0), ReturnI,
    I("JZR", 0, 8, 1), I("JNZR", 0, 16, -2), I("JMP", 0, 0, -1),
    I("MOVI", 0, 24, 3), I("MOVI", 0, 16, 1), I("MOVI", 0, 7, 9),
    I("ADD", 8, 24, 0), I("LDQ", 24, 7, 0),
    I("STQ", 8, 7, 15), I("STQ", 8, 7, 0),
    I("WINNEW", 0, 0, 0), I("WINPREV", 0, 0, 0) }

\* main calls the function at 3, and does something before or after the call.
Nested == { <<CallI(2), x, ReturnI, y, z, ReturnI>> : x, y, z \in Body }
Prepared == { <<x, CallI(1), ReturnI, y, z, ReturnI>> : x, y, z \in Body }

\* A comparison decides a jump.
Branches ==
  { <<I("MOVI", 0, 8, a), I("MOVI", 0, 9, b), I("CMP", 8, 9, 0),
      I(condition, 0, 0, 1), I("UDIV", 8, 9, 0), ReturnI>> :
    a \in {0, 1}, b \in {0, 15}, condition \in Alu!Condition }

\* One request to the console or the host.
Requests ==
  { <<I("MOVI", 0, 0, service), I("MOVI", 0, 1, argument), I("STQ", 0, 8, 0),
      I("STQ", 0, 8, 1), I("SYSCALL", 0, 0, 0), I("SYSCALL", 0, 0, 0), ReturnI>> :
    service \in 1..6, argument \in {0, 2, 3} }

MCPrograms == Nested \cup Prepared \cup Branches \cup Requests

AToken(number, value, empty) ==
  [number |-> number, value |-> value, empty |-> empty, first |-> 4]
MCTokens == { AToken(TRUE, 1, FALSE), AToken(FALSE, 0, FALSE), AToken(FALSE, 0, TRUE) }
MCInputs == { <<>> } \cup { <<token>> : token \in MCTokens }

\* The console matters to the requests alone.
MCInit ==
  /\ r = [reg \in Reg |-> CASE reg = 7 -> MemorySlots
                            [] reg = 24 -> 3
                            [] OTHER -> 0]
  /\ CallInit
  /\ code \notin Requests => ~consoleEnabled /\ input = <<>>
  /\ code \in Requests => ~windowEnabled

MCSpec == MCInit /\ [][CallNext]_callVars /\ WF_callVars(CallNext)
=============================================================================
