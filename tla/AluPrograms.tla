---------------------------- MODULE AluPrograms ----------------------------
(***************************************************************************)
(* Straight-line programs over IntegerAlu: any instruction may follow any  *)
(* other.  What a program wants from the flags is about two instructions   *)
(* that need not be adjacent (a comparison and a conditional jump, the two *)
(* halves of a two-word sum), so the specification remembers the operands  *)
(* of the addition or subtraction the flags are still about.  It forgets   *)
(* them, or all but their carry, where the ISA (spec/seabird-isa.json,     *)
(* "flags") gives the flags another meaning, even if the code leaves them. *)
(***************************************************************************)
EXTENDS IntegerAlu

VARIABLE
  last    \* history: the addition or subtraction that the flags are about

progVars == <<r, flags, fault, last>>

\* whole: all the flags are still about it, not the carry alone.
Forgotten == [kind |-> "none", a |-> 0, b |-> 0, whole |-> FALSE]
Remember(kind, a, b) == last' = [kind |-> kind, a |-> a, b |-> b, whole |-> TRUE]
KeepCarry == last' = [last EXCEPT !.whole = FALSE]
Forget == last' = Forgotten

ProgTypeOK ==
  /\ AluTypeOK
  /\ last \in [kind : {"none", "add", "sub"}, a : Word, b : Word, whole : BOOLEAN]

ProgInit ==
  /\ r \in [AluReg -> Word]
  /\ flags = [cf |-> FALSE, zf |-> FALSE, sf |-> FALSE, of |-> FALSE]
  /\ fault = "none"
  /\ last = Forgotten

\* The instructions that the ISA says leave every flag unchanged.
FlagNeutral(reg, rm) ==
  \/ Mov(reg, rm)
  \/ Mul(reg, rm)
  \/ MulHigh(reg, rm)
  \/ Div(reg, rm)
  \/ Mod(reg, rm)
  \/ UDiv(reg, rm)
  \/ Neg(reg)
  \/ SetLess(reg, rm)

FlagNeutralImmediate(rm, imm) ==
  \/ MovImmediate(rm, imm)
  \/ MulImmediate(rm, imm)
  \/ DivImmediate(rm, imm)
  \/ ModImmediate(rm, imm)

\* The ISA defines ZF, SF and OF by the result, and leaves CF unchanged.
CountByOne(reg) ==
  \/ Inc(reg)
  \/ Dec(reg)

\* The ISA defines CF, ZF and SF by the shift.
Shift(reg, rm) ==
  \/ Shl(reg, rm)
  \/ Shr(reg, rm)
  \/ Sar(reg, rm)

BitwiseLogic(reg, rm) ==
  \/ And(reg, rm)
  \/ Or(reg, rm)
  \/ Xor(reg, rm)

ProgStep ==
  \/ \E reg, rm \in AluReg :
       \/ FlagNeutral(reg, rm) /\ UNCHANGED last
       \/ Add(reg, rm) /\ Remember("add", r[reg], r[rm])
       \/ Sub(reg, rm) /\ Remember("sub", r[reg], r[rm])
       \/ Compare(reg, rm) /\ Remember("sub", r[reg], r[rm])
       \/ (Adc(reg, rm) \/ Sbb(reg, rm) \/ BitwiseLogic(reg, rm)) /\ Forget
       \/ Shift(reg, rm) /\ Forget
       \/ CountByOne(reg) /\ KeepCarry
  \/ \E rm \in AluReg, imm \in Immediate :
       \/ FlagNeutralImmediate(rm, imm) /\ UNCHANGED last
       \/ AddImmediate(rm, imm) /\ Remember("add", r[rm], imm)
       \/ SubImmediate(rm, imm) /\ Remember("sub", r[rm], imm)

ProgNext == fault = "none" /\ ProgStep

ProgSpec == ProgInit /\ [][ProgNext]_progVars

-----------------------------------------------------------------------------
\* What the conditions of the ISA mean after a comparison of a with b.
Relation(condition, a, b) ==
  CASE condition = "JZ"  -> a = b
    [] condition = "JNZ" -> a # b
    [] condition = "JG"  -> Signed(a) > Signed(b)
    [] condition = "JGE" -> Signed(a) >= Signed(b)
    [] condition = "JL"  -> Signed(a) < Signed(b)
    [] condition = "JLE" -> Signed(a) <= Signed(b)
    [] condition = "JC"  -> a < b
    [] condition = "JNC" -> a >= b

\* The conditional jumps that read the carry alone.
CarryCondition == {"JC", "JNC"}

\* However many instructions that the ISA says leave the flags unchanged follow
\* SUB, SUBI or CMP, and whatever they do to the compared registers, each of the
\* eight conditional jumps is taken exactly when its relation held of the
\* operands; after INC or DEC, which may redefine the other flags, JC and JNC
\* still are (flags_sub and the conditions of run_function).
JumpsDecideComparison ==
  last.kind = "sub" =>
    \A condition \in (IF last.whole THEN Condition ELSE CarryCondition) :
      Taken(condition, flags) <=> Relation(condition, last.a, last.b)

\* A number of two words, and its value as a signed number.
Wide(high, low) == high * WordSize + low
SignedWide(high, low) == Signed(high) * WordSize + low

WideSumStep ==
  \A reg, rm \in AluReg :
    last.kind = "add" /\ Adc(reg, rm) =>
      LET low == Plus(last.a, last.b)
          sum == Wide(r[reg], last.a) + Wide(r[rm], last.b)
          signedSum == SignedWide(r[reg], last.a) + SignedWide(r[rm], last.b)
      IN  /\ Wide(r'[reg], low) + (IF flags'.cf THEN WordSize * WordSize ELSE 0) = sum
          /\ flags'.of <=> (SignedWide(r'[reg], low) # signedSum)
          /\ flags'.sf <=> Negative(r'[reg])

\* ADD of the low words, then ADC of the high words, is the sum of the two-word
\* numbers: the words, the carry out of the upper one and its signed overflow,
\* with any instructions in between that the ISA says leave CF unchanged: INC and
\* DEC are among them, shifts are not (flags_add, case 0xD8).
WideSum == [][WideSumStep]_progVars

WideDifferenceStep ==
  \A reg, rm \in AluReg :
    last.kind = "sub" /\ Sbb(reg, rm) =>
      LET a == Wide(r[reg], last.a)
          b == Wide(r[rm], last.b)
          low == Minus(last.a, last.b)
      IN  /\ Wide(r'[reg], low) = IF a >= b THEN a - b
                                            ELSE a - b + WordSize * WordSize
          /\ Taken("JC", flags') <=> (a < b)
          /\ Taken("JL", flags') <=>
               (SignedWide(r[reg], last.a) < SignedWide(r[rm], last.b))

\* SUB or CMP of the low words, then SBB of the high words, compares the two-word
\* numbers: JC and JL after it are the unsigned and the signed order, with the
\* same instructions in between (flags_sub, case 0xD9).
WideDifference == [][WideDifferenceStep]_progVars

HighProductStep ==
  \A reg, rm \in AluReg :
    MulHigh(reg, rm) => r'[reg] = (r[reg] * r[rm]) \div WordSize

\* UMULH, four half-word products with two carries between them, is the upper
\* word of the exact product (case 0xDA).
HighProduct == [][HighProductStep]_progVars

\* The specification of the ISA calls ZF and SF "defined" after INC
\* (spec/seabird-isa.json, INC, flags).
IncrementDefinesFlags ==
  [][\A reg \in AluReg :
       Inc(reg) => /\ flags'.zf = (r'[reg] = 0)
                   /\ flags'.sf = Negative(r'[reg])]_progVars
=============================================================================
