----------------------------- MODULE IntegerAlu -----------------------------
(***************************************************************************)
(* The integer instructions of execute() in src/seabird_ref.cpp: the       *)
(* registers, the four condition flags, and the conditions of the          *)
(* conditional jumps of run_function.                                      *)
(*                                                                         *)
(* A word has 2 * Half values, 2^64 in the code; the sign bit is set in    *)
(* the upper half of them.  Arithmetic wraps.  The shift and bitwise       *)
(* instructions see a word as the set of its bits.                         *)
(***************************************************************************)
EXTENDS Integers, FiniteSets, FiniteSetsExt

CONSTANTS
  Half,       \* 2^(WordBits-1), 2^63 in the code
  HalfWord,   \* the square root of 2 * Half, 2^32 in the code
  WordBits,   \* a power of two: a shift count is masked with WordBits - 1
  AluReg,     \* the registers the program names in reg and rm
  Immediate   \* the immediates it uses

ASSUME HalfAssumption == Half \in Nat \ {0}
ASSUME HalfWordAssumption == HalfWord \in Nat \ {0} /\ HalfWord * HalfWord = 2 * Half
ASSUME WordBitsAssumption == WordBits \in Nat \ {0} /\ Half = 2^(WordBits - 1)
ASSUME ImmediateAssumption == Immediate \subseteq 0..(2 * Half - 1)

VARIABLES
  r,          \* Cpu::r
  flags,      \* Cpu::cf, zf, sf and of
  fault       \* what ended the run, or "none"

aluVars == <<r, flags, fault>>

WordSize == 2 * Half
Word == 0..(WordSize - 1)
Flags == [cf : BOOLEAN, zf : BOOLEAN, sf : BOOLEAN, of : BOOLEAN]

DivideByZero == "division by zero"
DivideOverflow == "signed division overflow"

AluTypeOK ==
  /\ r \in [AluReg -> Word]
  /\ flags \in Flags
  /\ fault \in {"none", DivideByZero, DivideOverflow}

-----------------------------------------------------------------------------
(***************************************************************************)
(* Words.                                                                  *)
(***************************************************************************)
Negative(a) == a >= Half
Signed(a) == IF Negative(a) THEN a - WordSize ELSE a
Unsigned(i) == IF i < 0 THEN i + WordSize ELSE i

Plus_NoWrap(a, b) == a + b

Plus(a, b) == IF a + b >= WordSize THEN a + b - WordSize ELSE a + b
Minus(a, b) == IF a >= b THEN a - b ELSE a + WordSize - b
Times(a, b) == (a * b) % WordSize

\* C++ division truncates towards zero.
Magnitude(i) == IF i < 0 THEN -i ELSE i
Quotient(i, j) ==
  LET q == Magnitude(i) \div Magnitude(j)
  IN  IF (i < 0) = (j < 0) THEN q ELSE -q
Remainder(i, j) == i - j * Quotient(i, j)

Bits(a) == {bit \in 0..(WordBits - 1) : (a \div 2^bit) % 2 = 1}
FromBits(bits) == MapThenSumSet(LAMBDA bit : 2^bit, bits)

ShiftCount(b) == b % WordBits

\* Arithmetic of powers of two, beyond the provers' knowledge of 2^n.
ASSUME PowerAssumption ==
  /\ \A bit \in 0..(WordBits - 1) : 2^bit \in Nat \ {0}
  /\ \A bits \in SUBSET (0..(WordBits - 1)) : FromBits(bits) \in Word

-----------------------------------------------------------------------------
(***************************************************************************)
(* Flags.  The expression for of in the code tests the sign bit of         *)
(* ~(a ^ b) & (a ^ result), or of (a ^ b) & (a ^ result).                  *)
(***************************************************************************)
FlagsAdd(a, b, result) ==
  [cf |-> result < a,
   zf |-> result = 0,
   sf |-> Negative(result),
   of |-> Negative(a) = Negative(b) /\ Negative(a) # Negative(result)]

\* The overflow rule of addition in place of that of subtraction.
FlagsSub_AddOverflow(a, b, result) ==
  [cf |-> a < b,
   zf |-> result = 0,
   sf |-> Negative(result),
   of |-> Negative(a) = Negative(b) /\ Negative(a) # Negative(result)]

FlagsSub(a, b, result) ==
  [cf |-> a < b,
   zf |-> result = 0,
   sf |-> Negative(result),
   of |-> Negative(a) # Negative(b) /\ Negative(a) # Negative(result)]

FlagsLogic(result) ==
  [cf |-> FALSE, zf |-> result = 0, sf |-> Negative(result), of |-> FALSE]

\* ADC and SBB: the carry of either of the two additions.
FlagsAdc_LostCarry(a, b, partial, result) ==
  [FlagsAdd(a, b, result) EXCEPT !.cf = partial < a]

FlagsAdc(a, b, partial, result) ==
  [FlagsAdd(a, b, result) EXCEPT !.cf = partial < a \/ result < partial]

FlagsSbb_LostBorrow(a, b, partial, borrow, result) == FlagsSub(a, b, result)

FlagsSbb(a, b, partial, borrow, result) ==
  [FlagsSub(a, b, result) EXCEPT !.cf = a < b \/ partial < borrow]

\* Jcc, opcodes 0x61 to 0x68 in this order.
Condition == {"JZ", "JNZ", "JG", "JGE", "JL", "JLE", "JC", "JNC"}

Taken(condition, f) ==
  CASE condition = "JZ"  -> f.zf
    [] condition = "JNZ" -> ~f.zf
    [] condition = "JG"  -> ~f.zf /\ f.sf = f.of
    [] condition = "JGE" -> f.sf = f.of
    [] condition = "JL"  -> f.sf # f.of
    [] condition = "JLE" -> f.zf \/ f.sf # f.of
    [] condition = "JC"  -> f.cf
    [] condition = "JNC" -> ~f.cf

-----------------------------------------------------------------------------
(***************************************************************************)
(* Instructions.  src is read before dst is written, so reg = rm is the    *)
(* same code.                                                              *)
(***************************************************************************)
Write(reg, value) == r' = [r EXCEPT ![reg] = value]
SetFlags(f) == flags' = f /\ UNCHANGED fault
NoFlags == UNCHANGED <<flags, fault>>
Halt(reason) == fault' = reason /\ UNCHANGED <<r, flags>>

Mov(reg, rm) == Write(reg, r[rm]) /\ NoFlags
MovImmediate(rm, imm) == Write(rm, imm) /\ NoFlags

\* ADD, SUB, CMP, and ADDI, SUBI with the immediate for src.
AddTo(reg, a, b) ==
  /\ Write(reg, Plus(a, b))
  /\ SetFlags(FlagsAdd(a, b, Plus(a, b)))

SubtractFrom(reg, a, b) ==
  /\ Write(reg, Minus(a, b))
  /\ SetFlags(FlagsSub(a, b, Minus(a, b)))

Add(reg, rm) == AddTo(reg, r[reg], r[rm])
AddImmediate(rm, imm) == AddTo(rm, r[rm], imm)
Sub(reg, rm) == SubtractFrom(reg, r[reg], r[rm])
SubImmediate(rm, imm) == SubtractFrom(rm, r[rm], imm)

Compare(reg, rm) ==
  /\ SetFlags(FlagsSub(r[reg], r[rm], Minus(r[reg], r[rm])))
  /\ UNCHANGED r

Adc(reg, rm) ==
  LET carry == IF flags.cf THEN 1 ELSE 0
      partial == Plus(r[reg], r[rm])
      result == Plus(partial, carry)
  IN  /\ Write(reg, result)
      /\ SetFlags(FlagsAdc(r[reg], r[rm], partial, result))

Sbb(reg, rm) ==
  LET borrow == IF flags.cf THEN 1 ELSE 0
      partial == Minus(r[reg], r[rm])
      result == Minus(partial, borrow)
  IN  /\ Write(reg, result)
      /\ SetFlags(FlagsSbb(r[reg], r[rm], partial, borrow, result))

Mul(reg, rm) == Write(reg, Times(r[reg], r[rm])) /\ NoFlags
MulImmediate(rm, imm) == Write(rm, Times(r[rm], imm)) /\ NoFlags

\* The upper word of a product from four products of half words, of `base` values
\* each (2^32 in the code).
HighWord_LostCarry(a, b, base) ==
  LET low == (a % base) * (b % base)
      cross == (a \div base) * (b % base) + low \div base
      crossLow == (a % base) * (b \div base)
  IN  (a \div base) * (b \div base) + cross \div base + crossLow \div base

HighWord(a, b, base) ==
  LET low == (a % base) * (b % base)
      cross == (a \div base) * (b % base) + low \div base
      crossLow == (cross % base) + (a % base) * (b \div base)
  IN  (a \div base) * (b \div base) + cross \div base + crossLow \div base

MulHigh(reg, rm) ==
  /\ Write(reg, HighWord(r[reg], r[rm], HalfWord))
  /\ NoFlags

\* DIV and MOD, register and immediate forms.  The most negative word divided
\* by -1 is undefined in C++: the division instruction of the host traps, or
\* the quotient wraps and the remainder is zero.
Divides(a, b) == b # 0 /\ ~(a = Half /\ b = WordSize - 1)

DivideInto(reg, a, b) ==
  \/ b = 0 /\ Halt(DivideByZero)
  \/ /\ Divides(a, b)
     /\ Write(reg, Unsigned(Quotient(Signed(a), Signed(b))))
     /\ NoFlags
  \/ /\ b # 0 /\ ~Divides(a, b)
     /\ Halt(DivideOverflow) \/ (Write(reg, Half) /\ NoFlags)

RemainderInto(reg, a, b) ==
  \/ b = 0 /\ Halt(DivideByZero)
  \/ /\ Divides(a, b)
     /\ Write(reg, Unsigned(Remainder(Signed(a), Signed(b))))
     /\ NoFlags
  \/ /\ b # 0 /\ ~Divides(a, b)
     /\ Halt(DivideOverflow) \/ (Write(reg, 0) /\ NoFlags)

Div(reg, rm) == DivideInto(reg, r[reg], r[rm])
DivImmediate(rm, imm) == DivideInto(rm, r[rm], imm)
Mod(reg, rm) == RemainderInto(reg, r[reg], r[rm])
ModImmediate(rm, imm) == RemainderInto(rm, r[rm], imm)

UDiv(reg, rm) ==
  \/ r[rm] = 0 /\ Halt(DivideByZero)
  \/ r[rm] # 0 /\ Write(reg, r[reg] \div r[rm]) /\ NoFlags

\* These three read and write `reg` and leave the flags alone.
Neg(reg) == Write(reg, Minus(0, r[reg])) /\ NoFlags
Inc(reg) == Write(reg, Plus(r[reg], 1)) /\ NoFlags
Dec(reg) == Write(reg, Minus(r[reg], 1)) /\ NoFlags

Logic(reg, value) == Write(reg, value) /\ SetFlags(FlagsLogic(value))
And(reg, rm) == Logic(reg, FromBits(Bits(r[reg]) \cap Bits(r[rm])))
Or(reg, rm) == Logic(reg, FromBits(Bits(r[reg]) \cup Bits(r[rm])))
Xor(reg, rm) == Logic(reg, FromBits(SymDiff(Bits(r[reg]), Bits(r[rm]))))

Shl(reg, rm) == Write(reg, Times(r[reg], 2^ShiftCount(r[rm]))) /\ NoFlags
Shr(reg, rm) == Write(reg, r[reg] \div 2^ShiftCount(r[rm])) /\ NoFlags
Sar(reg, rm) ==
  Write(reg, Unsigned(Signed(r[reg]) \div 2^ShiftCount(r[rm]))) /\ NoFlags

SetLess(reg, rm) ==
  Write(reg, IF Signed(r[reg]) < Signed(r[rm]) THEN 1 ELSE 0) /\ NoFlags
=============================================================================
