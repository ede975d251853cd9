----------------------------- MODULE AluProofs -----------------------------
(***************************************************************************)
(* AluPrograms, proved for every word size.                                *)
(*                                                                         *)
(* The arithmetic facts come first, stated about integers and words alone. *)
(* The inductive invariant says what the flags are while the history       *)
(* remembers an addition or a subtraction: the flags OF that operation,    *)
(* whatever has happened to the registers since.                           *)
(***************************************************************************)
EXTENDS AluPrograms, TLAPS

\* The least facts about the constants every lemma below needs.
LEMMA Sizes ==
  /\ Half \in Nat
  /\ Half >= 1
  /\ WordSize \in Nat
  /\ WordSize = 2 * Half
  /\ Word = 0..(WordSize - 1)
BY HalfAssumption DEF WordSize, Word

\* Addition and subtraction stay inside a word.
LEMMA WrapClosed ==
  ASSUME NEW a \in Word, NEW b \in Word
  PROVE  Plus(a, b) \in Word /\ Minus(a, b) \in Word
BY Sizes DEF Plus, Minus

LEMMA SignedBounds ==
  ASSUME NEW a \in Word
  PROVE  /\ Signed(a) \in -Half..(Half - 1)
         /\ (Signed(a) = -Half) <=> (a = Half)
         /\ (Signed(a) = -1) <=> (a = WordSize - 1)
         /\ (Signed(a) = 0) <=> (a = 0)
BY Sizes DEF Signed, Negative

LEMMA UnsignedClosed ==
  ASSUME NEW i \in -Half..(Half - 1)
  PROVE  Unsigned(i) \in Word
BY Sizes DEF Unsigned

\* A division by a positive integer brings a number closer to zero, or to -1.
LEMMA DivideBounds ==
  ASSUME NEW i \in Int, NEW d \in Nat, d >= 1
  PROVE  /\ i \div d \in Int
         /\ i >= 0 => i \div d >= 0 /\ i \div d <= i
         /\ i < 0 => i \div d <= -1 /\ i \div d >= i
<1> DEFINE q == i \div d
<1>1. q \in Int /\ d * q <= i /\ i < d * q + d
  BY SMT
<1> HIDE DEF q
<1>2. ASSUME i >= 0 PROVE q >= 0 /\ q <= i
  BY <1>1, <1>2, SMT
<1>3. ASSUME i < 0 PROVE q <= -1 /\ q >= i
  BY <1>1, <1>3, SMT
<1> QED
  BY <1>1, <1>2, <1>3 DEF q

\* Adding or subtracting one, as INC and DEC do.
LEMMA OneStepClosed ==
  ASSUME NEW a \in Word
  PROVE  Plus(a, 1) \in Word /\ Minus(a, 1) \in Word
BY Sizes DEF Plus, Minus

\* The quotient of two words that do not overflow is a signed word.
LEMMA QuotientBounds ==
  ASSUME NEW a \in Word, NEW b \in Word, Divides(a, b)
  PROVE  Quotient(Signed(a), Signed(b)) \in -Half..(Half - 1)
<1> DEFINE i == Signed(a)
           j == Signed(b)
           m == Magnitude(i)
           d == Magnitude(j)
           q == m \div d
<1>1. /\ i \in -Half..(Half - 1) /\ j \in -Half..(Half - 1)
      /\ j # 0 /\ ~(i = -Half /\ j = -1)
  BY SignedBounds DEF Divides
<1> HIDE DEF i, j
<1>2. /\ m \in Nat /\ m <= Half /\ d \in Nat /\ d >= 1
      /\ m = Half => i = -Half
      /\ d = 1 => j = 1 \/ j = -1
  BY <1>1, Sizes DEF Magnitude
<1> HIDE DEF m, d
<1>3. q \in Int /\ q >= 0 /\ q <= m
  BY <1>2, DivideBounds
<1>4. q = Half => d = 1 /\ m = Half
  <2> SUFFICES ASSUME q = Half PROVE d = 1 /\ m = Half
    OBVIOUS
  <2>1. m = Half
    BY <1>2, <1>3, Sizes
  <2>2. d * q <= m
    BY <1>2, SMT
  <2>3. d * Half <= Half
    BY <2>1, <2>2
  <2>4. d = 1
    <3>1. ASSUME d >= 2 PROVE FALSE
      <4>1. d * Half >= 2 * Half
        BY <3>1, <1>2, Sizes, SMT
      <4>2. QED
        BY <4>1, <2>3, <1>2, Sizes, SMT
    <3>2. QED
      BY <3>1, <1>2
  <2>5. QED
    BY <2>1, <2>4
<1> HIDE DEF q
<1>5. Quotient(i, j) = IF (i < 0) = (j < 0) THEN q ELSE -q
  BY DEF Quotient, q, m, d
<1>6. CASE (i < 0) = (j < 0)
  <2>1. q # Half
    BY <1>1, <1>2, <1>4, <1>6, Sizes
  <2>2. Quotient(i, j) = q
    BY <1>5, <1>6
  <2>3. QED
    BY <2>1, <2>2, <1>2, <1>3, Sizes DEF i, j
<1>7. CASE (i < 0) # (j < 0)
  <2>1. Quotient(i, j) = -q
    BY <1>5, <1>7
  <2>2. QED
    BY <2>1, <1>2, <1>3, Sizes DEF i, j
<1> QED
  BY <1>6, <1>7

\* The remainder has the sign of the dividend and is no further from zero.
LEMMA RemainderBounds ==
  ASSUME NEW a \in Word, NEW b \in Word, Divides(a, b)
  PROVE  Remainder(Signed(a), Signed(b)) \in -Half..(Half - 1)
<1> DEFINE i == Signed(a)
           j == Signed(b)
           m == Magnitude(i)
           d == Magnitude(j)
           q == m \div d
<1>1. /\ i \in -Half..(Half - 1) /\ j \in -Half..(Half - 1) /\ j # 0
  BY SignedBounds DEF Divides
<1> HIDE DEF i, j
<1>2. /\ m \in Nat /\ d \in Nat /\ d >= 1
      /\ m = IF i < 0 THEN -i ELSE i
      /\ d = IF j < 0 THEN -j ELSE j
  BY <1>1, Sizes DEF Magnitude
<1> HIDE DEF m, d
<1>3. q \in Int /\ q >= 0
  BY <1>2, DivideBounds
<1>4. d * q <= m
  BY <1>2, SMT
<1> HIDE DEF q
<1>5. d * q \in Int /\ d * q >= 0
  BY <1>2, <1>3, SMT
<1>6. Quotient(i, j) = IF (i < 0) = (j < 0) THEN q ELSE -q
  BY DEF Quotient, q, m, d
<1>7. j * Quotient(i, j) = IF i < 0 THEN -(d * q) ELSE d * q
  <2>1. CASE i < 0 /\ j < 0
    <3>1. Quotient(i, j) = q /\ j = -d
      BY <1>1, <1>2, <1>6, <2>1
    <3>2. (-d) * q = -(d * q)
      BY <1>2, <1>3, SMT
    <3>3. QED
      BY <3>1, <3>2, <2>1
  <2>2. CASE i < 0 /\ ~(j < 0)
    <3>1. Quotient(i, j) = -q /\ j = d
      BY <1>1, <1>2, <1>6, <2>2
    <3>2. d * (-q) = -(d * q)
      BY <1>2, <1>3, SMT
    <3>3. QED
      BY <3>1, <3>2, <2>2
  <2>3. CASE ~(i < 0) /\ j < 0
    <3>1. Quotient(i, j) = -q /\ j = -d
      BY <1>1, <1>2, <1>6, <2>3
    <3>2. (-d) * (-q) = d * q
      BY <1>2, <1>3, SMT
    <3>3. QED
      BY <3>1, <3>2, <2>3
  <2>4. CASE ~(i < 0) /\ ~(j < 0)
    <3>1. Quotient(i, j) = q /\ j = d
      BY <1>1, <1>2, <1>6, <2>4
    <3>2. QED
      BY <3>1, <2>4
  <2>5. QED
    BY <2>1, <2>2, <2>3, <2>4
<1>8. Remainder(i, j) = IF i < 0 THEN i + d * q ELSE i - d * q
  BY <1>1, <1>5, <1>7 DEF Remainder
<1> DEFINE p == d * q
<1>9. p \in Int /\ p >= 0 /\ p <= m
  BY <1>4, <1>5
<1>10. Remainder(i, j) = IF i < 0 THEN i + p ELSE i - p
  BY <1>8
<1> HIDE DEF p
<1>11. Remainder(i, j) \in -Half..(Half - 1)
  BY <1>1, <1>2, <1>9, <1>10, Sizes
<1> QED
  BY <1>11 DEF i, j

-----------------------------------------------------------------------------
(***************************************************************************)
(* Types.                                                                  *)
(***************************************************************************)
\* What an instruction keeps when it writes a word or ends the run, and does
\* not touch the flags.
NeutralOutcome ==
  /\ r' \in [AluReg -> Word]
  /\ flags' = flags
  /\ fault' \in {"none", DivideByZero, DivideOverflow}

LEMMA NeutralWrite ==
  ASSUME AluTypeOK, NEW reg \in AluReg, NEW value \in Word,
         Write(reg, value), NoFlags
  PROVE  NeutralOutcome
BY DEF AluTypeOK, Write, NoFlags, NeutralOutcome

LEMMA NeutralHalt ==
  ASSUME AluTypeOK, NEW reason \in {DivideByZero, DivideOverflow}, Halt(reason)
  PROVE  NeutralOutcome
BY DEF AluTypeOK, Halt, NeutralOutcome

LEMMA NeutralDivision ==
  ASSUME AluTypeOK, NEW reg \in AluReg, NEW a \in Word, NEW b \in Word,
         DivideInto(reg, a, b) \/ RemainderInto(reg, a, b)
  PROVE  NeutralOutcome
<1>1. CASE \E reason \in {DivideByZero, DivideOverflow} : Halt(reason)
  BY <1>1, NeutralHalt
<1>2. CASE Divides(a, b)
  <2>1. /\ Unsigned(Quotient(Signed(a), Signed(b))) \in Word
        /\ Unsigned(Remainder(Signed(a), Signed(b))) \in Word
    BY <1>2, QuotientBounds, RemainderBounds, UnsignedClosed
  <2>2. CASE Write(reg, Unsigned(Quotient(Signed(a), Signed(b)))) /\ NoFlags
    BY <2>1, <2>2, NeutralWrite
  <2>3. CASE Write(reg, Unsigned(Remainder(Signed(a), Signed(b)))) /\ NoFlags
    BY <2>1, <2>3, NeutralWrite
  <2>4. QED
    BY <1>2, <2>2, <2>3 DEF DivideInto, RemainderInto, Divides
<1>3. CASE (Write(reg, Half) \/ Write(reg, 0)) /\ NoFlags
  <2>1. Half \in Word /\ 0 \in Word
    BY Sizes
  <2>2. QED
    BY <1>3, <2>1, NeutralWrite
<1>4. QED
  BY <1>1, <1>2, <1>3 DEF DivideInto, RemainderInto

\* A shift count names a power of two that is at least one.
LEMMA ShiftPower ==
  ASSUME NEW b \in Word
  PROVE  2^ShiftCount(b) \in Nat /\ 2^ShiftCount(b) >= 1
<1>1. ShiftCount(b) \in 0..(WordBits - 1)
  BY WordBitsAssumption, Sizes DEF ShiftCount
<1>2. 2^ShiftCount(b) \in Nat \ {0}
  BY <1>1, PowerAssumption
<1>3. QED
  BY <1>2

LEMMA TimesClosed ==
  ASSUME NEW a \in Word, NEW b \in Nat
  PROVE  Times(a, b) \in Word
<1> DEFINE p == a * b
<1>1. p \in Int
  BY Sizes
<1> HIDE DEF p
<1>2. p % WordSize \in Word
  BY <1>1, Sizes
<1>3. QED
  BY <1>2 DEF Times, p

\* The upper word of a product is a word.  Writing the factors as two half words
\* each, the four partial products add up to the product exactly.
LEMMA HighWordExact ==
  ASSUME NEW a \in Word, NEW b \in Word
  PROVE  /\ HighWord(a, b, HalfWord) = (a * b) \div WordSize
         /\ HighWord(a, b, HalfWord) \in Word
<1> DEFINE base == HalfWord
           ah == a \div base
           al == a % base
           bh == b \div base
           bl == b % base
           low == al * bl
           cross == ah * bl + low \div base
           crossLow == (cross % base) + al * bh
           l1 == low \div base
           l0 == low % base
           c1 == cross \div base
           c0 == cross % base
           d1 == crossLow \div base
           d0 == crossLow % base
           high == ah * bh + c1 + d1
<1>1. base \in Nat /\ base >= 1 /\ base * base = WordSize
  BY HalfWordAssumption DEF WordSize
<1>2. HighWord(a, b, HalfWord) = high
  BY DEF HighWord
<1>3. /\ ah \in Nat /\ al \in 0..(base - 1) /\ a = base * ah + al
      /\ bh \in Nat /\ bl \in 0..(base - 1) /\ b = base * bh + bl
  BY <1>1, Sizes, SMT
<1>4. low \in Nat
  BY <1>3, SMT
<1>5. l1 \in Nat /\ l0 \in 0..(base - 1) /\ low = base * l1 + l0
  BY <1>1, <1>4, SMT
<1>6. cross \in Nat /\ cross = ah * bl + l1
  BY <1>3, <1>5, SMT
<1>7. c1 \in Nat /\ c0 \in 0..(base - 1) /\ cross = base * c1 + c0
  BY <1>1, <1>6, SMT
<1>8. crossLow \in Nat /\ crossLow = c0 + al * bh
  BY <1>3, <1>7, SMT
<1>9. d1 \in Nat /\ d0 \in 0..(base - 1) /\ crossLow = base * d1 + d0
  BY <1>1, <1>8, SMT
<1> HIDE DEF base, ah, al, bh, bl, l1, l0, c1, c0, d1, d0, crossLow, cross
<1>10. a * b = (base * base) * (ah * bh) + base * (ah * bl) + base * (al * bh) + al * bl
  BY <1>1, <1>3, SMT
<1>11. base * (ah * bl) + base * l1 = (base * base) * c1 + base * c0
  BY <1>1, <1>3, <1>5, <1>6, <1>7, SMT
<1>12. base * c0 + base * (al * bh) = (base * base) * d1 + base * d0
  BY <1>1, <1>3, <1>7, <1>8, <1>9, SMT
<1>13. ah * bh \in Nat
  BY <1>3, SMT
<1> DEFINE rest == base * d0 + l0
<1>14. a * b = WordSize * high + rest
  <2> DEFINE hh == ah * bh
             w1 == (base * base) * hh
             w2 == (base * base) * c1
             w3 == (base * base) * d1
             x == base * (ah * bl)
             y == base * (al * bh)
             z == base * c0
             u == base * d0
             v == base * l1
  <2>1. a * b = w1 + x + y + low
    BY <1>10
  <2>2. x + v = w2 + z /\ z + y = w3 + u /\ low = v + l0
    BY <1>5, <1>11, <1>12
  <2>3. /\ w1 \in Int /\ w2 \in Int /\ w3 \in Int /\ x \in Int /\ y \in Int
        /\ z \in Int /\ u \in Int /\ v \in Int /\ l0 \in Int
    BY <1>1, <1>3, <1>5, <1>7, <1>9, <1>13, SMT
  <2>4. WordSize * high = w1 + w2 + w3
    BY <1>1, <1>7, <1>9, <1>13, SMT
  <2> HIDE DEF w1, w2, w3, x, y, z, u, v, high, low
  <2>5. a * b = WordSize * high + u + l0
    BY <2>1, <2>2, <2>3, <2>4
  <2>6. QED
    BY <2>5, <2>3, <2>4 DEF u
<1>15. rest \in 0..(WordSize - 1)
  <2>1. base * d0 <= base * (base - 1)
    BY <1>1, <1>9, SMT
  <2>2. base * d0 \in Nat
    BY <1>1, <1>9, SMT
  <2>3. base * (base - 1) = WordSize - base
    BY <1>1, SMT
  <2>4. QED
    BY <2>1, <2>2, <2>3, <1>1, <1>5, Sizes
<1>16. high \in Nat
  BY <1>7, <1>9, <1>13
<1> HIDE DEF high, rest
<1>17. (a * b) \div WordSize = high
  BY <1>14, <1>15, <1>16, Sizes, SMT
<1>18. high \in Word
  <2>1. a * b \in Nat /\ a * b <= WordSize * (WordSize - 1)
    BY Sizes, SMT
  <2>2. WordSize * high <= WordSize * (WordSize - 1)
    BY <2>1, <1>14, <1>15, <1>16, Sizes, SMT
  <2>3. high <= WordSize - 1
    <3>1. ASSUME high >= WordSize PROVE FALSE
      <4>1. WordSize * high >= WordSize * WordSize
        BY <3>1, <1>16, Sizes, SMT
      <4>2. WordSize * WordSize > WordSize * (WordSize - 1)
        BY Sizes, SMT
      <4>3. QED
        BY <4>1, <4>2, <2>2, <1>16, Sizes
    <3>2. QED
      BY <3>1, <1>16, Sizes
  <2>4. QED
    BY <2>3, <1>16, Sizes
<1> QED
  BY <1>2, <1>17, <1>18

\* Every instruction of the code that does not write the flags.
LEMMA NeutralRegisterTypes ==
  ASSUME AluTypeOK, NEW reg \in AluReg, NEW rm \in AluReg,
         FlagNeutral(reg, rm) \/ CountByOne(reg) \/ Shift(reg, rm)
  PROVE  NeutralOutcome
<1>1. r[reg] \in Word /\ r[rm] \in Word
  BY DEF AluTypeOK
<1>2. 0 \in Word /\ 1 \in Word /\ Word \subseteq Nat
  BY Sizes
<1>3. CASE Mov(reg, rm)
  BY <1>1, <1>3, NeutralWrite DEF Mov
<1>4. CASE Mul(reg, rm)
  <2>1. Times(r[reg], r[rm]) \in Word
    BY <1>1, <1>2, TimesClosed
  <2>2. QED
    BY <2>1, <1>4, NeutralWrite DEF Mul
<1>5. CASE MulHigh(reg, rm)
  <2>1. HighWord(r[reg], r[rm], HalfWord) \in Word
    BY <1>1, HighWordExact
  <2>2. QED
    BY <2>1, <1>5, NeutralWrite DEF MulHigh
<1>6. CASE Div(reg, rm)
  BY <1>1, <1>6, NeutralDivision DEF Div
<1>7. CASE Mod(reg, rm)
  BY <1>1, <1>7, NeutralDivision DEF Mod
<1>8. CASE UDiv(reg, rm)
  <2>1. CASE r[rm] = 0 /\ Halt(DivideByZero)
    BY <2>1, NeutralHalt
  <2>2. CASE r[rm] # 0 /\ Write(reg, r[reg] \div r[rm]) /\ NoFlags
    <3> DEFINE q == r[reg] \div r[rm]
    <3>1. r[reg] \in Int /\ r[rm] \in Nat /\ r[rm] >= 1 /\ r[reg] >= 0
      BY <1>1, <2>2, Sizes
    <3>2. q \in Int /\ q >= 0 /\ q <= r[reg]
      BY <3>1, DivideBounds
    <3>3. q \in Word
      BY <3>2, <1>1, Sizes
    <3>4. QED
      BY <2>2, <3>3, NeutralWrite
  <2>3. QED
    BY <1>8, <2>1, <2>2 DEF UDiv
<1>9. CASE Neg(reg)
  BY <1>1, <1>2, <1>9, WrapClosed, NeutralWrite DEF Neg
<1>10. CASE Inc(reg)
  BY <1>1, <1>10, OneStepClosed, NeutralWrite DEF Inc
<1>11. CASE Dec(reg)
  BY <1>1, <1>11, OneStepClosed, NeutralWrite DEF Dec
<1>12. CASE Shl(reg, rm)
  <2>1. Times(r[reg], 2^ShiftCount(r[rm])) \in Word
    BY <1>1, ShiftPower, TimesClosed
  <2>2. QED
    BY <2>1, <1>12, NeutralWrite DEF Shl
<1>13. CASE Shr(reg, rm)
  <2> DEFINE d == 2^ShiftCount(r[rm])
             q == r[reg] \div d
  <2>1. d \in Nat /\ d >= 1
    BY <1>1, ShiftPower
  <2> HIDE DEF d
  <2>2. q \in Int /\ q >= 0 /\ q <= r[reg]
    <3>1. PICK i \in Int : i = r[reg] /\ i >= 0
      BY <1>1, Sizes
    <3>2. i \div d \in Int /\ i \div d >= 0 /\ i \div d <= i
      BY <2>1, <3>1, DivideBounds
    <3>3. QED
      BY <3>1, <3>2
  <2>3. q \in Word
    BY <2>2, <1>1, Sizes
  <2>4. Write(reg, q) /\ NoFlags
    BY <1>13 DEF Shr, d
  <2>5. QED
    BY <2>3, <2>4, NeutralWrite
<1>14. CASE Sar(reg, rm)
  <2> DEFINE d == 2^ShiftCount(r[rm])
             i == Signed(r[reg])
             q == i \div d
  <2>1. d \in Nat /\ d >= 1
    BY <1>1, ShiftPower
  <2>2. i \in -Half..(Half - 1)
    BY <1>1, SignedBounds
  <2>3. Write(reg, Unsigned(q)) /\ NoFlags
    BY <1>14 DEF Sar
  <2> HIDE DEF d, i
  <2>4. q \in Int /\ (i >= 0 => q >= 0 /\ q <= i) /\ (i < 0 => q <= -1 /\ q >= i)
    BY <2>1, <2>2, DivideBounds, Sizes
  <2>5. q \in -Half..(Half - 1)
    BY <2>2, <2>4, Sizes
  <2>6. Unsigned(q) \in Word
    BY <2>5, UnsignedClosed
  <2>7. QED
    BY <2>3, <2>6, NeutralWrite
<1>15. CASE SetLess(reg, rm)
  <2>1. (IF Signed(r[reg]) < Signed(r[rm]) THEN 1 ELSE 0) \in Word
    BY <1>2
  <2>2. QED
    BY <2>1, <1>15, NeutralWrite DEF SetLess
<1> QED
  BY <1>3, <1>4, <1>5, <1>6, <1>7, <1>8, <1>9, <1>10, <1>11, <1>12, <1>13,
     <1>14, <1>15 DEF FlagNeutral, CountByOne, Shift

LEMMA NeutralImmediateTypes ==
  ASSUME AluTypeOK, NEW rm \in AluReg, NEW imm \in Immediate,
         FlagNeutralImmediate(rm, imm)
  PROVE  NeutralOutcome
<1>1. r[rm] \in Word /\ imm \in Word /\ imm \in Nat
  BY ImmediateAssumption, Sizes DEF AluTypeOK
<1>2. CASE MovImmediate(rm, imm)
  BY <1>1, <1>2, NeutralWrite DEF MovImmediate
<1>3. CASE MulImmediate(rm, imm)
  <2>1. Times(r[rm], imm) \in Word
    BY <1>1, TimesClosed
  <2>2. QED
    BY <2>1, <1>3, NeutralWrite DEF MulImmediate
<1>4. CASE DivImmediate(rm, imm)
  BY <1>1, <1>4, NeutralDivision DEF DivImmediate
<1>5. CASE ModImmediate(rm, imm)
  BY <1>1, <1>5, NeutralDivision DEF ModImmediate
<1> QED
  BY <1>2, <1>3, <1>4, <1>5 DEF FlagNeutralImmediate

-----------------------------------------------------------------------------
(***************************************************************************)
(* Flags are Booleans, whatever wrote them.                                *)
(***************************************************************************)
LEMMA FlagsTypes ==
  ASSUME NEW a \in Word, NEW b \in Word, NEW p \in Word, NEW c \in Word,
         NEW result \in Word
  PROVE  /\ FlagsAdd(a, b, result) \in Flags
         /\ FlagsSub(a, b, result) \in Flags
         /\ FlagsLogic(result) \in Flags
         /\ FlagsAdc(a, b, p, result) \in Flags
         /\ FlagsSbb(a, b, p, c, result) \in Flags
<1>1. \A x \in BOOLEAN, y \in BOOLEAN, z \in BOOLEAN, w \in BOOLEAN :
        [cf |-> x, zf |-> y, sf |-> z, of |-> w] \in Flags
  BY DEF Flags
<1>2. FlagsAdd(a, b, result) \in Flags
  <2>1. /\ (result < a) \in BOOLEAN
        /\ (result = 0) \in BOOLEAN
        /\ Negative(result) \in BOOLEAN
        /\ (Negative(a) = Negative(b) /\ Negative(a) # Negative(result)) \in BOOLEAN
    BY DEF Negative
  <2>2. QED
    BY <1>1, <2>1, Zenon DEF FlagsAdd
<1>3. FlagsSub(a, b, result) \in Flags
  <2>1. /\ (a < b) \in BOOLEAN
        /\ (result = 0) \in BOOLEAN
        /\ Negative(result) \in BOOLEAN
        /\ (Negative(a) # Negative(b) /\ Negative(a) # Negative(result)) \in BOOLEAN
    BY DEF Negative
  <2>2. QED
    BY <1>1, <2>1, Zenon DEF FlagsSub
<1>4. FlagsLogic(result) \in Flags
  <2>1. /\ (result = 0) \in BOOLEAN
        /\ Negative(result) \in BOOLEAN
        /\ FALSE \in BOOLEAN
    BY DEF Negative
  <2>2. QED
    BY <1>1, <2>1, Zenon DEF FlagsLogic
<1>5. \A f \in Flags, x \in BOOLEAN : [f EXCEPT !.cf = x] \in Flags
  BY DEF Flags
<1>6. FlagsAdc(a, b, p, result) \in Flags
  BY <1>2, <1>5 DEF FlagsAdc
<1>7. FlagsSbb(a, b, p, c, result) \in Flags
  BY <1>3, <1>5 DEF FlagsSbb
<1>8. QED
  BY <1>2, <1>3, <1>4, <1>6, <1>7

\* What an instruction that writes a word and all four flags leaves behind.
LEMMA FlaggedWrite ==
  ASSUME AluTypeOK, NEW reg \in AluReg, NEW value \in Word, NEW f \in Flags,
         Write(reg, value), SetFlags(f)
  PROVE  AluTypeOK'
BY DEF AluTypeOK, Write, SetFlags

LEMMA AddTypes ==
  ASSUME AluTypeOK, NEW reg \in AluReg, NEW a \in Word, NEW b \in Word,
         AddTo(reg, a, b) \/ SubtractFrom(reg, a, b)
  PROVE  AluTypeOK'
<1>1. Plus(a, b) \in Word /\ Minus(a, b) \in Word
  BY WrapClosed
<1>2. FlagsAdd(a, b, Plus(a, b)) \in Flags /\ FlagsSub(a, b, Minus(a, b)) \in Flags
  BY <1>1, FlagsTypes
<1>3. QED
  BY <1>1, <1>2, FlaggedWrite DEF AddTo, SubtractFrom

LEMMA CompareTypes ==
  ASSUME AluTypeOK, NEW reg \in AluReg, NEW rm \in AluReg, Compare(reg, rm)
  PROVE  AluTypeOK'
<1>1. r[reg] \in Word /\ r[rm] \in Word
  BY DEF AluTypeOK
<1>2. FlagsSub(r[reg], r[rm], Minus(r[reg], r[rm])) \in Flags
  BY <1>1, WrapClosed, FlagsTypes
<1>3. QED
  BY <1>2 DEF Compare, SetFlags, AluTypeOK

LEMMA CarryTypes ==
  ASSUME AluTypeOK, NEW reg \in AluReg, NEW rm \in AluReg,
         Adc(reg, rm) \/ Sbb(reg, rm)
  PROVE  AluTypeOK'
<1> DEFINE carry == IF flags.cf THEN 1 ELSE 0
           sum == Plus(r[reg], r[rm])
           difference == Minus(r[reg], r[rm])
<1>1. r[reg] \in Word /\ r[rm] \in Word /\ carry \in Word
  BY Sizes DEF AluTypeOK
<1>2. sum \in Word /\ difference \in Word
  BY <1>1, WrapClosed
<1>3. Plus(sum, carry) \in Word /\ Minus(difference, carry) \in Word
  BY <1>1, <1>2, WrapClosed
<1>4. /\ FlagsAdc(r[reg], r[rm], sum, Plus(sum, carry)) \in Flags
      /\ FlagsSbb(r[reg], r[rm], difference, carry, Minus(difference, carry)) \in Flags
  BY <1>1, <1>2, <1>3, FlagsTypes
<1>5. CASE Adc(reg, rm)
  BY <1>3, <1>4, <1>5, FlaggedWrite DEF Adc
<1>6. CASE Sbb(reg, rm)
  BY <1>3, <1>4, <1>6, FlaggedWrite DEF Sbb
<1>7. QED
  BY <1>5, <1>6

LEMMA LogicTypes ==
  ASSUME AluTypeOK, NEW reg \in AluReg, NEW rm \in AluReg, BitwiseLogic(reg, rm)
  PROVE  AluTypeOK'
<1> DEFINE x == Bits(r[reg])
           y == Bits(r[rm])
<1>1. x \subseteq 0..(WordBits - 1) /\ y \subseteq 0..(WordBits - 1)
  BY DEF Bits
<1> HIDE DEF x, y
<1>2. /\ FromBits(x \cap y) \in Word
      /\ FromBits(x \cup y) \in Word
      /\ FromBits(SymDiff(x, y)) \in Word
  <2>1. /\ x \cap y \in SUBSET (0..(WordBits - 1))
        /\ x \cup y \in SUBSET (0..(WordBits - 1))
        /\ SymDiff(x, y) \in SUBSET (0..(WordBits - 1))
    BY <1>1 DEF SymDiff
  <2>2. QED
    BY <2>1, PowerAssumption
<1>3. ASSUME NEW value \in Word, Logic(reg, value) PROVE AluTypeOK'
  BY <1>3, FlagsTypes, FlaggedWrite DEF Logic
<1>4. QED
  BY <1>2, <1>3 DEF BitwiseLogic, And, Or, Xor, x, y

-----------------------------------------------------------------------------
(***************************************************************************)
(* The inductive invariant.                                                *)
(***************************************************************************)
FlagsOfLast ==
  /\ last.kind = "add" => flags = FlagsAdd(last.a, last.b, Plus(last.a, last.b))
  /\ last.kind = "sub" => flags = FlagsSub(last.a, last.b, Minus(last.a, last.b))

FlagsInv == ProgTypeOK /\ FlagsOfLast

LEMMA FlagsInvInit == ProgInit => FlagsInv
BY Sizes DEF ProgInit, FlagsInv, FlagsOfLast, ProgTypeOK, AluTypeOK, Flags, Forgotten

\* A step that leaves flags and history alone.
LEMMA NeutralKeepsInv ==
  ASSUME FlagsInv, NeutralOutcome, UNCHANGED last
  PROVE  FlagsInv'
BY DEF FlagsInv, FlagsOfLast, ProgTypeOK, AluTypeOK, NeutralOutcome

\* A step that leaves the flags alone, of which the ISA keeps the carry alone.
LEMMA CarryKeepsInv ==
  ASSUME FlagsInv, NeutralOutcome, KeepCarry
  PROVE  FlagsInv'
<1>1. last \in [kind : {"none", "add", "sub"}, a : Word, b : Word, whole : BOOLEAN]
  BY DEF FlagsInv, ProgTypeOK
<1>2. /\ last'.kind = last.kind /\ last'.a = last.a /\ last'.b = last.b
      /\ last' \in [kind : {"none", "add", "sub"}, a : Word, b : Word, whole : BOOLEAN]
  BY <1>1 DEF KeepCarry
<1>3. AluTypeOK'
  BY DEF FlagsInv, ProgTypeOK, AluTypeOK, NeutralOutcome
<1>4. FlagsOfLast'
  BY <1>2 DEF FlagsInv, FlagsOfLast, NeutralOutcome
<1>5. QED
  BY <1>2, <1>3, <1>4 DEF FlagsInv, ProgTypeOK

\* A step that writes the flags and remembers it.
LEMMA RememberKeepsInv ==
  ASSUME AluTypeOK', NEW a \in Word, NEW b \in Word,
         \/ Remember("add", a, b) /\ flags' = FlagsAdd(a, b, Plus(a, b))
         \/ Remember("sub", a, b) /\ flags' = FlagsSub(a, b, Minus(a, b))
  PROVE  FlagsInv'
<1>1. CASE Remember("add", a, b) /\ flags' = FlagsAdd(a, b, Plus(a, b))
  <2>1. last' = [kind |-> "add", a |-> a, b |-> b, whole |-> TRUE]
    BY <1>1 DEF Remember
  <2>2. last'.kind = "add" /\ last'.a = a /\ last'.b = b
    BY <2>1
  <2>3. FlagsOfLast'
    BY <1>1, <2>2 DEF FlagsOfLast
  <2>4. QED
    BY <2>1, <2>3 DEF FlagsInv, ProgTypeOK
<1>2. CASE Remember("sub", a, b) /\ flags' = FlagsSub(a, b, Minus(a, b))
  <2>1. last' = [kind |-> "sub", a |-> a, b |-> b, whole |-> TRUE]
    BY <1>2 DEF Remember
  <2>2. last'.kind = "sub" /\ last'.a = a /\ last'.b = b
    BY <2>1
  <2>3. FlagsOfLast'
    BY <1>2, <2>2 DEF FlagsOfLast
  <2>4. QED
    BY <2>1, <2>3 DEF FlagsInv, ProgTypeOK
<1>3. QED
  BY <1>1, <1>2

LEMMA ForgetKeepsInv ==
  ASSUME AluTypeOK', Forget
  PROVE  FlagsInv'
BY Sizes DEF FlagsInv, FlagsOfLast, ProgTypeOK, Forget, Forgotten

LEMMA FlagsInvNext ==
  ASSUME FlagsInv, [ProgNext]_progVars
  PROVE  FlagsInv'
<1>1. AluTypeOK
  BY DEF FlagsInv, ProgTypeOK
<1>2. \A reg \in AluReg : r[reg] \in Word
  BY <1>1 DEF AluTypeOK
<1>3. ASSUME NEW reg \in AluReg, NEW rm \in AluReg,
             FlagNeutral(reg, rm) /\ UNCHANGED last
      PROVE  FlagsInv'
  BY <1>1, <1>3, NeutralRegisterTypes, NeutralKeepsInv
<1>4. ASSUME NEW rm \in AluReg, NEW imm \in Immediate,
             FlagNeutralImmediate(rm, imm) /\ UNCHANGED last
      PROVE  FlagsInv'
  BY <1>1, <1>4, NeutralImmediateTypes, NeutralKeepsInv
<1>5. ASSUME NEW reg \in AluReg, NEW a \in Word, NEW b \in Word,
             \/ AddTo(reg, a, b) /\ Remember("add", a, b)
             \/ SubtractFrom(reg, a, b) /\ Remember("sub", a, b)
      PROVE  FlagsInv'
  <2>1. AluTypeOK'
    BY <1>1, <1>5, AddTypes
  <2>2. \/ Remember("add", a, b) /\ flags' = FlagsAdd(a, b, Plus(a, b))
        \/ Remember("sub", a, b) /\ flags' = FlagsSub(a, b, Minus(a, b))
    BY <1>5 DEF AddTo, SubtractFrom, SetFlags
  <2>3. QED
    BY <2>1, <2>2, RememberKeepsInv
<1>6. ASSUME NEW reg \in AluReg, NEW rm \in AluReg,
             Compare(reg, rm) /\ Remember("sub", r[reg], r[rm])
      PROVE  FlagsInv'
  <2>1. AluTypeOK'
    BY <1>1, <1>6, CompareTypes
  <2>2. PICK a \in Word, b \in Word : a = r[reg] /\ b = r[rm]
    BY <1>2
  <2>3. Remember("sub", a, b) /\ flags' = FlagsSub(a, b, Minus(a, b))
    BY <1>6, <2>2 DEF Compare, SetFlags
  <2>4. QED
    BY <2>1, <2>3, RememberKeepsInv
<1>7. ASSUME NEW reg \in AluReg, NEW rm \in AluReg,
             (Adc(reg, rm) \/ Sbb(reg, rm) \/ BitwiseLogic(reg, rm)) /\ Forget
      PROVE  FlagsInv'
  BY <1>1, <1>7, CarryTypes, LogicTypes, ForgetKeepsInv
<1>13. ASSUME NEW reg \in AluReg, NEW rm \in AluReg, Shift(reg, rm) /\ Forget
       PROVE  FlagsInv'
  <2>1. NeutralOutcome
    BY <1>1, <1>13, NeutralRegisterTypes
  <2>2. AluTypeOK'
    BY <1>1, <2>1 DEF AluTypeOK, NeutralOutcome
  <2>3. QED
    BY <1>13, <2>2, ForgetKeepsInv
<1>14. ASSUME NEW reg \in AluReg, NEW rm \in AluReg, CountByOne(reg) /\ KeepCarry
       PROVE  FlagsInv'
  BY <1>1, <1>14, NeutralRegisterTypes, CarryKeepsInv
<1>8. ASSUME NEW reg \in AluReg, NEW rm \in AluReg,
             \/ Add(reg, rm) /\ Remember("add", r[reg], r[rm])
             \/ Sub(reg, rm) /\ Remember("sub", r[reg], r[rm])
      PROVE  FlagsInv'
  BY <1>2, <1>5, <1>8 DEF Add, Sub
<1>9. ASSUME NEW rm \in AluReg, NEW imm \in Immediate,
             \/ AddImmediate(rm, imm) /\ Remember("add", r[rm], imm)
             \/ SubImmediate(rm, imm) /\ Remember("sub", r[rm], imm)
      PROVE  FlagsInv'
  <2>1. imm \in Word
    BY ImmediateAssumption DEF Word, WordSize
  <2>2. QED
    BY <1>2, <1>5, <1>9, <2>1 DEF AddImmediate, SubImmediate
<1>10. CASE UNCHANGED progVars
  BY <1>10 DEF progVars, FlagsInv, FlagsOfLast, ProgTypeOK, AluTypeOK
<1>11. CASE ProgNext
  BY <1>11, <1>3, <1>4, <1>6, <1>7, <1>8, <1>9, <1>13, <1>14
     DEF ProgNext, ProgStep
<1>12. QED
  BY <1>10, <1>11

LEMMA FlagsInvariant == ProgSpec => []FlagsInv
<1>1. FlagsInv /\ [ProgNext]_progVars => FlagsInv'
  BY FlagsInvNext
<1>2. QED
  BY FlagsInvInit, <1>1, PTL DEF ProgSpec

\* Every reachable state is well typed, for every word size and every program.
THEOREM ProgTypeCorrect == ProgSpec => []ProgTypeOK
<1>1. FlagsInv => ProgTypeOK
  BY DEF FlagsInv
<1>2. QED
  BY FlagsInvariant, <1>1, PTL

-----------------------------------------------------------------------------
(***************************************************************************)
(* Comparisons.                                                            *)
(***************************************************************************)
\* The borrow and the sign and overflow of a difference, as orders of its
\* operands.
LEMMA ComparisonFlags ==
  ASSUME NEW a \in Word, NEW b \in Word
  PROVE  LET f == FlagsSub(a, b, Minus(a, b))
         IN  /\ f.zf <=> a = b
             /\ f.cf <=> a < b
             /\ (f.sf = f.of) <=> (Signed(a) >= Signed(b))
<1> DEFINE d == Minus(a, b)
<1>1. d = 0 <=> a = b
  BY Sizes DEF Minus
<1>2. (Negative(d) <=> (Negative(a) # Negative(b) /\ Negative(a) # Negative(d)))
        <=> (Signed(a) >= Signed(b))
  BY Sizes DEF Minus, Signed, Negative
<1> HIDE DEF d
<1>3. /\ FlagsSub(a, b, d).zf <=> d = 0
      /\ FlagsSub(a, b, d).cf <=> a < b
      /\ FlagsSub(a, b, d).sf <=> Negative(d)
      /\ FlagsSub(a, b, d).of <=> (Negative(a) # Negative(b) /\ Negative(a) # Negative(d))
  BY DEF FlagsSub
<1>4. FlagsSub(a, b, d).sf \in BOOLEAN /\ FlagsSub(a, b, d).of \in BOOLEAN
  BY DEF FlagsSub, Negative
<1>5. (FlagsSub(a, b, d).sf = FlagsSub(a, b, d).of) <=> (Signed(a) >= Signed(b))
  BY <1>2, <1>3, <1>4
<1>6. QED
  BY <1>1, <1>3, <1>5 DEF d

\* Each conditional jump after a comparison decides its relation, for every word
\* size: flags_sub and the conditions of run_function agree.
THEOREM JumpsCorrect == ProgSpec => []JumpsDecideComparison
<1>1. ASSUME FlagsInv PROVE JumpsDecideComparison
  <2> SUFFICES ASSUME last.kind = "sub", NEW condition \in Condition
               PROVE  Taken(condition, flags) <=> Relation(condition, last.a, last.b)
    BY DEF JumpsDecideComparison, CarryCondition, Condition
  <2>1. PICK a \in Word, b \in Word : a = last.a /\ b = last.b
    BY <1>1 DEF FlagsInv, ProgTypeOK
  <2>2. PICK f : f = flags /\ f = FlagsSub(a, b, Minus(a, b))
    BY <1>1, <2>1 DEF FlagsInv, FlagsOfLast
  <2>3. /\ f.zf <=> a = b
        /\ f.cf <=> a < b
        /\ (f.sf = f.of) <=> (Signed(a) >= Signed(b))
    BY <2>2, ComparisonFlags
  <2>4. /\ (a = b) <=> (Signed(a) = Signed(b))
        /\ (a >= b) <=> ~(a < b)
        /\ Signed(a) \in Int /\ Signed(b) \in Int
    BY Sizes DEF Signed, Negative
  <2>5. Taken(condition, f) <=> Relation(condition, a, b)
    <3>1. CASE condition = "JZ"
      BY <3>1, <2>3 DEF Taken, Relation
    <3>2. CASE condition = "JNZ"
      BY <3>2, <2>3 DEF Taken, Relation
    <3>3. CASE condition = "JG"
      <4>1. Taken(condition, f) <=> (~f.zf /\ f.sf = f.of)
        BY <3>3 DEF Taken
      <4>2. Relation(condition, a, b) <=> Signed(a) > Signed(b)
        BY <3>3 DEF Relation
      <4>3. Signed(a) > Signed(b) <=> (a # b /\ Signed(a) >= Signed(b))
        BY <2>4
      <4>4. QED
        BY <4>1, <4>2, <4>3, <2>3
    <3>4. CASE condition = "JGE"
      BY <3>4, <2>3 DEF Taken, Relation
    <3>5. CASE condition = "JL"
      <4>1. Taken(condition, f) <=> f.sf # f.of
        BY <3>5 DEF Taken
      <4>2. Relation(condition, a, b) <=> Signed(a) < Signed(b)
        BY <3>5 DEF Relation
      <4>3. Signed(a) < Signed(b) <=> ~(Signed(a) >= Signed(b))
        BY <2>4
      <4>4. QED
        BY <4>1, <4>2, <4>3, <2>3
    <3>6. CASE condition = "JLE"
      <4>1. Taken(condition, f) <=> (f.zf \/ f.sf # f.of)
        BY <3>6 DEF Taken
      <4>2. Relation(condition, a, b) <=> Signed(a) <= Signed(b)
        BY <3>6 DEF Relation
      <4>3. Signed(a) <= Signed(b) <=> (a = b \/ ~(Signed(a) >= Signed(b)))
        BY <2>4
      <4>4. QED
        BY <4>1, <4>2, <4>3, <2>3
    <3>7. CASE condition = "JC"
      BY <3>7, <2>3 DEF Taken, Relation
    <3>8. CASE condition = "JNC"
      <4>1. Taken(condition, f) <=> ~f.cf
        BY <3>8 DEF Taken
      <4>2. Relation(condition, a, b) <=> a >= b
        BY <3>8 DEF Relation
      <4>3. QED
        BY <4>1, <4>2, <2>3, <2>4
    <3>9. QED
      BY <3>1, <3>2, <3>3, <3>4, <3>5, <3>6, <3>7, <3>8 DEF Condition
  <2>6. QED
    BY <2>1, <2>2, <2>5
<1>2. QED
  BY FlagsInvariant, <1>1, PTL

-----------------------------------------------------------------------------
(***************************************************************************)
(* Two-word arithmetic.                                                    *)
(***************************************************************************)
\* Multiplication by the word size can be cancelled and distributed; the two
\* facts about products that the linear arithmetic below needs.
LEMMA WordSizeCancels ==
  ASSUME NEW x \in Int, NEW y \in Int
  PROVE  /\ x * WordSize \in Int
         /\ (x + y) * WordSize = x * WordSize + y * WordSize
         /\ (x - y) * WordSize = x * WordSize - y * WordSize
         /\ (x = y) <=> (x * WordSize = y * WordSize)
         /\ x >= y + 1 => x * WordSize >= y * WordSize + WordSize
<1>1. WordSize \in Nat /\ WordSize >= 1
  BY Sizes
<1>2. /\ x * WordSize \in Int /\ y * WordSize \in Int
      /\ (x + y) * WordSize = x * WordSize + y * WordSize
      /\ (x - y) * WordSize = x * WordSize - y * WordSize
  BY <1>1, SMT
<1>3. ASSUME NEW u \in Int, NEW v \in Int, u >= v + 1
      PROVE  u * WordSize >= v * WordSize + WordSize
  <2>1. (u - v - 1) * WordSize >= 0
    BY <1>1, <1>3, SMT
  <2>2. (u - v - 1) * WordSize = u * WordSize - v * WordSize - WordSize
    BY <1>1, SMT
  <2>3. u * WordSize \in Int /\ v * WordSize \in Int
    BY <1>1, SMT
  <2>4. QED
    BY <2>1, <2>2, <2>3, <1>1
<1>4. x # y => x * WordSize # y * WordSize
  <2>1. CASE x >= y + 1
    BY <1>1, <1>2, <1>3, <2>1
  <2>2. CASE y >= x + 1
    BY <1>1, <1>2, <1>3, <2>2
  <2>3. QED
    BY <2>1, <2>2
<1>5. QED
  BY <1>2, <1>3, <1>4

\* One word of an addition with a carry in: the carry out and the overflow
\* measure exactly what the word lost.
LEMMA CarryWord ==
  ASSUME NEW h \in Word, NEW g \in Word, NEW c \in {0, 1},
         NEW p, p = Plus(h, g), NEW q, q = Plus(p, c)
  PROVE  /\ p \in Word /\ q \in Word
         /\ q = h + g + c - (IF FlagsAdc(h, g, p, q).cf THEN WordSize ELSE 0)
         /\ FlagsAdc(h, g, p, q).of <=> (Signed(q) # Signed(h) + Signed(g) + c)
         /\ FlagsAdc(h, g, p, q).sf <=> Negative(q)
<1>1. p \in Word /\ q \in Word
  BY Sizes DEF Plus
<1>2. q = h + g + c - (IF p < h \/ q < p THEN WordSize ELSE 0)
  BY Sizes DEF Plus
<1>3. (Negative(h) = Negative(g) /\ Negative(h) # Negative(q))
        <=> (Signed(q) # Signed(h) + Signed(g) + c)
  BY Sizes DEF Plus, Signed, Negative
<1>4. /\ FlagsAdc(h, g, p, q).cf <=> (p < h \/ q < p)
      /\ FlagsAdc(h, g, p, q).of <=> (Negative(h) = Negative(g) /\ Negative(h) # Negative(q))
      /\ FlagsAdc(h, g, p, q).sf <=> Negative(q)
  BY DEF FlagsAdc, FlagsAdd
<1>5. q = h + g + c - (IF FlagsAdc(h, g, p, q).cf THEN WordSize ELSE 0)
  BY <1>2, <1>4
<1>6. QED
  BY <1>1, <1>3, <1>4, <1>5

BorrowResult(h, g, c, q, f) ==
  /\ q \in Word
  /\ q = h - g - c + (IF h < g + c THEN WordSize ELSE 0)
  /\ f.cf <=> h < g + c
  /\ (f.sf # f.of) <=> (Signed(h) < Signed(g) + c)

LEMMA BorrowWord ==
  ASSUME NEW h \in Word, NEW g \in Word, NEW c \in {0, 1},
         NEW p, p = Minus(h, g), NEW q, q = Minus(p, c)
  PROVE  BorrowResult(h, g, c, q, FlagsSbb(h, g, p, c, q))
<1>1. p \in Word /\ q \in Word
  BY Sizes DEF Minus
<1>2. q = h - g - c + (IF h < g + c THEN WordSize ELSE 0)
  BY Sizes DEF Minus
<1>3. (h < g \/ p < c) <=> h < g + c
  BY Sizes DEF Minus
<1>4. (Negative(q) # (Negative(h) # Negative(g) /\ Negative(h) # Negative(q)))
        <=> (Signed(h) < Signed(g) + c)
  BY Sizes DEF Minus, Signed, Negative
<1>5. /\ FlagsSbb(h, g, p, c, q).cf <=> (h < g \/ p < c)
      /\ FlagsSbb(h, g, p, c, q).of <=> (Negative(h) # Negative(g) /\ Negative(h) # Negative(q))
      /\ FlagsSbb(h, g, p, c, q).sf <=> Negative(q)
  BY DEF FlagsSbb, FlagsSub
<1>6. FlagsSbb(h, g, p, c, q).of \in BOOLEAN /\ FlagsSbb(h, g, p, c, q).sf \in BOOLEAN
  BY DEF FlagsSbb, FlagsSub, Negative
<1>7. (FlagsSbb(h, g, p, c, q).sf # FlagsSbb(h, g, p, c, q).of)
        <=> (Signed(h) < Signed(g) + c)
  <2>1. PICK s \in BOOLEAN, o \in BOOLEAN :
          s = FlagsSbb(h, g, p, c, q).sf /\ o = FlagsSbb(h, g, p, c, q).of
    BY <1>6
  <2>2. (s # o) <=> (Negative(q) # (Negative(h) # Negative(g) /\ Negative(h) # Negative(q)))
    BY <1>5, <2>1 DEF Negative
  <2>3. QED
    BY <1>4, <2>1, <2>2
<1>8. FlagsSbb(h, g, p, c, q).cf <=> h < g + c
  BY <1>3, <1>5
<1>9. QED
  BY <1>1, <1>2, <1>7, <1>8, Zenon DEF BorrowResult

\* Two words added with the carry c between them and the carry k out of the upper
\* one, word by word and as numbers.
WordsAdd(a, b, h, g, c, k, low, q) ==
  low = a + b - c * WordSize /\ q = h + g + c - k * WordSize

NumbersAdd(a, b, h, g, c, k, low, q) ==
  /\ Wide(q, low) + k * (WordSize * WordSize) = Wide(h, a) + Wide(g, b)
  /\ (SignedWide(q, low) = SignedWide(h, a) + SignedWide(g, b))
       <=> Signed(q) = Signed(h) + Signed(g) + c

LEMMA TwoWordArithmetic ==
  ASSUME NEW a \in Word, NEW b \in Word, NEW h \in Word, NEW g \in Word,
         NEW c \in {0, 1}, NEW k \in {0, 1}, NEW low \in Word, NEW q \in Word,
         WordsAdd(a, b, h, g, c, k, low, q)
  PROVE  NumbersAdd(a, b, h, g, c, k, low, q)
<1>1. WordSize \in Int /\ Word \subseteq Int
  BY Sizes
<1>2. low = a + b - c * WordSize /\ q = h + g + c - k * WordSize
  BY DEF WordsAdd
<1>3. q * WordSize + low + k * (WordSize * WordSize)
        = h * WordSize + a + (g * WordSize + b)
  BY <1>1, <1>2, SMT
<1>4. PICK sq \in Int, sh \in Int, sg \in Int :
        sq = Signed(q) /\ sh = Signed(h) /\ sg = Signed(g)
  BY SignedBounds, Sizes
<1>5. (sq = sh + sg + c) <=> (sq * WordSize = (sh + sg + c) * WordSize)
  <2>1. sh + sg + c \in Int
    OBVIOUS
  <2>2. QED
    BY <2>1, WordSizeCancels
<1>6. (sq * WordSize = (sh + sg + c) * WordSize)
        <=> (sq * WordSize + low = sh * WordSize + a + (sg * WordSize + b))
  BY <1>1, <1>2, SMT
<1>7. QED
  BY <1>3, <1>4, <1>5, <1>6 DEF NumbersAdd, Wide, SignedWide

LEMMA TwoWordSum ==
  ASSUME NEW a \in Word, NEW b \in Word, NEW h \in Word, NEW g \in Word,
         NEW c, c = (IF FlagsAdd(a, b, Plus(a, b)).cf THEN 1 ELSE 0),
         NEW p, p = Plus(h, g), NEW q, q = Plus(p, c),
         NEW f, f = FlagsAdc(h, g, p, q)
  PROVE  /\ Wide(q, Plus(a, b)) + (IF f.cf THEN WordSize * WordSize ELSE 0)
              = Wide(h, a) + Wide(g, b)
         /\ f.of <=> (SignedWide(q, Plus(a, b)) # SignedWide(h, a) + SignedWide(g, b))
         /\ f.sf <=> Negative(q)
<1> DEFINE low == Plus(a, b)
<1>1. low \in Word /\ c \in {0, 1} /\ low = a + b - c * WordSize
  <2>1. FlagsAdd(a, b, Plus(a, b)).cf <=> Plus(a, b) < a
    BY DEF FlagsAdd
  <2>2. c = IF Plus(a, b) < a THEN 1 ELSE 0
    BY <2>1
  <2>3. QED
    BY <2>2, Sizes DEF Plus
<1> HIDE DEF low
<1>2. /\ q \in Word
      /\ q = h + g + c - (IF f.cf THEN WordSize ELSE 0)
      /\ f.of <=> (Signed(q) # Signed(h) + Signed(g) + c)
      /\ f.sf <=> Negative(q)
  BY <1>1, CarryWord
<1>3. PICK k \in {0, 1} : f.cf <=> k = 1
  OBVIOUS
<1>4. WordsAdd(a, b, h, g, c, k, low, q)
  BY <1>1, <1>2, <1>3, Sizes DEF WordsAdd
<1>5. NumbersAdd(a, b, h, g, c, k, low, q)
  <2>1. low \in Word /\ c \in {0, 1} /\ q \in Word
    BY <1>1, <1>2
  <2>2. QED
    BY <2>1, <1>4, TwoWordArithmetic
<1>6. k * (WordSize * WordSize) = IF f.cf THEN WordSize * WordSize ELSE 0
  BY <1>3, Sizes
<1>7. Wide(q, low) + (IF f.cf THEN WordSize * WordSize ELSE 0) = Wide(h, a) + Wide(g, b)
  BY <1>5, <1>6 DEF NumbersAdd
<1>8. f.of <=> (SignedWide(q, low) # SignedWide(h, a) + SignedWide(g, b))
  BY <1>2, <1>5 DEF NumbersAdd
<1>9. QED
  BY <1>2, <1>7, <1>8 DEF low

\* The low words decide an order only when the high words are equal.
LEMMA WideOrder ==
  ASSUME NEW x \in Int, NEW y \in Int, NEW a \in Word, NEW b \in Word
  PROVE  (x * WordSize + a < y * WordSize + b) <=> (x < y \/ (x = y /\ a < b))
<1> DEFINE X == x * WordSize
           Y == y * WordSize
<1>1. /\ X \in Int /\ Y \in Int
      /\ x >= y + 1 => X >= Y + WordSize
      /\ y >= x + 1 => Y >= X + WordSize
      /\ x = y => X = Y
  BY WordSizeCancels
<1> HIDE DEF X, Y
<1>2. (X + a < Y + b) <=> (x < y \/ (x = y /\ a < b))
  <2>1. CASE x < y
    BY <2>1, <1>1, Sizes
  <2>2. CASE x = y
    BY <2>2, <1>1, Sizes
  <2>3. CASE x > y
    BY <2>3, <1>1, Sizes
  <2>4. QED
    BY <2>1, <2>2, <2>3
<1>3. QED
  BY <1>2 DEF X, Y

\* Two words subtracted with the borrow c between them and the borrow k out of
\* the upper one.
WordsSubtract(a, b, h, g, c, k, low, q) ==
  low = a - b + c * WordSize /\ q = h - g - c + k * WordSize

LEMMA TwoWordSubtraction ==
  ASSUME NEW a \in Word, NEW b \in Word, NEW h \in Word, NEW g \in Word,
         NEW c \in {0, 1}, NEW k \in {0, 1}, NEW low \in Word, NEW q \in Word,
         WordsSubtract(a, b, h, g, c, k, low, q)
  PROVE  Wide(q, low) = Wide(h, a) - Wide(g, b) + k * (WordSize * WordSize)
<1>1. WordSize \in Int /\ Word \subseteq Int
  BY Sizes
<1>2. low = a - b + c * WordSize /\ q = h - g - c + k * WordSize
  BY DEF WordsSubtract
<1>3. q * WordSize + low
        = h * WordSize + a - (g * WordSize + b) + k * (WordSize * WordSize)
  BY <1>1, <1>2, SMT
<1>4. QED
  BY <1>1, <1>3, SMT DEF Wide

\* The borrow of the low words, as the flag SUB left.
LEMMA LowBorrow ==
  ASSUME NEW a \in Word, NEW b \in Word,
         NEW c, c = (IF FlagsSub(a, b, Minus(a, b)).cf THEN 1 ELSE 0)
  PROVE  /\ Minus(a, b) \in Word
         /\ c = IF a < b THEN 1 ELSE 0
         /\ Minus(a, b) = a - b + c * WordSize
<1>1. FlagsSub(a, b, Minus(a, b)).cf <=> a < b
  BY DEF FlagsSub
<1>2. c = IF a < b THEN 1 ELSE 0
  BY <1>1
<1>3. QED
  BY <1>2, Sizes DEF Minus

LEMMA TwoWordDifference ==
  ASSUME NEW a \in Word, NEW b \in Word, NEW h \in Word, NEW g \in Word,
         NEW c, c = (IF FlagsSub(a, b, Minus(a, b)).cf THEN 1 ELSE 0),
         NEW p, p = Minus(h, g), NEW q, q = Minus(p, c),
         NEW f, f = FlagsSbb(h, g, p, c, q)
  PROVE  /\ Wide(q, Minus(a, b)) = IF Wide(h, a) >= Wide(g, b)
                                     THEN Wide(h, a) - Wide(g, b)
                                     ELSE Wide(h, a) - Wide(g, b) + WordSize * WordSize
         /\ f.cf <=> Wide(h, a) < Wide(g, b)
         /\ (f.sf # f.of) <=> SignedWide(h, a) < SignedWide(g, b)
<1> DEFINE low == Minus(a, b)
<1>1. low \in Word /\ low = a - b + c * WordSize
  BY LowBorrow
<1>2. c = IF a < b THEN 1 ELSE 0
  BY LowBorrow
<1> HIDE DEF low
<1>3. c \in {0, 1}
  BY <1>2
<1>4. /\ q \in Word
      /\ q = h - g - c + (IF h < g + c THEN WordSize ELSE 0)
      /\ f.cf <=> h < g + c
      /\ (f.sf # f.of) <=> (Signed(h) < Signed(g) + c)
  <2>1. BorrowResult(h, g, c, q, FlagsSbb(h, g, p, c, q))
    BY <1>3, BorrowWord
  <2>2. QED
    BY <2>1 DEF BorrowResult
<1>5. h < g + c <=> Wide(h, a) < Wide(g, b)
  <2>1. h \in Int /\ g \in Int
    BY Sizes
  <2>2. (h * WordSize + a < g * WordSize + b) <=> (h < g \/ (h = g /\ a < b))
    BY <2>1, WideOrder
  <2>3. h < g + c <=> (h < g \/ (h = g /\ a < b))
    BY <2>1, <1>2
  <2>4. QED
    BY <2>2, <2>3 DEF Wide
<1>6. Signed(h) < Signed(g) + c <=> SignedWide(h, a) < SignedWide(g, b)
  <2>1. PICK sh \in Int, sg \in Int : sh = Signed(h) /\ sg = Signed(g)
    BY SignedBounds, Sizes
  <2>2. (sh * WordSize + a < sg * WordSize + b) <=> (sh < sg \/ (sh = sg /\ a < b))
    BY WideOrder
  <2>3. sh < sg + c <=> (sh < sg \/ (sh = sg /\ a < b))
    BY <1>2
  <2>4. QED
    BY <2>1, <2>2, <2>3 DEF SignedWide
<1>7. PICK k \in {0, 1} : k = IF h < g + c THEN 1 ELSE 0
  OBVIOUS
<1>8. WordsSubtract(a, b, h, g, c, k, low, q)
  BY <1>1, <1>4, <1>7, Sizes DEF WordsSubtract
<1>9. Wide(q, low) = Wide(h, a) - Wide(g, b) + k * (WordSize * WordSize)
  <2>1. low \in Word /\ q \in Word
    BY <1>1, <1>4
  <2>2. QED
    BY <2>1, <1>3, <1>8, TwoWordSubtraction
<1>10. Wide(q, low) = IF Wide(h, a) >= Wide(g, b)
                        THEN Wide(h, a) - Wide(g, b)
                        ELSE Wide(h, a) - Wide(g, b) + WordSize * WordSize
  <2>1. PICK m \in Int, n \in Int, u \in Int :
          m = Wide(h, a) /\ n = Wide(g, b) /\ u = WordSize * WordSize
    <3>1. h * WordSize + a \in Int /\ g * WordSize + b \in Int /\ WordSize * WordSize \in Int
      BY Sizes, SMT
    <3>2. QED
      BY <3>1 DEF Wide
  <2>2. k = IF m < n THEN 1 ELSE 0
    BY <1>5, <1>7, <2>1
  <2>3. m - n + k * u = IF m >= n THEN m - n ELSE m - n + u
    <3>1. CASE m < n
      BY <2>2, <3>1
    <3>2. CASE m >= n
      BY <2>2, <3>2
    <3>3. QED
      BY <3>1, <3>2
  <2>4. QED
    BY <1>9, <2>1, <2>3
<1>11. QED
  BY <1>4, <1>5, <1>6, <1>10 DEF low

-----------------------------------------------------------------------------
(***************************************************************************)
(* What a program sees.                                                    *)
(***************************************************************************)
\* ADD, then ADC, is a two-word addition with exact carry and overflow, for every
\* word size and whatever instructions that leave the carry unchanged run in between.
THEOREM WideSumCorrect == ProgSpec => WideSum
<1>1. ASSUME FlagsInv, [ProgNext]_progVars,
             NEW reg \in AluReg, NEW rm \in AluReg,
             last.kind = "add", Adc(reg, rm)
      PROVE  LET low == Plus(last.a, last.b)
                 sum == Wide(r[reg], last.a) + Wide(r[rm], last.b)
                 signedSum == SignedWide(r[reg], last.a) + SignedWide(r[rm], last.b)
             IN  /\ Wide(r'[reg], low) + (IF flags'.cf THEN WordSize * WordSize ELSE 0) = sum
                 /\ flags'.of <=> (SignedWide(r'[reg], low) # signedSum)
                 /\ flags'.sf <=> Negative(r'[reg])
  <2>1. PICK a \in Word, b \in Word, h \in Word, g \in Word :
          a = last.a /\ b = last.b /\ h = r[reg] /\ g = r[rm]
    BY <1>1 DEF FlagsInv, ProgTypeOK, AluTypeOK
  <2>2. flags = FlagsAdd(a, b, Plus(a, b))
    BY <1>1, <2>1 DEF FlagsInv, FlagsOfLast
  <2>3. PICK c : c = (IF FlagsAdd(a, b, Plus(a, b)).cf THEN 1 ELSE 0)
    OBVIOUS
  <2>4. PICK p, q : p = Plus(h, g) /\ q = Plus(p, c)
    OBVIOUS
  <2>5. PICK f : f = FlagsAdc(h, g, p, q)
    OBVIOUS
  <2>6. r'[reg] = q /\ flags' = f
    BY <1>1, <2>1, <2>2, <2>3, <2>4, <2>5
       DEF Adc, Write, SetFlags, FlagsInv, ProgTypeOK, AluTypeOK
  <2>7. /\ Wide(q, Plus(a, b)) + (IF f.cf THEN WordSize * WordSize ELSE 0)
             = Wide(h, a) + Wide(g, b)
        /\ f.of <=> (SignedWide(q, Plus(a, b)) # SignedWide(h, a) + SignedWide(g, b))
        /\ f.sf <=> Negative(q)
    BY <2>3, <2>4, <2>5, TwoWordSum
  <2>8. QED
    BY <2>1, <2>6, <2>7
<1>2. FlagsInv /\ [ProgNext]_progVars => [WideSumStep]_progVars
  BY <1>1 DEF WideSumStep
<1>3. QED
  BY FlagsInvariant, <1>2, PTL DEF ProgSpec, WideSum

\* SUB or CMP, then SBB, subtracts and compares two-word numbers, for every word
\* size and whatever instructions that leave the carry unchanged run in between.
THEOREM WideDifferenceCorrect == ProgSpec => WideDifference
<1>1. ASSUME FlagsInv, [ProgNext]_progVars,
             NEW reg \in AluReg, NEW rm \in AluReg,
             last.kind = "sub", Sbb(reg, rm)
      PROVE  LET a == Wide(r[reg], last.a)
                 b == Wide(r[rm], last.b)
                 low == Minus(last.a, last.b)
             IN  /\ Wide(r'[reg], low) = IF a >= b THEN a - b
                                                   ELSE a - b + WordSize * WordSize
                 /\ Taken("JC", flags') <=> (a < b)
                 /\ Taken("JL", flags') <=>
                      (SignedWide(r[reg], last.a) < SignedWide(r[rm], last.b))
  <2>1. PICK a \in Word, b \in Word, h \in Word, g \in Word :
          a = last.a /\ b = last.b /\ h = r[reg] /\ g = r[rm]
    BY <1>1 DEF FlagsInv, ProgTypeOK, AluTypeOK
  <2>2. flags = FlagsSub(a, b, Minus(a, b))
    BY <1>1, <2>1 DEF FlagsInv, FlagsOfLast
  <2>3. PICK c : c = (IF FlagsSub(a, b, Minus(a, b)).cf THEN 1 ELSE 0)
    OBVIOUS
  <2>4. PICK p, q : p = Minus(h, g) /\ q = Minus(p, c)
    OBVIOUS
  <2>5. PICK f : f = FlagsSbb(h, g, p, c, q)
    OBVIOUS
  <2>6. r'[reg] = q /\ flags' = f
    BY <1>1, <2>1, <2>2, <2>3, <2>4, <2>5
       DEF Sbb, Write, SetFlags, FlagsInv, ProgTypeOK, AluTypeOK
  <2>7. /\ Wide(q, Minus(a, b)) = IF Wide(h, a) >= Wide(g, b)
                                    THEN Wide(h, a) - Wide(g, b)
                                    ELSE Wide(h, a) - Wide(g, b) + WordSize * WordSize
        /\ f.cf <=> Wide(h, a) < Wide(g, b)
        /\ (f.sf # f.of) <=> SignedWide(h, a) < SignedWide(g, b)
    BY <2>3, <2>4, <2>5, TwoWordDifference
  <2>8. (Taken("JC", f) <=> f.cf) /\ (Taken("JL", f) <=> (f.sf # f.of))
    BY DEF Taken
  <2>9. QED
    BY <2>1, <2>6, <2>7, <2>8
<1>2. FlagsInv /\ [ProgNext]_progVars => [WideDifferenceStep]_progVars
  BY <1>1 DEF WideDifferenceStep
<1>3. QED
  BY FlagsInvariant, <1>2, PTL DEF ProgSpec, WideDifference

\* UMULH is the upper word of the product for every word size that has half words.
THEOREM HighProductCorrect == ProgSpec => HighProduct
<1>1. ASSUME FlagsInv, NEW reg \in AluReg, NEW rm \in AluReg, MulHigh(reg, rm)
      PROVE  r'[reg] = (r[reg] * r[rm]) \div WordSize
  <2>1. r[reg] \in Word /\ r[rm] \in Word /\ r \in [AluReg -> Word]
    BY <1>1 DEF FlagsInv, ProgTypeOK, AluTypeOK
  <2>2. r'[reg] = HighWord(r[reg], r[rm], HalfWord)
    BY <1>1, <2>1 DEF MulHigh, Write
  <2>3. QED
    BY <2>1, <2>2, HighWordExact
<1>2. FlagsInv /\ [ProgNext]_progVars => [HighProductStep]_progVars
  BY <1>1 DEF HighProductStep
<1>3. QED
  BY FlagsInvariant, <1>2, PTL DEF ProgSpec, HighProduct
=============================================================================
