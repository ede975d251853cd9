-------------------------- MODULE TranslatorProofs --------------------------
(***************************************************************************)
(* Proofs about Translator, for every program of x86 instructions: the     *)
(* decoder of pebble-xlate reads back what was written, whichever encoding *)
(* was chosen for each instruction and wherever the input ends.            *)
(*                                                                         *)
(* The bytes of an encoding say where it ends and what it is, one field    *)
(* after the other; an instruction that is decoded from an input that ends *)
(* early is decoded the same way from a longer one.                        *)
(***************************************************************************)
EXTENDS Translator, CodeProofs

-----------------------------------------------------------------------------
(* Prefixes: where they end, and which REX byte counts. *)
LEMMA PrefixFound ==
  ASSUME NEW c \in Seq(Byte), NEW p \in Nat, NEW n \in Nat, p + n <= Len(c),
         \A k \in p .. p + n - 1 : PrefixByte(At(c, k)),
         p + n = Len(c) \/ ~PrefixByte(At(c, p + n))
  PROVE PrefixEnd(c, p) = p + n
<1>1. Len(c) \in Nat
  BY LenProperties
<1> DEFINE Ends(e) == /\ \A k \in p .. e - 1 : PrefixByte(At(c, k))
                      /\ e = Len(c) \/ ~PrefixByte(At(c, e))
<1>2. p + n \in p .. Len(c) /\ Ends(p + n)
  BY <1>1
<1>3. ASSUME NEW e \in p .. Len(c), Ends(e) PROVE e = p + n
  <2>1. CASE e < p + n
    <3>1. e \in p .. p + n - 1 /\ e # Len(c)
      BY <1>1, <2>1
    <3> QED
      BY <1>3, <3>1
  <2>2. CASE e > p + n
    <3>1. p + n \in p .. e - 1 /\ p + n # Len(c)
      BY <1>1, <2>2
    <3> QED
      BY <1>3, <3>1
  <2> QED
    BY <1>1, <2>1, <2>2
<1>4. PrefixEnd(c, p) = CHOOSE e \in p .. Len(c) : Ends(e)
  BY DEF PrefixEnd
<1> HIDE DEF Ends
<1> QED
  BY <1>2, <1>3, <1>4

\* With no REX byte the bits are zero; otherwise those of the last one count.
LEMMA NoRex ==
  ASSUME NEW c, NEW p \in Nat, NEW e \in Nat, \A k \in p .. e - 1 : ~IsRex(At(c, k))
  PROVE LastRex(c, p, e) = 0
<1>1. {k \in p .. e - 1 : IsRex(At(c, k))} = {}
  OBVIOUS
<1> QED
  BY <1>1 DEF LastRex

LEMMA OneRex ==
  ASSUME NEW c, NEW p \in Nat, NEW e \in Nat, NEW bits \in 0 .. 15, p < e,
         At(c, e - 1) = 64 + bits
  PROVE LastRex(c, p, e) = bits
<1> DEFINE rexes == {k \in p .. e - 1 : IsRex(At(c, k))}
<1>1. e - 1 \in rexes
  BY DEF IsRex
<1>2. \A k \in rexes : k \in Int /\ e - 1 >= k
  OBVIOUS
<1>3. ASSUME NEW x \in rexes, \A y \in rexes : x >= y PROVE x = e - 1
  <2>1. x >= e - 1 /\ e - 1 >= x /\ x \in Int
    BY <1>1, <1>2, <1>3
  <2> QED
    BY <2>1
<1> HIDE DEF rexes
<1>4. Max(rexes) = e - 1
  BY <1>1, <1>2, <1>3 DEF Max
<1>5. LastRex(c, p, e) = At(c, e - 1) % 16
  BY <1>1, <1>4 DEF LastRex, rexes
<1>6. (64 + bits) % 16 = bits
  BY SMT
<1> QED
  BY <1>5, <1>6

-----------------------------------------------------------------------------
(* Fields of a byte. *)
LEMMA RegisterBits ==
  ASSUME NEW n \in Register
  PROVE Low3(n) \in 0 .. 7 /\ High(n) \in {0, 1} /\ Low3(n) + 8 * High(n) = n
BY SMT DEF Register, Low3, High

LEMMA ModRMBits ==
  ASSUME NEW a \in 0 .. 3, NEW b \in 0 .. 7, NEW d \in 0 .. 7
  PROVE /\ (64 * a + b + 8 * d) \div 64 = a
        /\ (64 * a + b + 8 * d) % 8 = b
        /\ ((64 * a + b + 8 * d) \div 8) % 8 = d
        /\ 64 * a + b + 8 * d \in Byte
BY SMT DEF Byte

LEMMA RexFields ==
  ASSUME NEW w \in {0, 1}, NEW a \in {0, 1}, NEW b \in {0, 1}, NEW d \in {0, 1},
         NEW bits, bits = 8 * w + 4 * a + 2 * b + d
  PROVE /\ bits \in 0 .. 15
        /\ W(bits) <=> w = 1
        /\ R(bits) = a /\ X(bits) = b /\ B(bits) = d
BY SMT DEF W, R, X, B

\* In c, the prefixes of the instruction at p end at e and carry these bits.
RexIs(c, p, e, w, reg, index, base) ==
  /\ PrefixEnd(c, p) = e
  /\ W(LastRex(c, p, e)) <=> w = 1
  /\ R(LastRex(c, p, e)) = High(reg)
  /\ X(LastRex(c, p, e)) = High(index)
  /\ B(LastRex(c, p, e)) = High(base)

\* The REX prefix of an encoding, after prefixes that are not REX, is found, and the
\* four bits taken from it are those it was made of.
LEMMA RexRead ==
  ASSUME NEW c \in Seq(Byte), NEW p \in Nat, NEW n \in Nat,
         NEW w \in {0, 1}, NEW reg \in Int, NEW index \in Int, NEW base \in Int,
         \A k \in p .. p + n - 1 : PrefixByte(At(c, k)) /\ ~IsRex(At(c, k)),
         Has(c, p + n, Rex(w, reg, index, base)),
         NEW e \in Nat, e = p + n + Len(Rex(w, reg, index, base)),
         e < Len(c), ~PrefixByte(At(c, e))
  PROVE RexIs(c, p, e, w, reg, index, base)
<1> DEFINE bits == 8 * w + 4 * High(reg) + 2 * High(index) + High(base)
<1>1. High(reg) \in {0, 1} /\ High(index) \in {0, 1} /\ High(base) \in {0, 1}
  BY DEF High
<1>2. /\ bits \in 0 .. 15 /\ (W(bits) <=> w = 1)
      /\ R(bits) = High(reg) /\ X(bits) = High(index) /\ B(bits) = High(base)
  BY <1>1, RexFields
<1>3. Rex(w, reg, index, base) = IF bits = 0 THEN <<>> ELSE <<64 + bits>>
  BY DEF Rex
<1>4. Len(c) \in Nat
  BY LenProperties
<1> HIDE DEF bits
<1>5. PrefixEnd(c, p) = e /\ LastRex(c, p, e) = bits
  <2>1. CASE bits = 0
    <3>1. e = p + n
      BY <1>3, <2>1
    <3>2. PrefixEnd(c, p) = e
      BY <3>1, <1>4, PrefixFound
    <3> QED
      BY <2>1, <3>1, <3>2, NoRex
  <2>2. CASE bits # 0
    <3>1. Rex(w, reg, index, base) = <<64 + bits>>
      BY <1>3, <2>2
    <3>2. e = p + (n + 1) /\ At(c, p + n) = 64 + bits
      BY <3>1, HasOne
    <3>3. PrefixByte(At(c, p + n))
      <4>1. 64 + bits \in 64 .. 79
        BY <1>2
      <4> QED
        BY <3>2, <4>1 DEF PrefixByte, IsRex
    <3>4. ASSUME NEW k \in p .. p + (n + 1) - 1 PROVE PrefixByte(At(c, k))
      <4>1. k \in p .. p + n - 1 \/ k = p + n
        OBVIOUS
      <4> QED
        BY <4>1, <3>3
    <3>5. PrefixEnd(c, p) = e
      BY <3>2, <3>4, <1>4, PrefixFound
    <3>6. e - 1 = p + n /\ p < e
      BY <3>2
    <3>7. LastRex(c, p, e) = bits
      BY <1>2, <3>2, <3>6, OneRex
    <3> QED
      BY <3>5, <3>7
  <2> QED
    BY <2>1, <2>2
<1> QED
  BY <1>2, <1>5 DEF RexIs

-----------------------------------------------------------------------------
(* ModR/M: every form of an operand is read as the operand. *)
LEMMA DirectRead ==
  ASSUME NEW c, NEW p \in Nat, NEW rex, NEW reg \in Register, NEW r \in Register,
         R(rex) = High(reg), B(rex) = High(r),
         At(c, p) = (192 + Low3(r)) + 8 * Low3(reg)
  PROVE LET d == DecodeModRM(c, p, rex)
        IN d.reg = XReg(reg) /\ d.rm = XReg(r) /\ d.p = p + 1
<1>1. /\ Low3(reg) \in 0 .. 7 /\ Low3(reg) + 8 * High(reg) = reg
      /\ Low3(r) \in 0 .. 7 /\ Low3(r) + 8 * High(r) = r
  BY RegisterBits
<1>2. /\ At(c, p) \div 64 = 3 /\ At(c, p) % 8 = Low3(r) /\ (At(c, p) \div 8) % 8 = Low3(reg)
  BY <1>1, SMT
<1>3. /\ RegFromBits(At(c, p) \div 8, R(rex)) = reg
      /\ RegFromBits(At(c, p), B(rex)) = r
  BY <1>1, <1>2 DEF RegFromBits
<1> QED
  BY <1>2, <1>3 DEF DecodeModRM

LEMMA AddressParts ==
  ASSUME NEW m \in Address
  PROVE /\ m.rip \in BOOLEAN /\ m.base \in Register \cup {NONE}
        /\ m.index \in (Register \ {4}) \cup {NONE} /\ m.scale \in {1, 2, 4, 8}
        /\ m.disp \in Word32
        /\ m.rip => m.base = NONE /\ m.index = NONE
        /\ m.index = NONE => m.scale = 1
        /\ m = [rip |-> m.rip, base |-> m.base, index |-> m.index, scale |-> m.scale,
                disp |-> m.disp]
BY SMT DEF Address

\* The parts of a memory operand as DecodeMemory reads them.
RipAt(mod, rm) == mod = 0 /\ rm = 5
NoBaseAt(c, p, mod, rm) == rm = 4 /\ NoBase(mod, At(c, p))
LongAt(c, p, mod, rm) == mod = 2 \/ NoBaseAt(c, p, mod, rm) \/ RipAt(mod, rm)
AfterSib(p, rm) == IF rm = 4 THEN p + 1 ELSE p
BaseAt(c, p, rex, mod, rm) ==
  CASE RipAt(mod, rm) \/ NoBaseAt(c, p, mod, rm) -> NONE
    [] OTHER -> RegFromBits(IF rm = 4 THEN At(c, p) ELSE rm, B(rex))
IndexAt(c, p, rex, rm) ==
  IF rm # 4 \/ (At(c, p) \div 8) % 8 = 4 THEN NONE
  ELSE RegFromBits((At(c, p) \div 8) % 8, X(rex))
ScaleAt(c, p, rm) == IF rm = 4 THEN 2 ^ (At(c, p) \div 64) ELSE 1
DispAt(c, p, mod, rm) ==
  IF LongAt(c, p, mod, rm) THEN Signed32(c, AfterSib(p, rm))
  ELSE IF mod = 1 THEN Signed8(At(c, AfterSib(p, rm))) ELSE 0

LEMMA MemoryParts ==
  ASSUME NEW c, NEW p, NEW rex, NEW mod, NEW rm
  PROVE DecodeMemory(c, p, rex, mod, rm) =
          [p |-> AfterSib(p, rm) + (IF LongAt(c, p, mod, rm) THEN 4 ELSE mod),
           mem |-> [rip |-> RipAt(mod, rm), base |-> BaseAt(c, p, rex, mod, rm),
                    index |-> IndexAt(c, p, rex, rm), scale |-> ScaleAt(c, p, rm),
                    disp |-> DispAt(c, p, mod, rm)]]
BY Zenon DEF DecodeMemory, RipAt, NoBaseAt, LongAt, AfterSib, BaseAt, IndexAt, ScaleAt, DispAt

\* What the four ways to write an operand have in common: it is enough that each
\* part is read right.
LEMMA MemoryEnd ==
  ASSUME NEW c, NEW p, NEW rex, NEW mod, NEW rm
  PROVE DecodeMemory(c, p, rex, mod, rm).p =
          AfterSib(p, rm) + (IF LongAt(c, p, mod, rm) THEN 4 ELSE mod)
<1> DEFINE rip == RipAt(mod, rm)
           end == AfterSib(p, rm) + (IF LongAt(c, p, mod, rm) THEN 4 ELSE mod)
<1>1. DecodeMemory(c, p, rex, mod, rm) =
        [p |-> end, mem |-> DecodeMemory(c, p, rex, mod, rm).mem]
  BY MemoryParts, Zenon
<1> HIDE DEF end
<1>2. DecodeMemory(c, p, rex, mod, rm).p = end
  BY <1>1
<1> QED
  BY <1>2 DEF end

LEMMA MemoryIs ==
  ASSUME NEW c, NEW p, NEW rex, NEW m \in Address, NEW mod, NEW rm,
         m.rip <=> RipAt(mod, rm),
         m.base = BaseAt(c, p, rex, mod, rm),
         m.index = IndexAt(c, p, rex, rm),
         m.scale = ScaleAt(c, p, rm),
         m.disp = DispAt(c, p, mod, rm)
  PROVE DecodeMemory(c, p, rex, mod, rm).mem = m
<1>1. m.rip = RipAt(mod, rm)
  BY AddressParts, Zenon DEF RipAt
<1>2. m = [rip |-> RipAt(mod, rm), base |-> BaseAt(c, p, rex, mod, rm),
           index |-> IndexAt(c, p, rex, rm), scale |-> ScaleAt(c, p, rm),
           disp |-> DispAt(c, p, mod, rm)]
  BY <1>1, AddressParts, Zenon
<1>3. DecodeMemory(c, p, rex, mod, rm) =
          [p |-> AfterSib(p, rm) + (IF LongAt(c, p, mod, rm) THEN 4 ELSE mod), mem |-> m]
  BY <1>2, MemoryParts, Zenon
<1> QED
  BY <1>3

-----------------------------------------------------------------------------
(* The four ways to write a memory operand. *)
LEMMA RipRead ==
  ASSUME NEW c \in Seq(Byte), NEW p \in Nat, NEW rex, NEW mod, NEW rm, mod = 0, rm = 5,
         NEW m \in Address, m.rip, Has(c, p, LittleEndian(m.disp, 4))
  PROVE /\ DecodeMemory(c, p, rex, mod, rm).p = p + 4
        /\ DecodeMemory(c, p, rex, mod, rm).mem = m
<1>1. m.disp \in Word32 /\ m.base = NONE /\ m.index = NONE /\ m.scale = 1
  BY AddressParts
<1>2. Signed32(c, p) = m.disp
  BY <1>1, ReadsWord
<1>3. RipAt(mod, rm) /\ LongAt(c, p, mod, rm) /\ AfterSib(p, rm) = p
  BY DEF RipAt, LongAt, AfterSib
<1>4. /\ BaseAt(c, p, rex, mod, rm) = NONE /\ IndexAt(c, p, rex, rm) = NONE
      /\ ScaleAt(c, p, rm) = 1 /\ DispAt(c, p, mod, rm) = m.disp
  BY <1>2, <1>3 DEF BaseAt, IndexAt, ScaleAt, DispAt
<1>5. DecodeMemory(c, p, rex, mod, rm).p = p + 4
  BY <1>3, MemoryEnd
<1>6. DecodeMemory(c, p, rex, mod, rm).mem = m
  BY <1>1, <1>3, <1>4, MemoryIs
<1> QED
  BY <1>5, <1>6

LEMMA SibFields ==
  ASSUME NEW m \in Address, NEW low \in 0 .. 7
  PROVE /\ SibByte(m, low) \in Byte /\ SibByte(m, low) % 8 = low
        /\ (SibByte(m, low) \div 8) % 8 = (IF m.index = NONE THEN 4 ELSE Low3(m.index))
        /\ 2 ^ (SibByte(m, low) \div 64) = m.scale
<1> DEFINE scale == ScaleBits(m.scale)
           third == IF m.index = NONE THEN 4 ELSE Low3(m.index)
<1>1. scale \in 0 .. 3 /\ 2 ^ scale = m.scale
  <2>1. m.scale \in {1, 2, 4, 8}
    BY AddressParts
  <2>2. CASE m.scale = 1
    BY <2>2, PowersOf2, SMT DEF ScaleBits
  <2>3. CASE m.scale = 2
    BY <2>3, PowersOf2, SMT DEF ScaleBits
  <2>4. CASE m.scale = 4
    BY <2>4, PowersOf2, SMT DEF ScaleBits
  <2>5. CASE m.scale = 8
    BY <2>5, PowersOf2, SMT DEF ScaleBits
  <2> QED
    BY <2>1, <2>2, <2>3, <2>4, <2>5
<1>2. third \in 0 .. 7
  BY AddressParts, RegisterBits DEF Register, NONE
<1>3. SibByte(m, low) = 64 * scale + 8 * third + low
  BY DEF SibByte
<1> HIDE DEF scale, third
<1>4. 64 * scale + 8 * third + low = 64 * scale + low + 8 * third
  BY <1>1, <1>2
<1>5. /\ SibByte(m, low) \div 64 = scale /\ SibByte(m, low) % 8 = low
      /\ (SibByte(m, low) \div 8) % 8 = third /\ SibByte(m, low) \in Byte
  BY <1>1, <1>2, <1>3, <1>4, ModRMBits
<1>6. 2 ^ (SibByte(m, low) \div 64) = m.scale
  BY <1>1, <1>5, Zenon
<1> QED
  BY <1>5, <1>6 DEF third

LEMMA DisplacementRead ==
  ASSUME NEW c \in Seq(Byte), NEW q \in Nat, NEW m \in Address, NEW mod \in Mods(m),
         Has(c, q, Displacement(mod, m.disp))
  PROVE /\ mod \in 0 .. 2
        /\ q + (IF mod = 2 THEN 4 ELSE mod) = q + Len(Displacement(mod, m.disp))
        /\ (IF mod = 2 THEN Signed32(c, q) ELSE IF mod = 1 THEN Signed8(At(c, q)) ELSE 0) = m.disp
<1>1. /\ mod \in 0 .. 2 /\ (mod = 0 => m.disp = 0) /\ (mod = 1 => SInt8(m.disp))
      /\ m.disp \in Word32 /\ m.disp \in Int
  BY AddressParts, WordIsInteger DEF Mods
<1>2. CASE mod = 0
  <2>1. Displacement(mod, m.disp) = LittleEndian(m.disp, 0)
    BY <1>2 DEF Displacement
  <2>2. Len(Displacement(mod, m.disp)) = 0
    BY <1>1, <2>1, LittleEndianBytes
  <2> QED
    BY <1>1, <1>2, <2>2
<1>3. CASE mod = 1
  <2>1. Displacement(mod, m.disp) = LittleEndian(m.disp, 1)
    BY <1>3 DEF Displacement
  <2>2. Signed8(At(c, q)) = m.disp
    BY <1>1, <1>3, <2>1, ReadsByte
  <2>3. Len(Displacement(mod, m.disp)) = 1
    BY <1>1, <2>1, LittleEndianBytes
  <2>4. q + (IF mod = 2 THEN 4 ELSE mod) = q + Len(Displacement(mod, m.disp))
    BY <1>3, <2>3
  <2>5. (IF mod = 2 THEN Signed32(c, q) ELSE IF mod = 1 THEN Signed8(At(c, q)) ELSE 0) = m.disp
    BY <1>3, <2>2
  <2> QED
    BY <1>1, <2>4, <2>5
<1>4. CASE mod = 2
  <2>1. Displacement(mod, m.disp) = LittleEndian(m.disp, 4)
    BY <1>4 DEF Displacement
  <2>2. Signed32(c, q) = m.disp
    BY <1>1, <2>1, ReadsWord
  <2>3. Len(Displacement(mod, m.disp)) = 4
    BY <1>1, <2>1, LittleEndianBytes
  <2> QED
    BY <1>1, <1>4, <2>2, <2>3
<1> QED
  BY <1>1, <1>2, <1>3, <1>4

LEMMA SibIndex ==
  ASSUME NEW c, NEW p, NEW rex, NEW rm, rm = 4, NEW m \in Address, NEW low \in 0 .. 7,
         At(c, p) = SibByte(m, low), X(rex) = High(m.index), m.index # 12
  PROVE IndexAt(c, p, rex, rm) = m.index
<1>1. (At(c, p) \div 8) % 8 = (IF m.index = NONE THEN 4 ELSE Low3(m.index))
  BY SibFields
<1>2. CASE m.index = NONE
  BY <1>1, <1>2 DEF IndexAt
<1>3. CASE m.index # NONE
  <2>1. m.index \in Register /\ m.index # 4
    BY <1>3, AddressParts
  <2>2. Low3(m.index) \in 0 .. 7 /\ Low3(m.index) + 8 * High(m.index) = m.index
    BY <2>1, RegisterBits
  <2>3. Low3(m.index) # 4
    BY <2>1 DEF Register, Low3
  <2>4. Low3(m.index) % 8 = Low3(m.index)
    BY <2>2
  <2> QED
    BY <1>1, <1>3, <2>2, <2>3, <2>4 DEF IndexAt, RegFromBits
<1> QED
  BY <1>2, <1>3

LEMMA AbsoluteRead ==
  ASSUME NEW c \in Seq(Byte), NEW p \in Nat, NEW rex, NEW mod, NEW rm, mod = 0, rm = 4,
         NEW m \in Address, ~m.rip, m.base = NONE, X(rex) = High(m.index),
         At(c, p) = SibByte(m, 5), Has(c, p + 1, LittleEndian(m.disp, 4))
  PROVE /\ DecodeMemory(c, p, rex, mod, rm).p = p + 5
        /\ m.index # 12 => DecodeMemory(c, p, rex, mod, rm).mem = m
<1>1. m.disp \in Word32
  BY AddressParts
<1>2. Signed32(c, p + 1) = m.disp
  BY <1>1, ReadsWord
<1>3. NoBaseAt(c, p, mod, rm)
  BY SibFields DEF NoBaseAt, NoBase
<1>4. ~RipAt(mod, rm) /\ LongAt(c, p, mod, rm) /\ AfterSib(p, rm) = p + 1
  BY <1>3 DEF RipAt, LongAt, AfterSib
<1>5. DecodeMemory(c, p, rex, mod, rm).p = p + 5
  BY <1>4, MemoryEnd
<1>6. /\ BaseAt(c, p, rex, mod, rm) = NONE /\ ScaleAt(c, p, rm) = m.scale
      /\ DispAt(c, p, mod, rm) = m.disp
  BY <1>2, <1>3, <1>4, SibFields DEF BaseAt, ScaleAt, DispAt
<1>7. m.index # 12 => IndexAt(c, p, rex, rm) = m.index
  BY SibIndex
<1> QED
  BY <1>4, <1>5, <1>6, <1>7, MemoryIs

LEMMA BaseRead ==
  ASSUME NEW c \in Seq(Byte), NEW p \in Nat, NEW rex, NEW m \in Address,
         ~m.rip, m.base # NONE, m.index = NONE, B(rex) = High(m.base),
         NEW mod \in Mods(m), NEW rm, rm = Low3(m.base), rm # 4,
         Has(c, p, Displacement(mod, m.disp))
  PROVE /\ DecodeMemory(c, p, rex, mod, rm).p = p + Len(Displacement(mod, m.disp))
        /\ DecodeMemory(c, p, rex, mod, rm).mem = m
<1>1. /\ m.base \in Register /\ m.scale = 1
      /\ Low3(m.base) \in 0 .. 7 /\ Low3(m.base) + 8 * High(m.base) = m.base
  BY AddressParts, RegisterBits
<1>2. ~RipAt(mod, rm) /\ ~NoBaseAt(c, p, mod, rm) /\ AfterSib(p, rm) = p
  BY DEF RipAt, NoBaseAt, AfterSib, Mods
<1>3. LongAt(c, p, mod, rm) <=> mod = 2
  BY <1>2 DEF LongAt
<1>4. DecodeMemory(c, p, rex, mod, rm).p = p + Len(Displacement(mod, m.disp))
  BY <1>2, <1>3, MemoryEnd, DisplacementRead
<1>5. DispAt(c, p, mod, rm) = m.disp
  BY <1>2, <1>3, DisplacementRead DEF DispAt
<1>6. BaseAt(c, p, rex, mod, rm) = m.base
  BY <1>1, <1>2 DEF BaseAt, RegFromBits
<1>7. IndexAt(c, p, rex, rm) = NONE /\ ScaleAt(c, p, rm) = 1
  BY DEF IndexAt, ScaleAt
<1> QED
  BY <1>1, <1>2, <1>4, <1>5, <1>6, <1>7, MemoryIs

LEMMA SibRead ==
  ASSUME NEW c \in Seq(Byte), NEW p \in Nat, NEW rex, NEW m \in Address,
         ~m.rip, m.base # NONE, X(rex) = High(m.index), B(rex) = High(m.base),
         NEW mod \in Mods(m), NEW rm, rm = 4, At(c, p) = SibByte(m, Low3(m.base)),
         Has(c, p + 1, Displacement(mod, m.disp))
  PROVE /\ DecodeMemory(c, p, rex, mod, rm).p = p + 1 + Len(Displacement(mod, m.disp))
        /\ m.index # 12 => DecodeMemory(c, p, rex, mod, rm).mem = m
<1>1. /\ m.base \in Register
      /\ Low3(m.base) \in 0 .. 7 /\ Low3(m.base) + 8 * High(m.base) = m.base
  BY AddressParts, RegisterBits
<1>2. At(c, p) % 8 = Low3(m.base) /\ 2 ^ (At(c, p) \div 64) = m.scale
  BY <1>1, SibFields
<1>3. ~NoBaseAt(c, p, mod, rm)
  BY <1>2 DEF NoBaseAt, NoBase, Mods
<1>4. ~RipAt(mod, rm) /\ AfterSib(p, rm) = p + 1 /\ (LongAt(c, p, mod, rm) <=> mod = 2)
  BY <1>3 DEF RipAt, AfterSib, LongAt
<1>5. DecodeMemory(c, p, rex, mod, rm).p = p + 1 + Len(Displacement(mod, m.disp))
  BY <1>4, MemoryEnd, DisplacementRead
<1>6. DispAt(c, p, mod, rm) = m.disp
  BY <1>4, DisplacementRead DEF DispAt
<1>7. BaseAt(c, p, rex, mod, rm) = m.base
  BY <1>1, <1>2, <1>3, <1>4 DEF BaseAt, RegFromBits
<1>8. m.index # 12 => IndexAt(c, p, rex, rm) = m.index
  BY <1>1, SibIndex
<1>9. ScaleAt(c, p, rm) = m.scale
  BY <1>2 DEF ScaleAt
<1> QED
  BY <1>4, <1>5, <1>6, <1>7, <1>8, <1>9, MemoryIs

-----------------------------------------------------------------------------
(* The forms of an operand: ModR/M without its reg field, and what follows. *)
LEMMA Operands ==
  /\ \A op \in RegOperand : op = XReg(op[2]) /\ op[2] \in Register /\ IsReg(op) /\ ~IsMem(op)
                              /\ ~IsImm(op)
  /\ \A op \in MemOperand : op = XMem(op[2]) /\ op[2] \in Address /\ IsMem(op) /\ ~IsReg(op)
                              /\ ~IsImm(op)
  /\ \A op \in ImmOperand : op = Wide(op[2], op[3]) /\ op[2] \in Word32 /\ op[3] \in Word32
                              /\ IsImm(op) /\ ~IsReg(op) /\ ~IsMem(op)
BY DEF RegOperand, MemOperand, ImmOperand, IsReg, IsMem, IsImm, XReg, XMem, Wide

LEMMA OneByteSeq == ASSUME NEW b \in Byte PROVE <<b>> \in Seq(Byte) /\ Len(<<b>>) = 1
OBVIOUS

LEMMA TwoByteSeq ==
  ASSUME NEW a \in Byte, NEW b \in Byte PROVE <<a, b>> \in Seq(Byte) /\ Len(<<a, b>>) = 2
OBVIOUS

LEMMA DisplacementBytes ==
  ASSUME NEW m \in Address, NEW mod \in Mods(m)
  PROVE Displacement(mod, m.disp) \in Seq(Byte)
<1>1. mod \in {0, 1, 2} /\ m.disp \in Int
  BY AddressParts, WordIsInteger DEF Mods
<1>2. Displacement(mod, m.disp) \in {LittleEndian(m.disp, 0), LittleEndian(m.disp, 1),
                                     LittleEndian(m.disp, 4)}
  BY <1>1 DEF Displacement
<1> QED
  BY <1>1, <1>2, LittleEndianBytes

LEMMA BaseFormShape ==
  ASSUME NEW m \in Address, m.base # NONE, NEW start \in BaseForms(m)
  PROVE \E mod \in Mods(m) :
          /\ mod \in 0 .. 2 /\ start[1] \div 64 = mod
          /\ \/ m.index = NONE /\ Low3(m.base) # 4 /\ start = <<64 * mod + Low3(m.base)>>
             \/ start = <<64 * mod + 4, SibByte(m, Low3(m.base))>>
<1>1. Low3(m.base) \in 0 .. 7
  BY AddressParts, RegisterBits
<1>2. PICK mod \in Mods(m) :
        \/ m.index = NONE /\ Low3(m.base) # 4 /\ start = <<64 * mod + Low3(m.base)>>
        \/ start = <<64 * mod + 4, SibByte(m, Low3(m.base))>>
  BY DEF BaseForms
<1>3. mod \in 0 .. 2
  BY DEF Mods
<1>4. start[1] = 64 * mod + Low3(m.base) \/ start[1] = 64 * mod + 4
  BY <1>2
<1>5. start[1] \div 64 = mod
  BY <1>1, <1>3, <1>4, SMT
<1> QED
  BY <1>2, <1>3, <1>5

\* A form is a first byte, some bytes of its own, and the displacement.
LEMMA TailConcat ==
  ASSUME NEW a \in Seq(Byte), NEW b \in Seq(Byte), a # <<>>
  PROVE Tail(a \o b) = Tail(a) \o b /\ (a \o b)[1] = a[1] /\ a \o b # <<>>
<1>1. /\ Len(a) \in Nat /\ Len(b) \in Nat /\ Len(a) >= 1
      /\ a \o b \in Seq(Byte) /\ Len(a \o b) = Len(a) + Len(b)
      /\ Tail(a) \in Seq(Byte) /\ Len(Tail(a)) = Len(a) - 1
      /\ \A i \in 1 .. Len(a) - 1 : Tail(a)[i] = a[i + 1]
  BY LenProperties, EmptySeq, ConcatProperties, HeadTailProperties
<1>2. /\ a \o b # <<>>
      /\ Tail(a \o b) \in Seq(Byte) /\ Len(Tail(a \o b)) = (Len(a) + Len(b)) - 1
      /\ \A i \in 1 .. (Len(a) + Len(b)) - 1 : Tail(a \o b)[i] = (a \o b)[i + 1]
  BY <1>1, HeadTailProperties, EmptySeq
<1>3. /\ Tail(a) \o b \in Seq(Byte) /\ Len(Tail(a) \o b) = (Len(a) - 1) + Len(b)
      /\ \A i \in 1 .. (Len(a) - 1) + Len(b) :
           (Tail(a) \o b)[i] = IF i <= Len(a) - 1 THEN Tail(a)[i] ELSE b[i - (Len(a) - 1)]
  BY <1>1, ConcatProperties
<1>4. \A i \in 1 .. Len(a) + Len(b) :
        (a \o b)[i] = IF i <= Len(a) THEN a[i] ELSE b[i - Len(a)]
  BY ConcatProperties
<1>5. ASSUME NEW i \in 1 .. (Len(a) + Len(b)) - 1
      PROVE Tail(a \o b)[i] = (Tail(a) \o b)[i]
  <2>1. Tail(a \o b)[i] = (a \o b)[i + 1] /\ i + 1 \in 1 .. Len(a) + Len(b)
    BY <1>1, <1>2
  <2>2. CASE i <= Len(a) - 1
    <3>1. (a \o b)[i + 1] = a[i + 1] /\ (Tail(a) \o b)[i] = Tail(a)[i]
      BY <1>1, <1>3, <1>4, <2>1, <2>2
    <3> QED
      BY <1>1, <2>1, <2>2, <3>1
  <2>3. CASE ~(i <= Len(a) - 1)
    <3>1. (a \o b)[i + 1] = b[(i + 1) - Len(a)] /\ (Tail(a) \o b)[i] = b[i - (Len(a) - 1)]
      BY <1>1, <1>3, <1>4, <2>1, <2>3
    <3>2. (i + 1) - Len(a) = i - (Len(a) - 1)
      BY <1>1
    <3> QED
      BY <2>1, <3>1, <3>2
  <2> QED
    BY <2>2, <2>3
<1>6. (a \o b)[1] = a[1]
  BY <1>1, <1>4
<1>7. (Len(a) + Len(b)) - 1 = (Len(a) - 1) + Len(b)
  BY <1>1
<1>8. Tail(a \o b) = Tail(a) \o b
  BY <1>2, <1>3, <1>5, <1>7, SeqEqual
<1> QED
  BY <1>2, <1>6, <1>8

\* A form with its reg field filled in is at offset p.
FormAt(c, p, form, reg) ==
  /\ At(c, p) = form[1] + 8 * Low3(reg)
  /\ Has(c, p + 1, Tail(form))

\* The REX bits fit the operands.
RexFits(rex, reg, op) ==
  /\ R(rex) = High(reg)
  /\ IsReg(op) => B(rex) = High(op[2])
  /\ IsMem(op) => X(rex) = High(op[2].index) /\ B(rex) = High(op[2].base)

\* The operands are read off the form, except an index R12, and so is its end.
FormRead(c, p, rex, reg, op, form) ==
  /\ form \in Seq(Byte) /\ form # <<>> /\ form[1] \in 0 .. 199
  /\ DecodeModRM(c, p, rex).reg = XReg(reg)
  /\ (IsMem(op) => op[2].index # 12) => DecodeModRM(c, p, rex).rm = op
  /\ DecodeModRM(c, p, rex).p = p + Len(form)

ReadsMemory(c, p, rex, reg, mod, rm) ==
  /\ DecodeModRM(c, p, rex).reg = XReg(reg)
  /\ DecodeModRM(c, p, rex).rm = XMem(DecodeMemory(c, p + 1, rex, mod, rm).mem)
  /\ DecodeModRM(c, p, rex).p = DecodeMemory(c, p + 1, rex, mod, rm).p

\* What DecodeModRM does once the operand is known to be in memory.
LEMMA MemoryModRM ==
  ASSUME NEW c, NEW p \in Nat, NEW rex, NEW reg \in Register,
         NEW mod \in 0 .. 2, NEW rm \in 0 .. 7, R(rex) = High(reg),
         At(c, p) = (64 * mod + rm) + 8 * Low3(reg)
  PROVE ReadsMemory(c, p, rex, reg, mod, rm)
<1>1. Low3(reg) \in 0 .. 7 /\ Low3(reg) + 8 * High(reg) = reg
  BY RegisterBits
<1>2. /\ At(c, p) \div 64 = mod /\ At(c, p) % 8 = rm
      /\ (At(c, p) \div 8) % 8 = Low3(reg) /\ mod # 3
  <2>1. mod \in 0 .. 3 /\ mod # 3
    OBVIOUS
  <2> QED
    BY <1>1, <2>1, ModRMBits
<1>3. RegFromBits(At(c, p) \div 8, R(rex)) = reg
  BY <1>1, <1>2 DEF RegFromBits
<1> QED
  BY <1>2, <1>3 DEF DecodeModRM, ReadsMemory

LEMMA MemIndex == \A m : IsMem(XMem(m)) /\ XMem(m)[2] = m
BY DEF IsMem, XMem

LEMMA RegisterForm ==
  ASSUME NEW c \in Seq(Byte), NEW p \in Nat, NEW rex, NEW reg \in Register,
         NEW op \in RegOperand, NEW form \in RmForms(op), FormAt(c, p, form, reg),
         RexFits(rex, reg, op)
  PROVE FormRead(c, p, rex, reg, op, form)
<1>1. op = XReg(op[2]) /\ op[2] \in Register /\ IsReg(op)
  BY Operands
<1>2. form = <<192 + Low3(op[2])>> /\ Low3(op[2]) \in 0 .. 7
  BY <1>1, RegisterBits DEF RmForms
<1>3. 192 + Low3(op[2]) \in Byte /\ 192 + Low3(op[2]) \in 0 .. 199
  <2>1. \A low \in 0 .. 7 : 192 + low \in Byte /\ 192 + low \in 0 .. 199
    BY DEF Byte
  <2> QED
    BY <1>2, <2>1
<1>4. form \in Seq(Byte) /\ Len(form) = 1 /\ form # <<>> /\ form[1] = 192 + Low3(op[2])
  BY <1>2, <1>3, OneByteSeq
<1>5. /\ R(rex) = High(reg) /\ B(rex) = High(op[2])
      /\ At(c, p) = (192 + Low3(op[2])) + 8 * Low3(reg)
  BY <1>1, <1>4 DEF FormAt, RexFits
<1>6. /\ DecodeModRM(c, p, rex).reg = XReg(reg)
      /\ DecodeModRM(c, p, rex).rm = XReg(op[2])
      /\ DecodeModRM(c, p, rex).p = p + 1
  BY <1>1, <1>5, DirectRead
<1> QED
  BY <1>1, <1>3, <1>4, <1>6 DEF FormRead

\* A form that starts with one byte and goes on with s.
LEMMA FormStart ==
  ASSUME NEW b \in Byte, NEW s \in Seq(Byte), NEW form, form = <<b>> \o s
  PROVE /\ form \in Seq(Byte) /\ form # <<>> /\ form[1] = b /\ Tail(form) = s
        /\ Len(form) = 1 + Len(s)
<1>1. <<b>> \in Seq(Byte) /\ Len(<<b>>) = 1 /\ <<b>> # <<>> /\ Tail(<<b>>) = <<>> /\ <<b>>[1] = b
  OBVIOUS
<1>2. Tail(form) = <<>> \o s /\ form[1] = b /\ form # <<>>
  BY <1>1, TailConcat
<1>3. <<>> \o s = s
  BY ConcatEmptySeq
<1>4. form \in Seq(Byte) /\ Len(form) = Len(<<b>>) + Len(s)
  BY <1>1, ConcatProperties
<1> QED
  BY <1>1, <1>2, <1>3, <1>4

LEMMA FormStartTwo ==
  ASSUME NEW a \in Byte, NEW b \in Byte, NEW s \in Seq(Byte), NEW form, form = <<a, b>> \o s
  PROVE /\ form \in Seq(Byte) /\ form # <<>> /\ form[1] = a /\ Tail(form) = <<b>> \o s
        /\ Len(form) = 2 + Len(s)
<1>1. /\ <<a, b>> \in Seq(Byte) /\ Len(<<a, b>>) = 2 /\ <<a, b>> # <<>>
      /\ Tail(<<a, b>>) = <<b>> /\ <<a, b>>[1] = a
  OBVIOUS
<1>2. Tail(form) = <<b>> \o s /\ form[1] = a /\ form # <<>>
  BY <1>1, TailConcat
<1>3. form \in Seq(Byte) /\ Len(form) = Len(<<a, b>>) + Len(s)
  BY <1>1, ConcatProperties
<1> QED
  BY <1>1, <1>2, <1>3

IsRip(m) == m.rip

LEMMA RipForm ==
  ASSUME NEW c \in Seq(Byte), NEW p \in Nat, NEW rex, NEW reg \in Register,
         NEW m \in Address, IsRip(m), NEW form, form = << 5 >> \o LittleEndian(m.disp, 4),
         FormAt(c, p, form, reg), R(rex) = High(reg)
  PROVE FormRead(c, p, rex, reg, XMem(m), form)
<1> DEFINE word == LittleEndian(m.disp, 4)
<1>1. m.disp \in Word32 /\ word \in Seq(Byte) /\ Len(word) = 4
  BY AddressParts, WordIsInteger, LittleEndianBytes
<1>2. 5 \in Byte /\ 5 \in 0 .. 199
  BY DEF Byte
<1>3. /\ form \in Seq(Byte) /\ Len(form) = 5 /\ form # <<>> /\ form[1] = 5
      /\ Tail(form) = word
  <2>1. form = << 5 >> \o word
    OBVIOUS
  <2> HIDE DEF word
  <2>2. PICK lead \in Byte : lead = 5
    BY <1>2
  <2>3. word \in Seq(Byte)
    BY <1>1
  <2>4. form = <<lead>> \o word
    BY <2>1, <2>2
  <2>5. /\ form \in Seq(Byte) /\ form # <<>> /\ form[1] = lead /\ Tail(form) = word
        /\ Len(form) = 1 + Len(word)
    BY ONLY <2>3, <2>4, FormStart
  <2> QED
    BY <1>1, <2>2, <2>5
<1>4. At(c, p) = 5 + 8 * Low3(reg) /\ Has(c, p + 1, word)
  BY <1>3 DEF FormAt
<1> HIDE DEF word
<1>5. PICK mod, rm : mod = 0 /\ rm = 5
  OBVIOUS
<1>6. p + 1 \in Nat
  OBVIOUS
<1>7. /\ DecodeMemory(c, p + 1, rex, mod, rm).p = p + 1 + 4
      /\ DecodeMemory(c, p + 1, rex, mod, rm).mem = m
  BY <1>4, <1>5, <1>6, RipRead DEF word, IsRip
<1>8. ReadsMemory(c, p, rex, reg, mod, rm)
  <2>1. At(c, p) = (64 * mod + rm) + 8 * Low3(reg)
    BY <1>4, <1>5
  <2>2. mod \in 0 .. 2 /\ rm \in 0 .. 7
    BY <1>5
  <2> QED
    BY <2>1, <2>2, MemoryModRM
<1>9. p + 1 + 4 = p + 5
  OBVIOUS
<1> QED
  BY <1>2, <1>3, <1>7, <1>8, <1>9, MemIndex DEF FormRead, ReadsMemory

LEMMA AbsoluteForm ==
  ASSUME NEW c \in Seq(Byte), NEW p \in Nat, NEW rex, NEW reg \in Register,
         NEW m \in Address, ~IsRip(m), m.base = NONE,
         NEW form, form = <<4, SibByte(m, 5)>> \o LittleEndian(m.disp, 4),
         FormAt(c, p, form, reg), R(rex) = High(reg), X(rex) = High(m.index)
  PROVE FormRead(c, p, rex, reg, XMem(m), form)
<1> DEFINE word == LittleEndian(m.disp, 4)
           sib == SibByte(m, 5)
<1>1. m.disp \in Word32 /\ word \in Seq(Byte) /\ Len(word) = 4
  BY AddressParts, WordIsInteger, LittleEndianBytes
<1>2. sib \in Byte
  <2>1. 5 \in 0 .. 7
    OBVIOUS
  <2> QED
    BY <2>1, SibFields
<1>3. 4 \in Byte /\ 4 \in 0 .. 199
  BY DEF Byte
<1>4. /\ form \in Seq(Byte) /\ Len(form) = 6 /\ form # <<>> /\ form[1] = 4
      /\ Tail(form) = <<sib>> \o word
  <2>1. form = <<4, sib>> \o word
    OBVIOUS
  <2> HIDE DEF word, sib
  <2>2. PICK lead \in Byte : lead = 4
    BY <1>3
  <2>3. word \in Seq(Byte) /\ sib \in Byte
    BY <1>1, <1>2
  <2>4. form = <<lead, sib>> \o word
    BY <2>1, <2>2
  <2>5. /\ form \in Seq(Byte) /\ form # <<>> /\ form[1] = lead /\ Tail(form) = <<sib>> \o word
        /\ Len(form) = 2 + Len(word)
    BY ONLY <2>3, <2>4, FormStartTwo
  <2> QED
    BY <1>1, <2>2, <2>5
<1> HIDE DEF word, sib
<1>5. At(c, p) = 4 + 8 * Low3(reg) /\ At(c, p + 1) = sib /\ Has(c, (p + 1) + 1, word)
  <2>1. Has(c, p + 1, <<sib>> \o word) /\ p + 1 \in Nat
    <3>1. Has(c, p + 1, <<sib>> \o word)
      BY <1>4, Zenon DEF FormAt
    <3> QED
      BY <3>1
  <2>2. <<sib>> \in Seq(Byte) /\ Len(<<sib>>) = 1
    BY <1>2, OneByteSeq
  <2>3. Has(c, p + 1, <<sib>>) /\ Has(c, (p + 1) + Len(<<sib>>), word)
    BY <1>1, <2>1, <2>2, HasConcat
  <2> QED
    BY <1>4, <2>1, <2>2, <2>3, HasOne DEF FormAt
<1>6. PICK mod, rm : mod = 0 /\ rm = 4
  OBVIOUS
<1>7. p + 1 \in Nat
  OBVIOUS
<1>8. /\ DecodeMemory(c, p + 1, rex, mod, rm).p = (p + 1) + 5
      /\ m.index # 12 => DecodeMemory(c, p + 1, rex, mod, rm).mem = m
  BY <1>5, <1>6, <1>7, AbsoluteRead DEF word, sib, IsRip
<1>9. ReadsMemory(c, p, rex, reg, mod, rm)
  <2>1. At(c, p) = (64 * mod + rm) + 8 * Low3(reg)
    BY <1>5, <1>6
  <2>2. mod \in 0 .. 2 /\ rm \in 0 .. 7
    BY <1>6
  <2> QED
    BY <2>1, <2>2, MemoryModRM
<1>10. (p + 1) + 5 = p + 6
  OBVIOUS
<1> QED
  BY <1>3, <1>4, <1>8, <1>9, <1>10, MemIndex DEF FormRead, ReadsMemory

\* The last two ways: a base register, with or without SIB.
LEMMA BaseForm ==
  ASSUME NEW c \in Seq(Byte), NEW p \in Nat, NEW rex, NEW reg \in Register,
         NEW m \in Address, ~IsRip(m), m.base # NONE,
         NEW start \in BaseForms(m),
         NEW form, form = start \o Displacement(start[1] \div 64, m.disp),
         FormAt(c, p, form, reg),
         R(rex) = High(reg), X(rex) = High(m.index), B(rex) = High(m.base)
  PROVE FormRead(c, p, rex, reg, XMem(m), form)
<1>1. PICK mod \in Mods(m) :
        /\ mod \in 0 .. 2 /\ start[1] \div 64 = mod
        /\ \/ m.index = NONE /\ Low3(m.base) # 4 /\ start = <<64 * mod + Low3(m.base)>>
           \/ start = <<64 * mod + 4, SibByte(m, Low3(m.base))>>
  BY BaseFormShape
<1> DEFINE disp == Displacement(mod, m.disp)
           low == Low3(m.base)
           sib == SibByte(m, low)
<1>2. disp \in Seq(Byte) /\ Len(disp) \in Nat
  BY DisplacementBytes, LenProperties
<1>3. low \in 0 .. 7
  BY AddressParts, RegisterBits
<1>4. sib \in Byte
  BY <1>3, SibFields
<1>5. \A n \in 0 .. 7 : 64 * mod + n \in Byte /\ 64 * mod + n \in 0 .. 199
  BY <1>1 DEF Byte
<1>6. form = start \o disp
  BY <1>1
<1>7. p + 1 \in Nat
  OBVIOUS
<1> HIDE DEF disp, sib
<1>8. CASE m.index = NONE /\ low # 4 /\ start = <<64 * mod + low>>
  <2>1. PICK lead \in Byte : lead = 64 * mod + low /\ lead \in 0 .. 199
    BY <1>3, <1>5
  <2>2. form = <<lead>> \o disp
    BY <1>6, <1>8, <2>1
  <2>3. /\ form \in Seq(Byte) /\ form # <<>> /\ form[1] = lead /\ Tail(form) = disp
        /\ Len(form) = 1 + Len(disp)
    BY ONLY <1>2, <2>2, FormStart
  <2>4. At(c, p) = (64 * mod + low) + 8 * Low3(reg) /\ Has(c, p + 1, disp)
    BY <2>1, <2>3, Zenon DEF FormAt
  <2>5. /\ DecodeMemory(c, p + 1, rex, mod, low).p = (p + 1) + Len(disp)
        /\ DecodeMemory(c, p + 1, rex, mod, low).mem = m
    BY <1>7, <1>8, <2>4, BaseRead DEF disp, IsRip
  <2>6. ReadsMemory(c, p, rex, reg, mod, low)
    BY <1>1, <1>3, <2>4, MemoryModRM
  <2>7. (p + 1) + Len(disp) = p + Len(form)
    BY <1>2, <2>3
  <2> QED
    BY <2>1, <2>3, <2>5, <2>6, <2>7, MemIndex DEF FormRead, ReadsMemory
<1>9. CASE start = <<64 * mod + 4, sib>>
  <2>1. PICK lead \in Byte : lead = 64 * mod + 4 /\ lead \in 0 .. 199
    <3>1. 4 \in 0 .. 7
      OBVIOUS
    <3> QED
      BY <1>5, <3>1
  <2>2. form = <<lead, sib>> \o disp
    BY <1>6, <1>9, <2>1
  <2>3. /\ form \in Seq(Byte) /\ form # <<>> /\ form[1] = lead /\ Tail(form) = <<sib>> \o disp
        /\ Len(form) = 2 + Len(disp)
    BY ONLY <1>2, <1>4, <2>2, FormStartTwo
  <2>4. PICK rm : rm = 4
    OBVIOUS
  <2>5. At(c, p) = (64 * mod + rm) + 8 * Low3(reg) /\ Has(c, p + 1, <<sib>> \o disp)
    BY <2>1, <2>3, <2>4, Zenon DEF FormAt
  <2>6. <<sib>> \in Seq(Byte) /\ Len(<<sib>>) = 1
    BY <1>4, OneByteSeq
  <2>7. Has(c, p + 1, <<sib>>) /\ Has(c, (p + 1) + Len(<<sib>>), disp)
    BY <1>2, <1>7, <2>5, <2>6, HasConcat
  <2>8. At(c, p + 1) = sib /\ Has(c, (p + 1) + 1, disp)
    BY <1>7, <2>6, <2>7, HasOne
  <2>9. /\ DecodeMemory(c, p + 1, rex, mod, rm).p = (p + 1) + 1 + Len(disp)
        /\ m.index # 12 => DecodeMemory(c, p + 1, rex, mod, rm).mem = m
    <3>1. PICK next \in Nat : next = p + 1
      BY <1>7
    <3>2. At(c, next) = SibByte(m, Low3(m.base)) /\ Has(c, next + 1, Displacement(mod, m.disp))
      BY <2>8, <3>1, Zenon DEF disp, sib
    <3>3. next \in Nat /\ mod \in Mods(m)
      BY <1>1, <3>1
    <3>4. /\ DecodeMemory(c, next, rex, mod, rm).p = next + 1 + Len(Displacement(mod, m.disp))
          /\ m.index # 12 => DecodeMemory(c, next, rex, mod, rm).mem = m
      BY <2>4, <3>2, <3>3, SibRead DEF IsRip
    <3> QED
      BY <3>1, <3>4, Zenon DEF disp
  <2>10. rm \in 0 .. 7
    BY <2>4
  <2>11. mod \in 0 .. 2
    BY <1>1
  <2>12. ReadsMemory(c, p, rex, reg, mod, rm)
    BY <2>5, <2>10, <2>11, MemoryModRM
  <2>13. (p + 1) + 1 + Len(disp) = p + Len(form)
    <3>1. PICK n \in Nat : n = Len(disp)
      BY <1>2
    <3>2. Len(form) = 2 + n
      BY <2>3, <3>1
    <3>3. (p + 1) + 1 + n = p + (2 + n)
      BY SMT
    <3> QED
      BY <3>1, <3>2, <3>3, Zenon
  <2> QED
    BY <2>1, <2>3, <2>9, <2>12, <2>13, MemIndex DEF FormRead, ReadsMemory
<1> QED
  BY <1>1, <1>8, <1>9 DEF sib

\* Every form of every operand is read as the operand, and ends where it ends.
LEMMA OperandRead ==
  ASSUME NEW c \in Seq(Byte), NEW p \in Nat, NEW rex, NEW reg \in Register,
         NEW op \in RegOperand \cup MemOperand, NEW form \in RmForms(op),
         FormAt(c, p, form, reg), RexFits(rex, reg, op)
  PROVE FormRead(c, p, rex, reg, op, form)
<1>1. CASE op \in RegOperand
  BY <1>1, RegisterForm
<1>2. CASE op \in MemOperand
  <2>1. PICK m \in Address : op = XMem(m) /\ m = op[2] /\ IsMem(op) /\ ~IsReg(op)
    BY <1>2, Operands
  <2>2. R(rex) = High(reg) /\ X(rex) = High(m.index) /\ B(rex) = High(m.base)
    BY <2>1, Zenon DEF RexFits
  <2>6. m \in Address
    BY <2>1
  <2>3. CASE IsRip(m)
    <3>1. form = << 5 >> \o LittleEndian(m.disp, 4)
      BY <2>1, <2>3 DEF RmForms, IsRip
    <3>2. FormRead(c, p, rex, reg, XMem(m), form)
      BY <2>6, <2>2, <2>3, <3>1, RipForm
    <3> QED
      BY <2>1, <3>2
  <2>4. CASE ~IsRip(m) /\ m.base = NONE
    <3>1. form = <<4, SibByte(m, 5)>> \o LittleEndian(m.disp, 4)
      BY <2>1, <2>4 DEF RmForms, IsRip
    <3>2. FormRead(c, p, rex, reg, XMem(m), form)
      BY <2>6, <2>2, <2>4, <3>1, AbsoluteForm
    <3> QED
      BY <2>1, <3>2
  <2>5. CASE ~IsRip(m) /\ m.base # NONE
    <3>1. PICK start \in BaseForms(m) :
            form = start \o Displacement(start[1] \div 64, m.disp)
      BY <2>1, <2>5 DEF RmForms, IsRip
    <3>2. FormRead(c, p, rex, reg, XMem(m), form)
      BY <2>6, <2>2, <2>5, <3>1, BaseForm
    <3> QED
      BY <2>1, <3>2
  <2> QED
    BY <2>3, <2>4, <2>5
<1> QED
  BY <1>1, <1>2

-----------------------------------------------------------------------------
(* Opcodes: which alternative of DecodeOpcode each one takes.              *)
LEMMA BinaryOpcodes ==
  /\ DOMAIN Binary = {1, 9, 33, 41, 49, 57, 137}
  /\ \A m \in DOMAIN BinaryOpcode : BinaryOpcode[m] \in DOMAIN Binary
                                      /\ Binary[BinaryOpcode[m]] = m
<1>1. DOMAIN Binary = {1, 9, 33, 41, 49, 57, 137}
  BY DEF Binary
<1>2. /\ Binary[1] = "ADD" /\ Binary[9] = "OR" /\ Binary[33] = "AND" /\ Binary[41] = "SUB"
      /\ Binary[49] = "XOR" /\ Binary[57] = "CMP" /\ Binary[137] = "MOV"
  BY DEF Binary
<1> QED
  BY <1>1, <1>2 DEF BinaryOpcode

\* Which alternatives of DecodeOpcode an opcode does not take.
NotSingle(op) ==
  op # 199 /\ op # 144 /\ op # 195 /\ op # 232 /\ op # 233 /\ op # 235 /\ op # 15

LEMMA PushOp ==
  ASSUME NEW c, NEW p, NEW rex, NEW op \in 80 .. 87
  PROVE DecodeOpcode(c, p, rex, op) = XInst("PUSH", <<XReg(RegFromBits(op, B(rex)))>>, p)
<1>1. op \notin 88 .. 95 /\ op \notin 112 .. 127 /\ op \notin 184 .. 191
  BY SMT
<1>2. op \notin DOMAIN Binary /\ op - 2 \notin DOMAIN Binary
  BY BinaryOpcodes, SMT
<1>3. NotSingle(op)
  BY SMT DEF NotSingle
<1> QED
  BY <1>1, <1>2, <1>3, Zenon DEF DecodeOpcode, NotSingle

LEMMA PopOp ==
  ASSUME NEW c, NEW p, NEW rex, NEW op \in 88 .. 95
  PROVE DecodeOpcode(c, p, rex, op) = XInst("POP", <<XReg(RegFromBits(op, B(rex)))>>, p)
<1>1. op \notin 80 .. 87 /\ op \notin 112 .. 127 /\ op \notin 184 .. 191
  BY SMT
<1>2. op \notin DOMAIN Binary /\ op - 2 \notin DOMAIN Binary
  BY BinaryOpcodes, SMT
<1>3. NotSingle(op)
  BY SMT DEF NotSingle
<1> QED
  BY <1>1, <1>2, <1>3, Zenon DEF DecodeOpcode, NotSingle

LEMMA JccOp ==
  ASSUME NEW c, NEW p, NEW rex, NEW op \in 112 .. 127
  PROVE DecodeOpcode(c, p, rex, op) = BranchRel8(c, p, JccName[op - 111])
<1>1. op \notin 80 .. 87 /\ op \notin 88 .. 95 /\ op \notin 184 .. 191
  BY SMT
<1>2. op \notin DOMAIN Binary /\ op - 2 \notin DOMAIN Binary
  BY BinaryOpcodes, SMT
<1>3. NotSingle(op)
  BY SMT DEF NotSingle
<1> QED
  BY <1>1, <1>2, <1>3, Zenon DEF DecodeOpcode, NotSingle

LEMMA MoveOp ==
  ASSUME NEW c, NEW p, NEW rex, NEW op \in 184 .. 191
  PROVE DecodeOpcode(c, p, rex, op) = MoveImmediate(c, p, XReg(RegFromBits(op, B(rex))), W(rex))
<1>1. op \notin 80 .. 87 /\ op \notin 88 .. 95 /\ op \notin 112 .. 127
  BY SMT
<1>2. op \notin DOMAIN Binary /\ op - 2 \notin DOMAIN Binary
  BY BinaryOpcodes, SMT
<1>3. NotSingle(op)
  BY SMT DEF NotSingle
<1> QED
  BY <1>1, <1>2, <1>3, Zenon DEF DecodeOpcode, NotSingle

LEMMA BinaryToRm ==
  ASSUME NEW c, NEW p, NEW rex, NEW op \in {1, 9, 33, 41, 49, 57, 137}
  PROVE DecodeOpcode(c, p, rex, op) = BinaryRmReg(Binary[op], DecodeModRM(c, p, rex))
<1>1. op \notin 80 .. 87 /\ op \notin 88 .. 95 /\ op \notin 112 .. 127 /\ op \notin 184 .. 191
  BY SMT
<1>2. op \in DOMAIN Binary /\ op - 2 \notin DOMAIN Binary
  BY BinaryOpcodes, SMT
<1>3. NotSingle(op)
  BY SMT DEF NotSingle
<1> QED
  BY <1>1, <1>2, <1>3, Zenon DEF DecodeOpcode, NotSingle

LEMMA BinaryToReg ==
  ASSUME NEW c, NEW p, NEW rex, NEW op, op - 2 \in {1, 9, 33, 41, 49, 57, 137}, op \in Int
  PROVE DecodeOpcode(c, p, rex, op) = BinaryRegRm(Binary[op - 2], DecodeModRM(c, p, rex))
<1>1. op \notin 80 .. 87 /\ op \notin 88 .. 95 /\ op \notin 112 .. 127 /\ op \notin 184 .. 191
  BY SMT
<1>2. op \notin DOMAIN Binary /\ op - 2 \in DOMAIN Binary
  BY BinaryOpcodes, SMT
<1>3. NotSingle(op)
  BY SMT DEF NotSingle
<1> QED
  BY <1>1, <1>2, <1>3, Zenon DEF DecodeOpcode, NotSingle

LEMMA BinaryOp ==
  ASSUME NEW c, NEW p, NEW rex, NEW op \in {1, 9, 33, 41, 49, 57, 137}
  PROVE /\ DecodeOpcode(c, p, rex, op) = BinaryRmReg(Binary[op], DecodeModRM(c, p, rex))
        /\ DecodeOpcode(c, p, rex, op + 2) = BinaryRegRm(Binary[op], DecodeModRM(c, p, rex))
<1>1. PICK next \in Int : next = op + 2 /\ next - 2 = op
  BY SMT
<1>2. DecodeOpcode(c, p, rex, next) = BinaryRegRm(Binary[next - 2], DecodeModRM(c, p, rex))
  BY <1>1, BinaryToReg
<1>3. DecodeOpcode(c, p, rex, op + 2) = BinaryRegRm(Binary[op], DecodeModRM(c, p, rex))
  BY <1>1, <1>2, Zenon
<1> QED
  BY <1>3, BinaryToRm

LEMMA RegisterOp ==
  ASSUME NEW c, NEW p, NEW rex, NEW n \in 0 .. 7
  PROVE /\ DecodeOpcode(c, p, rex, 80 + n) = XInst("PUSH", <<XReg(RegFromBits(80 + n, B(rex)))>>, p)
        /\ DecodeOpcode(c, p, rex, 88 + n) = XInst("POP", <<XReg(RegFromBits(88 + n, B(rex)))>>, p)
        /\ DecodeOpcode(c, p, rex, 184 + n) =
             MoveImmediate(c, p, XReg(RegFromBits(184 + n, B(rex))), W(rex))
<1>1. 80 + n \in 80 .. 87 /\ 88 + n \in 88 .. 95 /\ 184 + n \in 184 .. 191
  BY SMT
<1>2. DecodeOpcode(c, p, rex, 80 + n) = XInst("PUSH", <<XReg(RegFromBits(80 + n, B(rex)))>>, p)
  BY <1>1, PushOp, Zenon
<1>3. DecodeOpcode(c, p, rex, 88 + n) = XInst("POP", <<XReg(RegFromBits(88 + n, B(rex)))>>, p)
  BY <1>1, PopOp, Zenon
<1>4. DecodeOpcode(c, p, rex, 184 + n) =
        MoveImmediate(c, p, XReg(RegFromBits(184 + n, B(rex))), W(rex))
  BY <1>1, MoveOp, Zenon
<1> QED
  BY <1>2, <1>3, <1>4

LEMMA BranchOp ==
  ASSUME NEW c, NEW p, NEW rex, NEW n \in 0 .. 15
  PROVE /\ DecodeOpcode(c, p, rex, 112 + n) = BranchRel8(c, p, JccName[n + 1])
        /\ DecodeOpcode(c, p, rex, 232) = BranchRel32(c, p, "CALL")
        /\ DecodeOpcode(c, p, rex, 233) = BranchRel32(c, p, "JMP")
        /\ DecodeOpcode(c, p, rex, 235) = BranchRel8(c, p, "JMP")
<1>1. 112 + n \in 112 .. 127 /\ (112 + n) - 111 = n + 1
  BY SMT
<1>2. DecodeOpcode(c, p, rex, 112 + n) = BranchRel8(c, p, JccName[n + 1])
  BY <1>1, JccOp, Zenon
<1>3. DecodeOpcode(c, p, rex, 232) = BranchRel32(c, p, "CALL")
  BY BinaryOpcodes DEF DecodeOpcode
<1>4. DecodeOpcode(c, p, rex, 233) = BranchRel32(c, p, "JMP")
  BY BinaryOpcodes DEF DecodeOpcode
<1>5. DecodeOpcode(c, p, rex, 235) = BranchRel8(c, p, "JMP")
  BY BinaryOpcodes DEF DecodeOpcode
<1> QED
  BY <1>2, <1>3, <1>4, <1>5

LEMMA OtherOp ==
  ASSUME NEW c, NEW p, NEW rex
  PROVE /\ DecodeOpcode(c, p, rex, 199) = StoreImmediate(c, DecodeModRM(c, p, rex))
        /\ DecodeOpcode(c, p, rex, 144) = XInst("NOP", <<>>, p)
        /\ DecodeOpcode(c, p, rex, 195) = XInst("RET", <<>>, p)
        /\ DecodeOpcode(c, p, rex, 15) = DecodeSecond(c, p)
        /\ DecodeOpcode(c, p, rex, 204) = Throws
        /\ DecodeOpcode(c, p, rex, 0) = Throws
BY BinaryOpcodes DEF DecodeOpcode

-----------------------------------------------------------------------------
(* Encodings: where the opcode is, and what its operands are.              *)
LEMMA FormBytes ==
  ASSUME NEW op \in RegOperand \cup MemOperand, NEW form \in RmForms(op)
  PROVE form \in Seq(Byte) /\ form # <<>> /\ form[1] \in 0 .. 199
<1>1. CASE op \in RegOperand
  <2>1. op[2] \in Register /\ IsReg(op)
    BY <1>1, Operands
  <2>2. form = <<192 + Low3(op[2])>> /\ Low3(op[2]) \in 0 .. 7
    BY <2>1, RegisterBits DEF RmForms
  <2>3. \A low \in 0 .. 7 : 192 + low \in Byte /\ 192 + low \in 0 .. 199
    BY DEF Byte
  <2> QED
    BY <2>2, <2>3, OneByteSeq
<1>2. CASE op \in MemOperand
  <2>1. PICK m \in Address : m = op[2] /\ ~IsReg(op)
    BY <1>2, Operands
  <2>2. m.disp \in Int /\ LittleEndian(m.disp, 4) \in Seq(Byte)
    BY <2>1, AddressParts, WordIsInteger, LittleEndianBytes
  <2>3. CASE IsRip(m)
    <3>1. form = << 5 >> \o LittleEndian(m.disp, 4) /\ 5 \in Byte
      BY <2>1, <2>3 DEF RmForms, IsRip, Byte
    <3>2. form \in Seq(Byte) /\ form # <<>> /\ form[1] = 5
      BY <2>2, <3>1, FormStart
    <3> QED
      BY <3>2
  <2>4. CASE ~IsRip(m) /\ m.base = NONE
    <3>1. form = <<4, SibByte(m, 5)>> \o LittleEndian(m.disp, 4)
      BY <2>1, <2>4 DEF RmForms, IsRip
    <3>2. 4 \in Byte /\ SibByte(m, 5) \in Byte
      BY <2>1, SibFields DEF Byte
    <3>3. form \in Seq(Byte) /\ form # <<>> /\ form[1] = 4
      BY <2>2, <3>1, <3>2, FormStartTwo
    <3> QED
      BY <3>3
  <2>5. CASE ~IsRip(m) /\ m.base # NONE
    <3>1. PICK start \in BaseForms(m) :
            form = start \o Displacement(start[1] \div 64, m.disp)
      BY <2>1, <2>5 DEF RmForms, IsRip
    <3>2. PICK mod \in Mods(m) :
            /\ mod \in 0 .. 2 /\ start[1] \div 64 = mod
            /\ \/ m.index = NONE /\ Low3(m.base) # 4 /\ start = <<64 * mod + Low3(m.base)>>
               \/ start = <<64 * mod + 4, SibByte(m, Low3(m.base))>>
      BY <2>5, BaseFormShape
    <3>3. Low3(m.base) \in 0 .. 7 /\ 4 \in 0 .. 7
      BY <2>5, AddressParts, RegisterBits
    <3>4. \A n \in 0 .. 7 : 64 * mod + n \in Byte /\ 64 * mod + n \in 0 .. 199
      BY <3>2 DEF Byte
    <3>5. SibByte(m, Low3(m.base)) \in Byte
      BY <3>3, SibFields
    <3>6. Displacement(mod, m.disp) \in Seq(Byte) /\ form = start \o Displacement(mod, m.disp)
      BY <3>1, <3>2, DisplacementBytes
    <3>7. start \in Seq(Byte) /\ start # <<>> /\ start[1] \in 0 .. 199
      <4>1. CASE start = <<64 * mod + Low3(m.base)>>
        BY <4>1, <3>3, <3>4
      <4>2. CASE start = <<64 * mod + 4, SibByte(m, Low3(m.base))>>
        BY <4>2, <3>3, <3>4, <3>5
      <4> QED
        BY <3>2, <4>1, <4>2
    <3> QED
      BY <3>6, <3>7, TailConcat, ConcatProperties
  <2> QED
    BY <2>3, <2>4, <2>5
<1> QED
  BY <1>1, <1>2

\* In c, the instruction at p has its opcode at e, after prefixes that carry these bits.
OpcodeFound(c, p, e, w, reg, index, base) ==
  /\ e \in Nat /\ p <= e /\ e < Len(c)
  /\ \A k \in p .. e - 1 : PrefixByte(At(c, k))
  /\ ~PrefixByte(At(c, e))
  /\ RexIs(c, p, e, w, reg, index, base)

\* Prefixes that do not change the instruction.
IdlePrefix == {<<>>, << 102 >>, << 240 >>, << 243 >>}

LEMMA RexBytes ==
  ASSUME NEW w \in {0, 1}, NEW reg \in Int, NEW index \in Int, NEW base \in Int
  PROVE /\ Rex(w, reg, index, base) \in Seq(Byte) /\ Len(Rex(w, reg, index, base)) \in Nat
        /\ \A k \in 1 .. Len(Rex(w, reg, index, base)) :
             IsRex(Rex(w, reg, index, base)[k])
<1> DEFINE bits == 8 * w + 4 * High(reg) + 2 * High(index) + High(base)
<1>1. bits \in 0 .. 15
  BY DEF High
<1>2. Rex(w, reg, index, base) = IF bits = 0 THEN <<>> ELSE <<64 + bits>>
  BY DEF Rex
<1>3. 64 + bits \in Byte /\ IsRex(64 + bits)
  BY <1>1 DEF Byte, IsRex
<1> HIDE DEF bits
<1>4. CASE bits = 0
  BY <1>2, <1>4
<1>5. CASE bits # 0
  BY <1>2, <1>3, <1>5
<1> QED
  BY <1>4, <1>5

LEMMA IdleByte == ASSUME NEW b \in {102, 240, 243} PROVE PrefixByte(b) /\ ~IsRex(b)
<1>1. b = 102 \/ b = 240 \/ b = 243
  OBVIOUS
<1>2. CASE b = 102
  BY <1>2 DEF PrefixByte, IsRex
<1>3. CASE b = 240
  BY <1>3 DEF PrefixByte, IsRex
<1>4. CASE b = 243
  BY <1>4 DEF PrefixByte, IsRex
<1> QED
  BY <1>1, <1>2, <1>3, <1>4

LEMMA Opening ==
  ASSUME NEW c \in Seq(Byte), NEW p \in Nat, NEW idle \in IdlePrefix, Has(c, p, idle),
         NEW w \in {0, 1}, NEW reg \in Int, NEW index \in Int, NEW base \in Int,
         Has(c, p + Len(idle), Rex(w, reg, index, base)),
         NEW e, e = p + Len(idle) + Len(Rex(w, reg, index, base)),
         e < Len(c), ~PrefixByte(At(c, e))
  PROVE OpcodeFound(c, p, e, w, reg, index, base)
<1>1. idle \in Seq(Byte) /\ Len(idle) \in Nat
  <2>1. CASE idle = <<>>
    BY <2>1
  <2>2. CASE idle # <<>>
    <3>1. PICK b \in {102, 240, 243} : idle = <<b>>
      BY <2>2 DEF IdlePrefix
    <3>2. b \in Byte
      BY <3>1 DEF Byte
    <3> QED
      BY <3>1, <3>2, OneByteSeq
  <2> QED
    BY <2>1, <2>2
<1>2. ASSUME NEW k \in p .. p + Len(idle) - 1 PROVE PrefixByte(At(c, k)) /\ ~IsRex(At(c, k))
  <2>1. CASE idle = <<>>
    BY <2>1
  <2>2. CASE idle # <<>>
    <3>1. PICK b \in {102, 240, 243} : idle = <<b>>
      BY <2>2 DEF IdlePrefix
    <3>2. At(c, p) = b /\ k = p
      BY <3>1, HasOne
    <3>3. PrefixByte(b) /\ ~IsRex(b)
      BY <3>1, IdleByte
    <3> QED
      BY <3>2, <3>3, Zenon
  <2> QED
    BY <2>1, <2>2
<1>3. Rex(w, reg, index, base) \in Seq(Byte) /\ Len(Rex(w, reg, index, base)) \in Nat
  BY RexBytes
<1>4. e \in Nat /\ p <= e
  BY <1>1, <1>3
<1>5. RexIs(c, p, e, w, reg, index, base)
  <2>1. PICK n \in Nat : n = Len(idle)
    BY <1>1
  <2>2. \A k \in p .. p + n - 1 : PrefixByte(At(c, k)) /\ ~IsRex(At(c, k))
    BY <1>2, <2>1
  <2>3. Has(c, p + n, Rex(w, reg, index, base)) /\ e = p + n + Len(Rex(w, reg, index, base))
    BY <2>1
  <2> QED
    BY <1>4, <2>1, <2>2, <2>3, RexRead, Zenon
<1>6. ASSUME NEW k \in p .. e - 1 PROVE PrefixByte(At(c, k))
  <2>1. CASE k < p + Len(idle)
    BY <1>1, <1>2, <2>1
  <2>2. CASE k >= p + Len(idle)
    <3>1. (k - (p + Len(idle))) + 1 \in 1 .. Len(Rex(w, reg, index, base))
      BY <1>1, <1>3, <2>2
    <3>2. (p + Len(idle)) + ((k - (p + Len(idle))) + 1) - 1 = k
      BY <1>1
    <3>3. At(c, k) = Rex(w, reg, index, base)[(k - (p + Len(idle))) + 1]
      BY <3>1, <3>2 DEF Has
    <3>4. IsRex(At(c, k))
      BY <3>1, <3>3, RexBytes
    <3> QED
      BY <3>4 DEF PrefixByte
  <2> QED
    BY <1>1, <2>1, <2>2
<1> QED
  BY <1>4, <1>5, <1>6, Zenon DEF OpcodeFound, RexIs

\* The REX byte of an instruction with these operands.
LEMMA RexOfOperands ==
  ASSUME NEW reg \in Register, NEW op \in RegOperand \cup MemOperand
  PROVE \E index \in Int, base \in Int :
          /\ RexOf(reg, op) = Rex(1, reg, index, base)
          /\ IsReg(op) => base = op[2]
          /\ IsMem(op) => index = op[2].index /\ base = op[2].base
<1>1. CASE op \in RegOperand
  <2>1. IsReg(op) /\ ~IsMem(op) /\ op[2] \in Int /\ 0 \in Int
    BY <1>1, Operands DEF Register
  <2> QED
    BY <2>1 DEF RexOf
<1>2. CASE op \in MemOperand
  <2>1. ~IsReg(op) /\ op[2] \in Address
    BY <1>2, Operands
  <2>2. op[2].index \in Int /\ op[2].base \in Int
    BY <2>1, AddressParts DEF Register, NONE
  <2> QED
    BY <2>1, <2>2 DEF RexOf
<1> QED
  BY <1>1, <1>2

LEMMA ModRMShape ==
  ASSUME NEW reg \in Register, NEW op \in RegOperand \cup MemOperand, NEW opcode \in Byte,
         NEW code \in ModRMForms(opcode, reg, op)
  PROVE \E form \in RmForms(op) :
          /\ RexOf(reg, op) \in Seq(Byte)
          /\ <<opcode, form[1] + 8 * Low3(reg)>> \in Seq(Byte)
          /\ Tail(form) \in Seq(Byte) /\ Len(form) \in Nat /\ Len(Tail(form)) = Len(form) - 1
          /\ code = (RexOf(reg, op) \o <<opcode, form[1] + 8 * Low3(reg)>>) \o Tail(form)
          /\ code \in Seq(Byte) /\ Len(code) = Len(RexOf(reg, op)) + 1 + Len(form)
<1>1. PICK form \in RmForms(op) :
        code = (RexOf(reg, op) \o <<opcode, form[1] + 8 * Low3(reg)>>) \o Tail(form)
  BY DEF ModRMForms
<1>2. form \in Seq(Byte) /\ form # <<>> /\ form[1] \in 0 .. 199
  BY FormBytes
<1>3. form[1] + 8 * Low3(reg) \in Byte
  <2>1. Low3(reg) \in 0 .. 7
    BY RegisterBits
  <2>2. PICK first \in 0 .. 199, low \in 0 .. 7 : first = form[1] /\ low = Low3(reg)
    BY <1>2, <2>1
  <2>3. first + 8 * low \in Byte
    BY SMT DEF Byte
  <2> QED
    BY <2>2, <2>3, Zenon
<1>4. PICK second \in Byte : second = form[1] + 8 * Low3(reg)
  BY <1>3
<1>5. <<opcode, second>> \in Seq(Byte) /\ Len(<<opcode, second>>) = 2
  BY TwoByteSeq
<1>6. Tail(form) \in Seq(Byte) /\ Len(form) \in Nat /\ Len(Tail(form)) = Len(form) - 1
  BY <1>2, HeadTailProperties, LenProperties
<1>7. RexOf(reg, op) \in Seq(Byte) /\ Len(RexOf(reg, op)) \in Nat
  <2>1. PICK index \in Int, base \in Int : RexOf(reg, op) = Rex(1, reg, index, base)
    BY RexOfOperands
  <2>2. reg \in Int /\ 1 \in {0, 1}
    BY DEF Register
  <2> QED
    BY <2>1, <2>2, RexBytes
<1>8. /\ RexOf(reg, op) \o <<opcode, second>> \in Seq(Byte)
      /\ Len(RexOf(reg, op) \o <<opcode, second>>) = Len(RexOf(reg, op)) + 2
  BY <1>5, <1>7, ConcatProperties
<1>9. /\ code \in Seq(Byte)
      /\ Len(code) = Len(RexOf(reg, op) \o <<opcode, second>>) + Len(Tail(form))
  BY <1>1, <1>4, <1>6, <1>8, ConcatProperties
<1>10. Len(code) = Len(RexOf(reg, op)) + 1 + Len(form)
  BY <1>6, <1>7, <1>8, <1>9
<1> QED
  BY <1>1, <1>4, <1>5, <1>6, <1>7, <1>9, <1>10

\* In c, the instruction at p has opcode, a register operand and op, up to end.
ModRMFound(c, p, e, opcode, reg, op, end) ==
  /\ e \in Nat /\ p <= e /\ e < end
  /\ \A k \in p .. e - 1 : PrefixByte(At(c, k))
  /\ ~PrefixByte(At(c, e)) /\ At(c, e) = opcode
  /\ DecodeModRM(c, e + 1, LastRex(c, p, e)).reg = XReg(reg)
  /\ (IsMem(op) => op[2].index # 12) => DecodeModRM(c, e + 1, LastRex(c, p, e)).rm = op
  /\ DecodeModRM(c, e + 1, LastRex(c, p, e)).p = end

LEMMA ModRMEncoding ==
  ASSUME NEW c \in Seq(Byte), NEW p \in Nat, NEW idle \in IdlePrefix, Has(c, p, idle),
         NEW reg \in Register, NEW op \in RegOperand \cup MemOperand,
         NEW opcode \in Byte, ~PrefixByte(opcode),
         NEW code \in ModRMForms(opcode, reg, op), Has(c, p + Len(idle), code),
         NEW end, end = p + Len(idle) + Len(code)
  PROVE \E e : ModRMFound(c, p, e, opcode, reg, op, end)
<1>1. PICK form \in RmForms(op) :
          /\ RexOf(reg, op) \in Seq(Byte)
          /\ <<opcode, form[1] + 8 * Low3(reg)>> \in Seq(Byte)
          /\ Tail(form) \in Seq(Byte) /\ Len(form) \in Nat /\ Len(Tail(form)) = Len(form) - 1
          /\ code = (RexOf(reg, op) \o <<opcode, form[1] + 8 * Low3(reg)>>) \o Tail(form)
          /\ code \in Seq(Byte) /\ Len(code) = Len(RexOf(reg, op)) + 1 + Len(form)
  BY ModRMShape
<1>2. PICK index \in Int, base \in Int :
          /\ RexOf(reg, op) = Rex(1, reg, index, base)
          /\ IsReg(op) => base = op[2]
          /\ IsMem(op) => index = op[2].index /\ base = op[2].base
  BY RexOfOperands
<1>3. PICK second : second = form[1] + 8 * Low3(reg)
  OBVIOUS
<1>4. PICK rex : rex = RexOf(reg, op)
  OBVIOUS
<1>5. PICK q \in Nat : q = p + Len(idle)
  BY DEF IdlePrefix
<1>6. PICK e \in Nat : e = q + Len(rex)
  <2>1. Len(rex) \in Nat
    BY <1>1, <1>4, LenProperties
  <2> QED
    BY <1>5, <2>1
<1>7. Has(c, q, rex \o <<opcode, second>>) /\ Has(c, q + Len(rex \o <<opcode, second>>), Tail(form))
  <2>1. rex \in Seq(Byte) /\ <<opcode, second>> \in Seq(Byte) /\ Tail(form) \in Seq(Byte)
    BY <1>1, <1>3, <1>4
  <2>2. rex \o <<opcode, second>> \in Seq(Byte)
    BY <2>1, ConcatProperties
  <2>3. Has(c, q, (rex \o <<opcode, second>>) \o Tail(form))
    BY <1>1, <1>3, <1>4, <1>5
  <2> QED
    BY <1>5, <2>1, <2>2, <2>3, HasConcat
<1>8. Has(c, q, rex) /\ Has(c, e, <<opcode, second>>)
  BY <1>1, <1>3, <1>4, <1>5, <1>6, <1>7, HasConcat
<1>9. q + Len(rex \o <<opcode, second>>) = (e + 1) + 1
  <2>1. Len(rex \o <<opcode, second>>) = Len(rex) + Len(<<opcode, second>>)
    BY <1>1, <1>3, <1>4, ConcatProperties
  <2>2. Len(<<opcode, second>>) = 2 /\ Len(rex) \in Nat
    BY <1>1, <1>4, LenProperties
  <2> QED
    BY <1>5, <1>6, <2>1, <2>2
<1>10. At(c, e) = opcode /\ At(c, e + 1) = second /\ e < Len(c)
  <2>1. At(c, e) = opcode /\ At(c, e + 1) = second /\ e + 2 <= Len(c)
    BY <1>6, <1>8, HasTwo
  <2> QED
    BY <1>6, <2>1, LenProperties
<1>11. OpcodeFound(c, p, e, 1, reg, index, base)
  <2>1. e = p + Len(idle) + Len(Rex(1, reg, index, base))
    BY <1>2, <1>4, <1>5, <1>6
  <2>2. Has(c, p + Len(idle), Rex(1, reg, index, base)) /\ ~PrefixByte(At(c, e))
    BY <1>2, <1>4, <1>5, <1>8, <1>10
  <2>3. reg \in Int
    BY DEF Register
  <2>4. PICK w \in {0, 1} : w = 1
    OBVIOUS
  <2>5. OpcodeFound(c, p, e, w, reg, index, base)
    BY <1>2, <1>10, <2>1, <2>2, <2>3, <2>4, Opening
  <2> QED
    BY <2>4, <2>5
<1>12. RexFits(LastRex(c, p, e), reg, op)
  BY <1>2, <1>11, Zenon DEF OpcodeFound, RexIs, RexFits
<1>13. FormAt(c, e + 1, form, reg)
  BY <1>3, <1>7, <1>9, <1>10 DEF FormAt
<1>14. FormRead(c, e + 1, LastRex(c, p, e), reg, op, form)
  BY <1>1, <1>6, <1>12, <1>13, OperandRead
<1>15. end = (e + 1) + Len(form) /\ e < end
  <2>1. Len(rex) \in Nat
    BY <1>1, <1>4, LenProperties
  <2> QED
    BY <1>1, <1>4, <1>5, <1>6, <2>1
<1> QED
  BY <1>10, <1>11, <1>14, <1>15 DEF FormRead, OpcodeFound, ModRMFound

-----------------------------------------------------------------------------
(* Instructions: each encoding of each one is read as the instruction.     *)
MeantName(x) == IF x.mnemonic = "Jcc" THEN JccName[x.cc + 1] ELSE x.mnemonic

\* The result r of decoding is instruction x, which ends at end.
ReadsAs(r, x, end) ==
  IF Supported(x)
  THEN /\ r.ok /\ r.end = end /\ r.mnemonic = MeantName(x)
       /\ ReadsOperands(x) => r.ops = x.ops
  ELSE r = Throws

InstructionAt(c, p, x, end) ==
  \E e \in Nat :
    /\ p <= e /\ e < end
    /\ \A k \in p .. e - 1 : PrefixByte(At(c, k))
    /\ ~PrefixByte(At(c, e))
    /\ ReadsAs(DecodeOpcode(c, e + 1, LastRex(c, p, e), At(c, e)), x, end)

LEMMA MemoryOperand ==
  ASSUME NEW x, ReadsOperands(x), NEW k \in 1 .. Len(x.ops), IsMem(x.ops[k])
  PROVE x.ops[k][2].index # 12
<1>1. x.ops[k][2] \in MemoryOf(x)
  BY DEF MemoryOf
<1> QED
  BY <1>1 DEF ReadsOperands

LEMMA PairOfOperands ==
  ASSUME NEW x, NEW dst, NEW src, x.ops = <<dst, src>>, ReadsOperands(x)
  PROVE /\ IsMem(dst) => dst[2].index # 12
        /\ IsMem(src) => src[2].index # 12
<1>1. /\ Len(x.ops) = 2 /\ x.ops[1] = dst /\ x.ops[2] = src
      /\ 1 \in 1 .. Len(x.ops) /\ 2 \in 1 .. Len(x.ops)
  OBVIOUS
<1> QED
  BY <1>1, MemoryOperand

LEMMA BinaryRmFound ==
  ASSUME NEW c, NEW p, NEW e, NEW end, NEW x, NEW dst, NEW src, NEW r, src = XReg(r),
         x.ops = <<dst, src>>, x.mnemonic \in DOMAIN BinaryOpcode,
         ModRMFound(c, p, e, BinaryOpcode[x.mnemonic], r, dst, end)
  PROVE InstructionAt(c, p, x, end)
<1> DEFINE op == BinaryOpcode[x.mnemonic]
           m == DecodeModRM(c, e + 1, LastRex(c, p, e))
<1>1. op \in {1, 9, 33, 41, 49, 57, 137} /\ Binary[op] = x.mnemonic
  BY BinaryOpcodes
<1>2. DecodeOpcode(c, e + 1, LastRex(c, p, e), At(c, e)) = BinaryRmReg(x.mnemonic, m)
  BY <1>1, BinaryOp DEF ModRMFound
<1>3. Supported(x) /\ MeantName(x) = x.mnemonic
  BY DEF BinaryOpcode, Supported, MeantName
<1>4. m.reg = src /\ m.p = end /\ (ReadsOperands(x) => m.rm = dst)
  BY PairOfOperands DEF ModRMFound
<1> HIDE DEF m
<1>5. ReadsAs(BinaryRmReg(x.mnemonic, m), x, end)
  BY <1>3, <1>4 DEF ReadsAs, BinaryRmReg, XInst
<1> QED
  BY <1>2, <1>5 DEF InstructionAt, ModRMFound

LEMMA BinaryRegFound ==
  ASSUME NEW c, NEW p, NEW e, NEW end, NEW x, NEW dst, NEW src, NEW r, dst = XReg(r),
         x.ops = <<dst, src>>, x.mnemonic \in DOMAIN BinaryOpcode,
         ModRMFound(c, p, e, BinaryOpcode[x.mnemonic] + 2, r, src, end)
  PROVE InstructionAt(c, p, x, end)
<1> DEFINE op == BinaryOpcode[x.mnemonic]
           m == DecodeModRM(c, e + 1, LastRex(c, p, e))
<1>1. op \in {1, 9, 33, 41, 49, 57, 137} /\ Binary[op] = x.mnemonic
  BY BinaryOpcodes
<1>2. DecodeOpcode(c, e + 1, LastRex(c, p, e), At(c, e)) = BinaryRegRm(x.mnemonic, m)
  BY <1>1, BinaryOp DEF ModRMFound
<1>3. Supported(x) /\ MeantName(x) = x.mnemonic
  BY DEF BinaryOpcode, Supported, MeantName
<1>4. m.reg = dst /\ m.p = end /\ (ReadsOperands(x) => m.rm = src)
  BY PairOfOperands DEF ModRMFound
<1> HIDE DEF m
<1>5. ReadsAs(BinaryRegRm(x.mnemonic, m), x, end)
  BY <1>3, <1>4 DEF ReadsAs, BinaryRegRm, XInst
<1> QED
  BY <1>2, <1>5 DEF InstructionAt, ModRMFound

\* An encoding that stands in c is bytes, and is read as the instruction.
EncodingIs(c, p, x, code) == code \in Seq(Byte) /\ code # <<>>
                               /\ (Has(c, p, code) => InstructionAt(c, p, x, p + Len(code)))

LEMMA EmptyHere == ASSUME NEW c, NEW p \in Nat, p <= Len(c) PROVE Has(c, p, <<>>)
BY DEF Has

LEMMA HasInside ==
  ASSUME NEW c \in Seq(Byte), NEW p \in Nat, NEW s \in Seq(Byte), Has(c, p, s)
  PROVE Has(c, p, <<>>)
<1>1. Len(s) \in Nat /\ Len(c) \in Nat
  BY LenProperties
<1>2. p <= Len(c)
  BY <1>1 DEF Has
<1> QED
  BY <1>2, EmptyHere

ModRMIs(c, p, opcode, reg, op, code) ==
  /\ code \in Seq(Byte) /\ code # <<>>
  /\ Has(c, p, code) => \E e : ModRMFound(c, p, e, opcode, reg, op, p + Len(code))

LEMMA ModRMAlone ==
  ASSUME NEW c \in Seq(Byte), NEW p \in Nat,
         NEW reg \in Register, NEW op \in RegOperand \cup MemOperand,
         NEW opcode \in Byte, ~PrefixByte(opcode),
         NEW code \in ModRMForms(opcode, reg, op)
  PROVE ModRMIs(c, p, opcode, reg, op, code)
<1>1. code \in Seq(Byte) /\ Len(code) >= 1
  <2>1. PICK form \in RmForms(op) :
          /\ RexOf(reg, op) \in Seq(Byte) /\ Len(form) \in Nat /\ code \in Seq(Byte)
          /\ Len(code) = Len(RexOf(reg, op)) + 1 + Len(form)
    BY ModRMShape
  <2>2. Len(RexOf(reg, op)) \in Nat
    BY <2>1, LenProperties
  <2> QED
    BY <2>1, <2>2
<1>2. ASSUME Has(c, p, code)
      PROVE \E e : ModRMFound(c, p, e, opcode, reg, op, p + Len(code))
  <2>1. PICK idle \in IdlePrefix : idle = <<>>
    BY DEF IdlePrefix
  <2>2. PICK end : end = p + Len(code)
    OBVIOUS
  <2>3. Len(idle) = 0 /\ p + Len(idle) = p
    BY <2>1
  <2>4. Has(c, p, idle) /\ Has(c, p + Len(idle), code) /\ end = p + Len(idle) + Len(code)
    BY <1>1, <1>2, <2>1, <2>2, <2>3, HasInside
  <2>5. \E e : ModRMFound(c, p, e, opcode, reg, op, end)
    BY <2>4, ModRMEncoding
  <2> QED
    BY <2>2, <2>5
<1> QED
  BY <1>1, <1>2 DEF ModRMIs

LEMMA ModRMLocked ==
  ASSUME NEW c \in Seq(Byte), NEW p \in Nat,
         NEW reg \in Register, NEW op \in RegOperand \cup MemOperand,
         NEW opcode \in Byte, ~PrefixByte(opcode),
         NEW form \in ModRMForms(opcode, reg, op), NEW code, code = << 240 >> \o form
  PROVE ModRMIs(c, p, opcode, reg, op, code)
<1>1. form \in Seq(Byte) /\ Len(form) \in Nat
  BY ModRMAlone, LenProperties DEF ModRMIs
<1>2. PICK idle \in IdlePrefix : idle = << 240 >>
  BY DEF IdlePrefix
<1>3. idle \in Seq(Byte) /\ Len(idle) = 1
  BY <1>2 DEF Byte
<1>4. code = idle \o form
  BY <1>2
<1>5. code \in Seq(Byte) /\ Len(code) = Len(idle) + Len(form)
  BY <1>1, <1>3, <1>4, ConcatProperties
<1>6. code # <<>>
  BY <1>1, <1>3, <1>5
<1>7. ASSUME Has(c, p, code)
      PROVE \E e : ModRMFound(c, p, e, opcode, reg, op, p + Len(code))
  <2>1. PICK end : end = p + Len(code)
    OBVIOUS
  <2>2. end = p + Len(idle) + Len(form)
    BY <1>1, <1>3, <1>5, <2>1
  <2>3. Has(c, p, idle) /\ Has(c, p + Len(idle), form)
    BY <1>1, <1>3, <1>4, <1>7, HasConcat
  <2>4. \E e : ModRMFound(c, p, e, opcode, reg, op, end)
    BY <2>2, <2>3, ModRMEncoding
  <2> QED
    BY <2>1, <2>4
<1> QED
  BY <1>5, <1>6, <1>7 DEF ModRMIs

LEMMA BinaryBytes ==
  \A op \in {1, 9, 33, 41, 49, 57, 137} :
    op \in Byte /\ op + 2 \in Byte /\ ~PrefixByte(op) /\ ~PrefixByte(op + 2)
BY DEF Byte, PrefixByte, IsRex

LEMMA BinaryEncoding ==
  ASSUME NEW c \in Seq(Byte), NEW p \in Nat, NEW x, x.mnemonic \in DOMAIN BinaryOpcode,
         \/ x.ops \in RegOperand \X (RegOperand \cup MemOperand)
         \/ x.ops \in MemOperand \X RegOperand,
         NEW code \in BinaryForms(x.mnemonic, x.ops[1], x.ops[2])
  PROVE EncodingIs(c, p, x, code)
<1> DEFINE op == BinaryOpcode[x.mnemonic]
<1>1. PICK dst, src :
        /\ dst = x.ops[1] /\ src = x.ops[2] /\ x.ops = <<dst, src>>
        /\ dst \in RegOperand \cup MemOperand /\ src \in RegOperand \cup MemOperand
  OBVIOUS
<1>2. op \in {1, 9, 33, 41, 49, 57, 137}
  BY BinaryOpcodes
<1>3. op \in Byte /\ op + 2 \in Byte /\ ~PrefixByte(op) /\ ~PrefixByte(op + 2)
  BY <1>2, BinaryBytes
<1>4. \A r : IsReg(r) /\ r \in RegOperand \cup MemOperand => r = XReg(r[2]) /\ r[2] \in Register
  BY Operands
<1> HIDE DEF op
<1>5. CASE IsReg(src) /\ code \in ModRMForms(op, src[2], dst)
  <2>1. src = XReg(src[2]) /\ src[2] \in Register
    BY <1>1, <1>4, <1>5
  <2>2. ModRMIs(c, p, op, src[2], dst, code)
    BY <1>1, <1>3, <1>5, <2>1, ModRMAlone
  <2> QED
    BY <1>1, <2>1, <2>2, BinaryRmFound DEF op, EncodingIs, ModRMIs
<1>6. CASE IsReg(src) /\ code \in {<< 240 >> \o form : form \in ModRMForms(op, src[2], dst)}
  <2>1. src = XReg(src[2]) /\ src[2] \in Register
    BY <1>1, <1>4, <1>6
  <2>2. PICK form \in ModRMForms(op, src[2], dst) : code = << 240 >> \o form
    BY <1>6
  <2>3. ModRMIs(c, p, op, src[2], dst, code)
    BY <1>1, <1>3, <2>1, <2>2, ModRMLocked
  <2> QED
    BY <1>1, <2>1, <2>3, BinaryRmFound DEF op, EncodingIs, ModRMIs
<1>7. CASE IsReg(dst) /\ code \in ModRMForms(op + 2, dst[2], src)
  <2>1. dst = XReg(dst[2]) /\ dst[2] \in Register
    BY <1>1, <1>4, <1>7
  <2>2. PICK opcode \in Byte : opcode = op + 2 /\ ~PrefixByte(opcode)
    BY <1>3
  <2>3. ModRMIs(c, p, opcode, dst[2], src, code)
    BY <1>1, <1>7, <2>1, <2>2, ModRMAlone
  <2> QED
    BY <1>1, <2>1, <2>2, <2>3, BinaryRegFound DEF op, EncodingIs, ModRMIs
<1>8. \/ IsReg(src) /\ code \in ModRMForms(op, src[2], dst)
      \/ IsReg(src) /\ code \in {<< 240 >> \o form : form \in ModRMForms(op, src[2], dst)}
      \/ IsReg(dst) /\ code \in ModRMForms(op + 2, dst[2], src)
  <2>1. code \in BinaryForms(x.mnemonic, dst, src)
    BY <1>1
  <2>2. CASE IsReg(src)
    BY <2>1, <2>2, Zenon DEF BinaryForms, op
  <2>3. CASE ~IsReg(src)
    BY <2>1, <2>3, Zenon DEF BinaryForms, op
  <2> QED
    BY <2>2, <2>3
<1> QED
  BY <1>5, <1>6, <1>7, <1>8

RexOpcodeIs(c, p, w, base, op, code) ==
  /\ code \in Seq(Byte) /\ code # <<>> /\ Len(code) \in Nat
  /\ Has(c, p, code) => \E e \in Nat : /\ OpcodeFound(c, p, e, w, 0, 0, base)
                                       /\ At(c, e) = op /\ e + 1 = p + Len(code)

\* An opcode with a register in it, after REX.
LEMMA RexOpcode ==
  ASSUME NEW c \in Seq(Byte), NEW p \in Nat, NEW w \in {0, 1}, NEW base \in Int,
         NEW op \in Byte, ~PrefixByte(op), NEW code, code = Rex(w, 0, 0, base) \o <<op>>
  PROVE RexOpcodeIs(c, p, w, base, op, code)
<1>0. PICK none \in Int : none = 0
  OBVIOUS
<1>1. PICK rex : rex = Rex(w, none, none, base) /\ rex = Rex(w, 0, 0, base)
  BY <1>0
<1>2. rex \in Seq(Byte) /\ Len(rex) \in Nat
  BY <1>1, RexBytes
<1>3. <<op>> \in Seq(Byte) /\ Len(<<op>>) = 1
  BY OneByteSeq
<1>4. code \in Seq(Byte) /\ Len(code) = Len(rex) + 1 /\ code = rex \o <<op>>
  BY <1>1, <1>2, <1>3, ConcatProperties
<1>5. code # <<>> /\ Len(code) \in Nat
  BY <1>2, <1>4
<1>6. ASSUME Has(c, p, code)
      PROVE \E e \in Nat : /\ OpcodeFound(c, p, e, w, 0, 0, base)
                           /\ At(c, e) = op /\ e + 1 = p + Len(code)
  <2>1. PICK e \in Nat : e = p + Len(rex)
    BY <1>2
  <2>2. Has(c, p, rex) /\ Has(c, e, <<op>>)
    BY <1>2, <1>3, <1>4, <1>6, <2>1, HasConcat
  <2>3. At(c, e) = op /\ e < Len(c)
    <3>1. At(c, e) = op /\ e + 1 <= Len(c)
      BY <2>2, HasOne
    <3> QED
      BY <3>1, LenProperties
  <2>4. PICK idle \in IdlePrefix : idle = <<>>
    BY DEF IdlePrefix
  <2>5. Has(c, p, idle) /\ Len(idle) = 0
    BY <1>2, <2>2, <2>4, HasInside
  <2>6. p + Len(idle) = p
    BY <2>5
  <2>7. Has(c, p + Len(idle), Rex(w, none, none, base))
    BY <1>1, <2>2, <2>6
  <2>8. e = p + Len(idle) + Len(Rex(w, none, none, base))
    BY <1>1, <2>1, <2>6
  <2>9. OpcodeFound(c, p, e, w, none, none, base)
    BY <1>0, <2>3, <2>5, <2>7, <2>8, Opening
  <2>10. OpcodeFound(c, p, e, w, 0, 0, base)
    BY <1>0, <2>9, Zenon
  <2>11. e + 1 = p + Len(code)
    BY <1>2, <1>4, <2>1
  <2> QED
    BY <2>3, <2>10, <2>11
<1> QED
  BY <1>4, <1>5, <1>6 DEF RexOpcodeIs

LEMMA OpcodeBits ==
  ASSUME NEW n \in Register
  PROVE /\ Low3(n) \in 0 .. 7
        /\ 80 + Low3(n) \in Byte /\ 88 + Low3(n) \in Byte /\ 184 + Low3(n) \in Byte
        /\ ~PrefixByte(80 + Low3(n)) /\ ~PrefixByte(88 + Low3(n)) /\ ~PrefixByte(184 + Low3(n))
        /\ RegFromBits(80 + Low3(n), High(n)) = n
        /\ RegFromBits(88 + Low3(n), High(n)) = n
        /\ RegFromBits(184 + Low3(n), High(n)) = n
<1>1. Low3(n) \in 0 .. 7 /\ High(n) \in {0, 1} /\ Low3(n) + 8 * High(n) = n
  BY RegisterBits
<1>2. \A low \in 0 .. 7 : /\ (80 + low) % 8 = low /\ (88 + low) % 8 = low /\ (184 + low) % 8 = low
                          /\ 80 + low \in Byte /\ 88 + low \in Byte /\ 184 + low \in Byte
                          /\ ~PrefixByte(80 + low) /\ ~PrefixByte(88 + low) /\ ~PrefixByte(184 + low)
  BY DEF Byte, PrefixByte, IsRex
<1> QED
  BY <1>1, <1>2 DEF RegFromBits

LEMMA PushEncoding ==
  ASSUME NEW c \in Seq(Byte), NEW p \in Nat, NEW x, NEW r \in Register,
         x.ops = <<XReg(r)>>, NEW code,
         \/ x.mnemonic = "PUSH" /\ code = Rex(0, 0, 0, r) \o <<80 + Low3(r)>>
         \/ x.mnemonic = "POP" /\ code = Rex(0, 0, 0, r) \o <<88 + Low3(r)>>
  PROVE EncodingIs(c, p, x, code)
<1>1. PICK op \in Byte :
        /\ ~PrefixByte(op) /\ code = Rex(0, 0, 0, r) \o <<op>>
        /\ RegFromBits(op, High(r)) = r
        /\ \A rex, q : B(rex) = High(r) =>
             DecodeOpcode(c, q, rex, op) = XInst(x.mnemonic, <<XReg(r)>>, q)
  <2>1. PICK low \in 0 .. 7 : low = Low3(r)
    BY OpcodeBits
  <2>2. CASE x.mnemonic = "PUSH"
    <3>1. PICK op \in 80 .. 87 :
            /\ op = 80 + Low3(r) /\ op \in Byte /\ ~PrefixByte(op) /\ RegFromBits(op, High(r)) = r
      <4>1. 80 + Low3(r) \in 80 .. 87
        BY <2>1
      <4> QED
        BY <4>1, OpcodeBits, Zenon
    <3>2. \A rex, q : DecodeOpcode(c, q, rex, op) =
                        XInst("PUSH", <<XReg(RegFromBits(op, B(rex)))>>, q)
      BY <3>1, PushOp, Zenon
    <3>3. \A rex, q : B(rex) = High(r) =>
            DecodeOpcode(c, q, rex, op) = XInst(x.mnemonic, <<XReg(r)>>, q)
      BY <2>2, <3>1, <3>2, Zenon
    <3>4. code = Rex(0, 0, 0, r) \o <<op>>
      BY <2>2, <3>1
    <3> QED
      BY <3>1, <3>3, <3>4
  <2>3. CASE x.mnemonic = "POP"
    <3>1. PICK op \in 88 .. 95 :
            /\ op = 88 + Low3(r) /\ op \in Byte /\ ~PrefixByte(op) /\ RegFromBits(op, High(r)) = r
      <4>1. 88 + Low3(r) \in 88 .. 95
        BY <2>1
      <4> QED
        BY <4>1, OpcodeBits, Zenon
    <3>2. \A rex, q : DecodeOpcode(c, q, rex, op) =
                        XInst("POP", <<XReg(RegFromBits(op, B(rex)))>>, q)
      BY <3>1, PopOp, Zenon
    <3>3. \A rex, q : B(rex) = High(r) =>
            DecodeOpcode(c, q, rex, op) = XInst(x.mnemonic, <<XReg(r)>>, q)
      BY <2>3, <3>1, <3>2, Zenon
    <3>4. code = Rex(0, 0, 0, r) \o <<op>>
      BY <2>3, <3>1
    <3> QED
      BY <3>1, <3>3, <3>4
  <2> QED
    BY <2>2, <2>3
<1>2. r \in Int
  BY DEF Register
<1>3. RexOpcodeIs(c, p, 0, r, op, code)
  <2>1. PICK w \in {0, 1} : w = 0
    OBVIOUS
  <2>2. code = Rex(w, 0, 0, r) \o <<op>>
    BY <1>1, <2>1
  <2>3. RexOpcodeIs(c, p, w, r, op, code)
    BY <1>1, <1>2, <2>2, RexOpcode
  <2> QED
    BY <2>1, <2>3
<1>4. ASSUME Has(c, p, code) PROVE InstructionAt(c, p, x, p + Len(code))
  <2>1. PICK e \in Nat : /\ OpcodeFound(c, p, e, 0, 0, 0, r)
                         /\ At(c, e) = op /\ e + 1 = p + Len(code)
    BY <1>3, <1>4 DEF RexOpcodeIs
  <2>2. DecodeOpcode(c, e + 1, LastRex(c, p, e), At(c, e)) =
          XInst(x.mnemonic, <<XReg(r)>>, p + Len(code))
    BY <1>1, <2>1 DEF OpcodeFound, RexIs
  <2>3. ReadsAs(XInst(x.mnemonic, <<XReg(r)>>, p + Len(code)), x, p + Len(code))
    BY DEF ReadsAs, XInst, Supported, MeantName
  <2>4. e < p + Len(code)
    BY <2>1
  <2> QED
    BY <2>1, <2>2, <2>3, <2>4 DEF OpcodeFound, RexIs, InstructionAt
<1> QED
  BY <1>3, <1>4 DEF EncodingIs, RexOpcodeIs

\* Instructions that no REX byte changes.
LEMMA PlainInstruction ==
  ASSUME NEW c, NEW p \in Nat, NEW n \in {0, 1}, n = 1 => PrefixByte(At(c, p)),
         ~PrefixByte(At(c, p + n)), NEW end \in Nat, p + n < end, NEW x,
         \A rex : ReadsAs(DecodeOpcode(c, (p + n) + 1, rex, At(c, p + n)), x, end)
  PROVE InstructionAt(c, p, x, end)
<1>1. PICK e \in Nat : e = p + n
  OBVIOUS
<1>2. p <= e /\ e < end /\ ~PrefixByte(At(c, e))
  BY <1>1
<1>3. ASSUME NEW k \in p .. e - 1 PROVE PrefixByte(At(c, k))
  <2>1. n = 1 /\ k = p
    BY <1>1
  <2> QED
    BY <2>1
<1>4. ReadsAs(DecodeOpcode(c, e + 1, LastRex(c, p, e), At(c, e)), x, end)
  BY <1>1
<1> QED
  BY <1>2, <1>3, <1>4 DEF InstructionAt

LEMMA ReadsPlain ==
  ASSUME NEW m, NEW x, NEW end, x.ops = <<>>, x.mnemonic = m, m \in {"RET", "NOP", "SYSCALL"}
  PROVE ReadsAs(XInst(m, <<>>, end), x, end)
BY DEF ReadsAs, XInst, Supported, MeantName

LEMMA SyscallByte ==
  ASSUME NEW c, NEW p, At(c, p) = 5
  PROVE DecodeSecond(c, p) = XInst("SYSCALL", <<>>, p + 1)
<1>1. At(c, p) \notin 128 .. 143
  BY SMT
<1> QED
  BY <1>1, Zenon DEF DecodeSecond

LEMMA PlainEncoding ==
  ASSUME NEW c \in Seq(Byte), NEW p \in Nat, NEW x, x.ops = <<>>, NEW code,
         \/ x.mnemonic = "RET" /\ code \in {<< 195 >>, <<243, 195>>}
         \/ x.mnemonic = "NOP" /\ code \in {<< 144 >>, <<102, 144>>}
         \/ x.mnemonic = "SYSCALL" /\ code = <<15, 5>>
         \/ x.mnemonic = "INT3" /\ code = << 204 >>
         \/ x.mnemonic = "UD2" /\ code = <<15, 11>>
  PROVE EncodingIs(c, p, x, code)
<1>1. \A b \in {5, 11, 15, 102, 144, 195, 204, 243} : b \in Byte
  BY DEF Byte
<1>2. PrefixByte(102) /\ PrefixByte(243)
  BY DEF PrefixByte
<1>3. ~PrefixByte(15) /\ ~PrefixByte(144) /\ ~PrefixByte(195) /\ ~PrefixByte(204)
  BY DEF PrefixByte, IsRex
<1>4. ASSUME NEW b, code = <<b>>, Has(c, p, code), ~PrefixByte(b),
             \A rex : ReadsAs(DecodeOpcode(c, p + 1, rex, b), x, p + 1)
      PROVE InstructionAt(c, p, x, p + Len(code))
  <2>1. At(c, p) = b /\ Len(code) = 1 /\ p + 1 \in Nat
    BY <1>4, HasOne
  <2>2. PICK n \in {0, 1} : n = 0
    OBVIOUS
  <2>3. p + n = p /\ p + n < p + 1
    BY <2>2
  <2>4. /\ \A rex : ReadsAs(DecodeOpcode(c, (p + n) + 1, rex, At(c, p + n)), x, p + 1)
        /\ ~PrefixByte(At(c, p + n)) /\ ~(n = 1)
    BY <1>4, <2>1, <2>2, <2>3
  <2> QED
    BY <2>1, <2>3, <2>4, PlainInstruction
<1>5. ASSUME NEW a, NEW b, code = <<a, b>>, Has(c, p, code), PrefixByte(a), ~PrefixByte(b),
             \A rex : ReadsAs(DecodeOpcode(c, p + 2, rex, b), x, p + 2)
      PROVE InstructionAt(c, p, x, p + Len(code))
  <2>1. At(c, p) = a /\ At(c, p + 1) = b /\ Len(code) = 2 /\ p + 2 \in Nat
    BY <1>5, HasTwo
  <2>2. PICK n \in {0, 1} : n = 1
    OBVIOUS
  <2>3. p + n = p + 1 /\ p + n < p + 2 /\ (p + n) + 1 = p + 2
    BY <2>2
  <2>4. /\ \A rex : ReadsAs(DecodeOpcode(c, (p + n) + 1, rex, At(c, p + n)), x, p + 2)
        /\ ~PrefixByte(At(c, p + n)) /\ PrefixByte(At(c, p))
    BY <1>5, <2>1, <2>3
  <2> QED
    BY <2>1, <2>3, <2>4, PlainInstruction
<1>6. ASSUME NEW b, code = <<15, b>>, Has(c, p, code),
             ReadsAs(DecodeSecond(c, p + 1), x, p + 2)
      PROVE InstructionAt(c, p, x, p + Len(code))
  <2>1. At(c, p) = 15 /\ Len(code) = 2 /\ p + 2 \in Nat
    BY <1>6, HasTwo
  <2>2. PICK n \in {0, 1} : n = 0
    OBVIOUS
  <2>3. p + n = p /\ p + n < p + 2
    BY <2>2
  <2>4. \A rex : DecodeOpcode(c, p + 1, rex, 15) = DecodeSecond(c, p + 1)
    BY OtherOp
  <2>5. /\ \A rex : ReadsAs(DecodeOpcode(c, (p + n) + 1, rex, At(c, p + n)), x, p + 2)
        /\ ~PrefixByte(At(c, p + n)) /\ ~(n = 1)
    BY <1>3, <1>6, <2>1, <2>2, <2>3, <2>4
  <2> QED
    BY <2>1, <2>3, <2>5, PlainInstruction
<1>7. ASSUME Has(c, p, code) PROVE InstructionAt(c, p, x, p + Len(code))
  <2>1. CASE x.mnemonic = "RET" /\ code \in {<< 195 >>, <<243, 195>>}
    <3>1. \A rex, q : ReadsAs(DecodeOpcode(c, q, rex, 195), x, q)
      BY <2>1, OtherOp, ReadsPlain
    <3> QED
      BY <1>2, <1>3, <1>4, <1>5, <1>7, <2>1, <3>1
  <2>2. CASE x.mnemonic = "NOP" /\ code \in {<< 144 >>, <<102, 144>>}
    <3>1. \A rex, q : ReadsAs(DecodeOpcode(c, q, rex, 144), x, q)
      BY <2>2, OtherOp, ReadsPlain
    <3> QED
      BY <1>2, <1>3, <1>4, <1>5, <1>7, <2>2, <3>1
  <2>3. CASE x.mnemonic = "SYSCALL" /\ code = <<15, 5>>
    <3>0. Has(c, p, <<15, 5>>)
      BY <1>7, <2>3
    <3>1. At(c, p + 1) = 5 /\ (p + 1) + 1 = p + 2
      BY <3>0, HasTwo
    <3>2. DecodeSecond(c, p + 1) = XInst("SYSCALL", <<>>, p + 2)
      <4>1. DecodeSecond(c, p + 1) = XInst("SYSCALL", <<>>, (p + 1) + 1)
        BY <3>1, SyscallByte
      <4> QED
        BY <3>1, <4>1
    <3> QED
      BY <1>6, <1>7, <2>3, <3>2, ReadsPlain
  <2>4. CASE x.mnemonic = "INT3" /\ code = << 204 >>
    <3>1. \A rex, q : ReadsAs(DecodeOpcode(c, q, rex, 204), x, q)
      BY <2>4, OtherOp DEF ReadsAs, Supported
    <3> QED
      BY <1>3, <1>4, <1>7, <2>4, <3>1
  <2>5. CASE x.mnemonic = "UD2" /\ code = <<15, 11>>
    <3>1. At(c, p + 1) = 11
      BY <1>7, <2>5, HasTwo
    <3>2. DecodeSecond(c, p + 1) = Throws
      BY <3>1 DEF DecodeSecond
    <3> QED
      BY <1>6, <1>7, <2>5, <3>2 DEF ReadsAs, Supported
  <2> QED
    BY <2>1, <2>2, <2>3, <2>4, <2>5
<1>8. code \in Seq(Byte) /\ code # <<>>
  <2>1. \A b \in Byte : <<b>> \in Seq(Byte) /\ <<b>> # <<>>
    BY OneByteSeq
  <2>2. \A a, b \in Byte : <<a, b>> \in Seq(Byte) /\ <<a, b>> # <<>>
    BY TwoByteSeq
  <2>3. CASE code \in {<< 195 >>, << 144 >>, << 204 >>}
    BY <1>1, <2>1, <2>3
  <2>4. CASE code = <<243, 195>>
    BY <1>1, <2>2, <2>4
  <2>5. CASE code = <<102, 144>>
    BY <1>1, <2>2, <2>5
  <2>6. CASE code = <<15, 5>>
    BY <1>1, <2>2, <2>6
  <2>7. CASE code = <<15, 11>>
    BY <1>1, <2>2, <2>7
  <2> QED
    BY <2>3, <2>4, <2>5, <2>6, <2>7
<1> QED
  BY <1>7, <1>8 DEF EncodingIs

\* Branches: the address is the end of the instruction and the displacement.
IsBranch(x, t) == x.mnemonic \in {"CALL", "JMP", "Jcc"} /\ x.ops = <<Imm(t)>>

LEMMA ReadsBranch ==
  ASSUME NEW x, NEW t, IsBranch(x, t), NEW end
  PROVE ReadsAs(XInst(MeantName(x), <<Imm(t)>>, end), x, end)
BY DEF ReadsAs, XInst, Supported, IsBranch

LEMMA FarBytes ==
  ASSUME NEW head \in Seq(Byte), NEW t \in Int, NEW at \in Nat, NEW code \in Far(head, t, at)
  PROVE \E distance \in Word32 :
          /\ distance = t - (at + Len(head) + 4)
          /\ LittleEndian(distance, 4) \in Seq(Byte)
          /\ code = head \o LittleEndian(distance, 4)
          /\ code \in Seq(Byte) /\ Len(code) = Len(head) + 4
<1>1. PICK distance \in Word32 :
        /\ distance = t - (at + Len(head) + 4)
        /\ code = head \o LittleEndian(distance, 4)
  BY DEF Far
<1>2. LittleEndian(distance, 4) \in Seq(Byte) /\ Len(LittleEndian(distance, 4)) = 4
  BY WordIsInteger, LittleEndianBytes
<1>3. PICK word \in Seq(Byte) : word = LittleEndian(distance, 4) /\ Len(word) = 4
  BY <1>2
<1>4. code = head \o word
  BY <1>1, <1>3
<1>5. code \in Seq(Byte) /\ Len(code) = Len(head) + 4
  <2>1. head \o word \in Seq(Byte) /\ Len(head \o word) = Len(head) + 4
    BY <1>3, ConcatLen
  <2> QED
    BY <1>4, <2>1, Zenon
<1> QED
  BY <1>1, <1>2, <1>5

LEMMA FarEncoding ==
  ASSUME NEW c \in Seq(Byte), NEW p \in Nat, NEW x, NEW t \in Int, IsBranch(x, t),
         NEW b \in Byte, ~PrefixByte(b), NEW code \in Far(<<b>>, t, p),
         \A rex, q : DecodeOpcode(c, q, rex, b) = BranchRel32(c, q, MeantName(x))
  PROVE EncodingIs(c, p, x, code)
<1>1. <<b>> \in Seq(Byte) /\ Len(<<b>>) = 1
  BY OneByteSeq
<1>2. PICK distance \in Word32 :
          /\ distance = t - (p + Len(<<b>>) + 4)
          /\ LittleEndian(distance, 4) \in Seq(Byte)
          /\ code = <<b>> \o LittleEndian(distance, 4)
          /\ code \in Seq(Byte) /\ Len(code) = Len(<<b>>) + 4
  BY <1>1, FarBytes
<1>3. code # <<>> /\ Len(code) = 5 /\ p + Len(code) \in Nat
  BY <1>1, <1>2
<1>4. ASSUME Has(c, p, code) PROVE InstructionAt(c, p, x, p + Len(code))
  <2>1. Has(c, p, <<b>>) /\ Has(c, p + 1, LittleEndian(distance, 4))
    BY <1>1, <1>2, <1>4, HasConcat
  <2>2. At(c, p) = b
    BY <2>1, HasOne
  <2>3. Signed32(c, p + 1) = distance
    <3>1. p + 1 \in Nat
      OBVIOUS
    <3> QED
      BY <2>1, <3>1, ReadsWord
  <2>4. distance \in Int
    BY WordIsInteger
  <2>5. (p + 1) + 4 + distance = t /\ (p + 1) + 4 = p + Len(code)
    BY <1>1, <1>2, <1>3, <2>4
  <2>6. BranchRel32(c, p + 1, MeantName(x)) = XInst(MeantName(x), <<Imm(t)>>, p + Len(code))
    BY <2>3, <2>5 DEF BranchRel32
  <2>7. PICK n \in {0, 1} : n = 0
    OBVIOUS
  <2>8. p + n = p /\ p + n < p + Len(code)
    BY <1>3, <2>7
  <2>9. \A rex : ReadsAs(DecodeOpcode(c, (p + n) + 1, rex, At(c, p + n)), x, p + Len(code))
    BY <2>2, <2>6, <2>8, ReadsBranch
  <2>10. ~(n = 1) /\ ~PrefixByte(At(c, p + n))
    BY <2>2, <2>7, <2>8
  <2> QED
    BY <1>3, <2>8, <2>9, <2>10, PlainInstruction
<1> QED
  BY <1>2, <1>3, <1>4 DEF EncodingIs

LEMMA FarJccEncoding ==
  ASSUME NEW c \in Seq(Byte), NEW p \in Nat, NEW x, NEW t \in Int, IsBranch(x, t),
         x.mnemonic = "Jcc", x.cc \in 0 .. 15, NEW code \in Far(<<15, 128 + x.cc>>, t, p)
  PROVE EncodingIs(c, p, x, code)
<1>1. PICK b \in Byte : b = 128 + x.cc /\ b \in 128 .. 143 /\ b - 127 = x.cc + 1
  <2>1. PICK cc \in 0 .. 15 : cc = x.cc
    OBVIOUS
  <2>2. 128 + cc \in Byte /\ 128 + cc \in 128 .. 143 /\ (128 + cc) - 127 = cc + 1
    BY SMT DEF Byte
  <2> QED
    BY <2>1, <2>2, Zenon
<1>2. PICK a \in Byte : a = 15 /\ ~PrefixByte(a)
  BY DEF Byte, PrefixByte, IsRex
<1>3. <<a, b>> \in Seq(Byte) /\ Len(<<a, b>>) = 2
  BY TwoByteSeq
<1>4. PICK distance \in Word32 :
          /\ distance = t - (p + Len(<<a, b>>) + 4)
          /\ LittleEndian(distance, 4) \in Seq(Byte)
          /\ code = <<a, b>> \o LittleEndian(distance, 4)
          /\ code \in Seq(Byte) /\ Len(code) = Len(<<a, b>>) + 4
  <2>1. code \in Far(<<a, b>>, t, p)
    BY <1>1, <1>2
  <2> QED
    BY <1>3, <2>1, FarBytes
<1>5. code # <<>> /\ Len(code) = 6 /\ p + Len(code) \in Nat
  BY <1>3, <1>4
<1>6. ASSUME Has(c, p, code) PROVE InstructionAt(c, p, x, p + Len(code))
  <2>1. Has(c, p, <<a, b>>) /\ Has(c, p + 2, LittleEndian(distance, 4))
    BY <1>3, <1>4, <1>6, HasConcat
  <2>2. At(c, p) = a /\ At(c, p + 1) = b
    BY <2>1, HasTwo
  <2>3. Signed32(c, p + 2) = distance
    <3>1. p + 2 \in Nat
      OBVIOUS
    <3> QED
      BY <2>1, <3>1, ReadsWord
  <2>4. distance \in Int
    BY WordIsInteger
  <2>5. (p + 2) + 4 + distance = t /\ (p + 2) + 4 = p + Len(code) /\ (p + 1) + 1 = p + 2
    BY <1>3, <1>4, <1>5, <2>4
  <2>6. BranchRel32(c, p + 2, MeantName(x)) = XInst(MeantName(x), <<Imm(t)>>, p + Len(code))
    BY <2>3, <2>5 DEF BranchRel32
  <2>7. MeantName(x) = JccName[b - 127]
    BY <1>1 DEF MeantName
  <2>8. DecodeSecond(c, p + 1) = BranchRel32(c, (p + 1) + 1, JccName[b - 127])
    BY <1>1, <2>2 DEF DecodeSecond
  <2>9. \A rex : DecodeOpcode(c, p + 1, rex, a) = DecodeSecond(c, p + 1)
    BY <1>2, OtherOp
  <2>10. PICK n \in {0, 1} : n = 0
    OBVIOUS
  <2>11. p + n = p /\ p + n < p + Len(code)
    BY <1>5, <2>10
  <2>12. \A rex : ReadsAs(DecodeOpcode(c, (p + n) + 1, rex, At(c, p + n)), x, p + Len(code))
    BY <2>2, <2>5, <2>6, <2>7, <2>8, <2>9, <2>11, ReadsBranch
  <2>13. ~(n = 1) /\ ~PrefixByte(At(c, p + n))
    BY <1>2, <2>2, <2>10, <2>11
  <2> QED
    BY <1>5, <2>11, <2>12, <2>13, PlainInstruction
<1> QED
  BY <1>4, <1>5, <1>6 DEF EncodingIs

LEMMA NearEncoding ==
  ASSUME NEW c \in Seq(Byte), NEW p \in Nat, NEW x, NEW t \in Int, IsBranch(x, t),
         NEW b \in Byte, ~PrefixByte(b), NEW code \in Near(b, t, p),
         \A rex, q : DecodeOpcode(c, q, rex, b) = BranchRel8(c, q, MeantName(x))
  PROVE EncodingIs(c, p, x, code)
<1>1. <<b>> \in Seq(Byte) /\ Len(<<b>>) = 1
  BY OneByteSeq
<1>2. PICK distance :
        /\ SInt8(distance) /\ distance = t - (p + 2)
        /\ code = <<b>> \o LittleEndian(distance, 1)
  BY DEF Near
<1>3. /\ LittleEndian(distance, 1) \in Seq(Byte) /\ Len(LittleEndian(distance, 1)) = 1
      /\ distance \in Int
  <2>1. distance \in Int
    BY <1>2, SmallIsWord, WordIsInteger
  <2> QED
    BY <2>1, LittleEndianBytes
<1>4. code \in Seq(Byte) /\ Len(code) = 2
  BY <1>1, <1>2, <1>3, ConcatProperties
<1>5. code # <<>> /\ p + Len(code) \in Nat
  <2>1. code # <<>>
    <3>1. Len(code) # 0
      BY <1>4
    <3> QED
      BY <3>1, NotEmpty
  <2>2. p + 2 \in Nat
    OBVIOUS
  <2> QED
    BY <1>4, <2>1, <2>2, Zenon
<1>6. ASSUME Has(c, p, code) PROVE InstructionAt(c, p, x, p + Len(code))
  <2>1. Has(c, p, <<b>>) /\ Has(c, p + 1, LittleEndian(distance, 1))
    BY <1>1, <1>2, <1>3, <1>6, HasConcat
  <2>2. At(c, p) = b
    BY <2>1, HasOne
  <2>3. Signed8(At(c, p + 1)) = distance
    <3>1. p + 1 \in Nat
      OBVIOUS
    <3> QED
      BY <1>2, <2>1, <3>1, ReadsByte
  <2>4. (p + 1) + 1 + distance = t /\ (p + 1) + 1 = p + Len(code)
    BY <1>2, <1>3, <1>4
  <2>5. BranchRel8(c, p + 1, MeantName(x)) = XInst(MeantName(x), <<Imm(t)>>, p + Len(code))
    BY <2>3, <2>4 DEF BranchRel8
  <2>6. PICK n \in {0, 1} : n = 0
    OBVIOUS
  <2>7. p + n = p /\ p + n < p + Len(code)
    BY <1>4, <2>6
  <2>8. \A rex : ReadsAs(DecodeOpcode(c, (p + n) + 1, rex, At(c, p + n)), x, p + Len(code))
    BY <2>2, <2>5, <2>7, ReadsBranch
  <2>9. ~(n = 1) /\ ~PrefixByte(At(c, p + n))
    BY <2>2, <2>6, <2>7
  <2> QED
    BY <1>5, <2>7, <2>8, <2>9, PlainInstruction
<1> QED
  BY <1>4, <1>5, <1>6 DEF EncodingIs

LEMMA BranchEncoding ==
  ASSUME NEW c \in Seq(Byte), NEW p \in Nat, NEW x, NEW t \in Int, IsBranch(x, t),
         x.mnemonic = "Jcc" => x.cc \in 0 .. 15, NEW code,
         \/ x.mnemonic = "CALL" /\ code \in Far(<< 232 >>, t, p)
         \/ x.mnemonic = "JMP" /\ code \in Far(<< 233 >>, t, p) \cup Near(235, t, p)
         \/ x.mnemonic = "Jcc" /\ code \in Far(<<15, 128 + x.cc>>, t, p) \cup Near(112 + x.cc, t, p)
  PROVE EncodingIs(c, p, x, code)
<1>1. \A b \in {232, 233, 235} : b \in Byte /\ ~PrefixByte(b)
  BY DEF Byte, PrefixByte, IsRex
<1>2. CASE x.mnemonic = "CALL"
  <2>1. PICK b \in Byte : b = 232 /\ ~PrefixByte(b)
    BY <1>1
  <2>2. \A rex, q : DecodeOpcode(c, q, rex, b) = BranchRel32(c, q, MeantName(x))
    BY <1>2, <2>1, BranchOp DEF MeantName
  <2> QED
    BY <1>2, <2>1, <2>2, FarEncoding
<1>3. CASE x.mnemonic = "JMP" /\ code \in Far(<< 233 >>, t, p)
  <2>1. PICK b \in Byte : b = 233 /\ ~PrefixByte(b)
    BY <1>1
  <2>2. \A rex, q : DecodeOpcode(c, q, rex, b) = BranchRel32(c, q, MeantName(x))
    BY <1>3, <2>1, BranchOp DEF MeantName
  <2> QED
    BY <1>3, <2>1, <2>2, FarEncoding
<1>4. CASE x.mnemonic = "JMP" /\ code \in Near(235, t, p)
  <2>1. PICK b \in Byte : b = 235 /\ ~PrefixByte(b)
    BY <1>1
  <2>2. \A rex, q : DecodeOpcode(c, q, rex, b) = BranchRel8(c, q, MeantName(x))
    BY <1>4, <2>1, BranchOp DEF MeantName
  <2> QED
    BY <1>4, <2>1, <2>2, NearEncoding
<1>5. CASE x.mnemonic = "Jcc" /\ code \in Far(<<15, 128 + x.cc>>, t, p)
  BY <1>5, FarJccEncoding
<1>6. CASE x.mnemonic = "Jcc" /\ code \in Near(112 + x.cc, t, p)
  <2>1. x.cc \in 0 .. 15
    BY <1>6
  <2>2. PICK b \in 112 .. 127 : b = 112 + x.cc /\ b \in Byte /\ ~PrefixByte(b) /\ b - 111 = x.cc + 1
    <3>1. PICK cc \in 0 .. 15 : cc = x.cc
      BY <2>1
    <3>2. 112 + cc \in 112 .. 127 /\ 112 + cc \in Byte /\ (112 + cc) - 111 = cc + 1
      BY SMT DEF Byte
    <3>3. ~PrefixByte(112 + cc)
      BY SMT DEF PrefixByte, IsRex
    <3> QED
      BY <3>1, <3>2, <3>3, Zenon
  <2>3. \A rex, q : DecodeOpcode(c, q, rex, b) = BranchRel8(c, q, MeantName(x))
    <3>1. \A rex, q : DecodeOpcode(c, q, rex, b) = BranchRel8(c, q, JccName[b - 111])
      BY JccOp, Zenon
    <3>2. JccName[b - 111] = MeantName(x)
      BY <1>6, <2>2, Zenon DEF MeantName
    <3> QED
      BY <3>1, <3>2, Zenon
  <2> QED
    BY <1>6, <2>2, <2>3, NearEncoding
<1> QED
  BY <1>2, <1>3, <1>4, <1>5, <1>6

-----------------------------------------------------------------------------
(* Moves of an immediate. *)
LEMMA StoreEncoding ==
  ASSUME NEW c \in Seq(Byte), NEW p \in Nat, NEW x, x.mnemonic = "MOV",
         NEW dst \in RegOperand \cup MemOperand, NEW imm \in ImmOperand, x.ops = <<dst, imm>>,
         SInt32(imm), NEW form \in ModRMForms(199, 0, dst),
         NEW code, code = form \o LittleEndian(imm[2], 4)
  PROVE EncodingIs(c, p, x, code)
<1>1. PICK opcode \in Byte : opcode = 199 /\ ~PrefixByte(opcode)
  BY DEF Byte, PrefixByte, IsRex
<1>2. PICK reg \in Register : reg = 0
  BY DEF Register
<1>3. ModRMIs(c, p, opcode, reg, dst, form) /\ form \in Seq(Byte) /\ form # <<>>
  <2>1. form \in ModRMForms(opcode, reg, dst)
    BY <1>1, <1>2
  <2>2. ModRMIs(c, p, opcode, reg, dst, form)
    BY <1>1, <1>2, <2>1, ModRMAlone
  <2> QED
    BY <2>2 DEF ModRMIs
<1>4. imm[2] \in Word32 /\ imm = Imm(imm[2])
  BY Operands DEF SInt32, Imm, Wide
<1>5. PICK word \in Seq(Byte) : word = LittleEndian(imm[2], 4) /\ Len(word) = 4
  BY <1>4, WordIsInteger, LittleEndianBytes
<1>6. Len(form) \in Nat /\ Len(form) > 0
  BY <1>3, LenProperties, EmptySeq
<1>7. code \in Seq(Byte) /\ Len(code) = Len(form) + 4 /\ code = form \o word
  <2>1. code = form \o word
    BY <1>5
  <2> QED
    <3>1. form \o word \in Seq(Byte) /\ Len(form \o word) = Len(form) + 4
      BY ONLY <1>3, <1>5, ConcatLen
    <3> QED
      BY <2>1, <3>1, Zenon
<1>8. code # <<>>
  <2>1. Len(code) # 0
    BY <1>6, <1>7
  <2> QED
    BY <2>1, NotEmpty
<1>9. ASSUME Has(c, p, code) PROVE InstructionAt(c, p, x, p + Len(code))
  <2>1. Has(c, p, form) /\ Has(c, p + Len(form), word)
    BY <1>3, <1>5, <1>7, <1>9, HasConcat
  <2>2. PICK e : ModRMFound(c, p, e, opcode, reg, dst, p + Len(form))
    BY <1>3, <2>1 DEF ModRMIs
  <2>3. Signed32(c, p + Len(form)) = imm[2]
    <3>1. PICK q \in Nat : q = p + Len(form)
      BY <1>6
    <3> QED
      BY <1>4, <1>5, <2>1, <3>1, ReadsWord
  <2>4. PICK m : m = DecodeModRM(c, e + 1, LastRex(c, p, e))
    OBVIOUS
  <2>5. m.p = p + Len(form) /\ (ReadsOperands(x) => m.rm = dst)
    BY <2>2, <2>4, PairOfOperands DEF ModRMFound
  <2>6. DecodeOpcode(c, e + 1, LastRex(c, p, e), At(c, e)) = StoreImmediate(c, m)
    BY <1>1, <2>2, <2>4, OtherOp DEF ModRMFound
  <2>7. StoreImmediate(c, m) = XInst("MOV", <<m.rm, imm>>, (p + Len(form)) + 4)
    BY <1>4, <2>3, <2>5 DEF StoreImmediate
  <2>8. (p + Len(form)) + 4 = p + Len(code) /\ p + Len(form) <= p + Len(code)
    <3>1. PICK n \in Nat : n = Len(form)
      BY <1>6
    <3>2. Len(code) = n + 4
      BY <1>7, <3>1
    <3>3. (p + n) + 4 = p + (n + 4) /\ p + n <= p + (n + 4)
      BY SMT
    <3> QED
      BY <3>1, <3>2, <3>3, Zenon
  <2>9. ReadsAs(XInst("MOV", <<m.rm, imm>>, p + Len(code)), x, p + Len(code))
    BY <2>5 DEF ReadsAs, XInst, Supported, MeantName
  <2>10. e \in Nat /\ e < p + Len(code)
    BY <1>6, <1>7, <2>2, <2>8 DEF ModRMFound
  <2> QED
    BY <2>2, <2>6, <2>7, <2>8, <2>9, <2>10 DEF ModRMFound, InstructionAt
<1> QED
  BY <1>7, <1>8, <1>9 DEF EncodingIs

FixedMove(x, r, imm, w, bytes, code) ==
  /\ x.mnemonic = "MOV" /\ r \in Register /\ imm \in ImmOperand /\ x.ops = <<XReg(r), imm>>
  /\ w \in {0, 1} /\ (w = 0 => imm[3] = 0)
  /\ bytes = IF w = 1 THEN LittleEndian(imm[2], 4) \o LittleEndian(imm[3], 4)
             ELSE LittleEndian(imm[2], 4)
  /\ code = (Rex(w, 0, 0, r) \o <<184 + Low3(r)>>) \o bytes

\* The opcode with the register in it; then all eight bytes, or four.
LEMMA FixedEncoding ==
  ASSUME NEW c \in Seq(Byte), NEW p \in Nat, NEW x, NEW r, NEW imm, NEW w, NEW bytes, NEW code,
         FixedMove(x, r, imm, w, bytes, code)
  PROVE EncodingIs(c, p, x, code)
<1>0. /\ x.mnemonic = "MOV" /\ r \in Register /\ imm \in ImmOperand /\ x.ops = <<XReg(r), imm>>
      /\ w \in {0, 1} /\ (w = 0 => imm[3] = 0)
      /\ bytes = IF w = 1 THEN LittleEndian(imm[2], 4) \o LittleEndian(imm[3], 4)
                 ELSE LittleEndian(imm[2], 4)
      /\ code = (Rex(w, 0, 0, r) \o <<184 + Low3(r)>>) \o bytes
  BY Zenon DEF FixedMove
<1> USE <1>0
<1>1. PICK op \in Byte : op = 184 + Low3(r) /\ ~PrefixByte(op)
  BY OpcodeBits
<1>2. PICK head : head = Rex(w, 0, 0, r) \o <<op>>
  OBVIOUS
<1>3. RexOpcodeIs(c, p, w, r, op, head) /\ head \in Seq(Byte) /\ Len(head) \in Nat
  <2>1. r \in Int
    BY DEF Register
  <2>2. RexOpcodeIs(c, p, w, r, op, head)
    BY <1>1, <1>2, <2>1, RexOpcode
  <2> QED
    BY <2>2 DEF RexOpcodeIs
<1>4. /\ imm = Wide(imm[2], imm[3]) /\ imm[2] \in Word32 /\ imm[3] \in Word32 /\ IsImm(imm)
      /\ imm[2] \in Int /\ imm[3] \in Int
  BY Operands, WordIsInteger
<1>5. PICK low \in Seq(Byte), high \in Seq(Byte) :
        /\ low = LittleEndian(imm[2], 4) /\ Len(low) = 4
        /\ high = LittleEndian(imm[3], 4) /\ Len(high) = 4
  BY <1>4, LittleEndianBytes
<1>6. bytes \in Seq(Byte) /\ Len(bytes) = IF w = 1 THEN 8 ELSE 4
  <2>1. CASE w = 1
    <3>1. bytes = low \o high
      BY <1>5, <2>1
    <3>2. bytes \in Seq(Byte) /\ Len(bytes) = 4 + 4
      <4>1. low \o high \in Seq(Byte) /\ Len(low \o high) = Len(low) + 4
        BY ONLY <1>5, ConcatLen
      <4> QED
        BY <1>5, <3>1, <4>1, Zenon
    <3>3. 4 + 4 = 8
      BY SMT
    <3> QED
      BY <2>1, <3>2, <3>3, Zenon
  <2>2. CASE w = 0
    <3>1. bytes = low
      BY <1>5, <2>2
    <3> QED
      BY <1>5, <2>2, <3>1
  <2> QED
    BY <2>1, <2>2
<1>7. code = head \o bytes
  BY <1>1, <1>2
<1>8. code \in Seq(Byte) /\ Len(code) = Len(head) + Len(bytes)
  <2>1. head \o bytes \in Seq(Byte) /\ Len(head \o bytes) = Len(head) + Len(bytes)
    BY ONLY <1>3, <1>6, ConcatProperties
  <2> QED
    BY <1>7, <2>1, Zenon
<1>9. PICK n \in {4, 8} : n = Len(bytes) /\ (w = 1 => n = 8) /\ (w = 0 => n = 4)
  BY ONLY <1>0, <1>6
<1>10. ASSUME Has(c, p, code) PROVE InstructionAt(c, p, x, p + Len(code))
  <2>0. Has(c, p, head \o bytes)
    BY <1>7, <1>10, Zenon
  <2>1. PICK q \in Nat : q = p + Len(head)
    BY <1>3
  <2>2. Has(c, p, head) /\ Has(c, q, bytes)
    BY ONLY c \in Seq(Byte), p \in Nat, <1>3, <1>6, <2>0, <2>1, HasConcat
  <2>3. PICK e \in Nat : OpcodeFound(c, p, e, w, 0, 0, r) /\ At(c, e) = op /\ e + 1 = q
    BY <1>3, <2>1, <2>2 DEF RexOpcodeIs
  <2>9. p + Len(code) = q + n /\ e < q + n
    <3>1. PICK m \in Nat : m = Len(head)
      BY <1>3
    <3>2. Len(code) = m + n /\ q = p + m
      BY <1>8, <1>9, <2>1, <3>1
    <3> QED
      BY ONLY p \in Nat, <1>9, <2>3, <3>1, <3>2
  <2>4. PICK rex : rex = LastRex(c, p, e)
    OBVIOUS
  <2>5. B(rex) = High(r) /\ (W(rex) <=> w = 1)
    BY <2>3, <2>4 DEF OpcodeFound, RexIs
  <2>6. DecodeOpcode(c, e + 1, rex, op) = MoveImmediate(c, q, XReg(r), W(rex))
    <3>1. Low3(r) \in 0 .. 7 /\ RegFromBits(op, B(rex)) = r
      BY <1>1, <2>5, OpcodeBits
    <3>2. op \in 184 .. 191
      BY <1>1, <3>1, SMT
    <3>3. DecodeOpcode(c, q, rex, op) = MoveImmediate(c, q, XReg(RegFromBits(op, B(rex))), W(rex))
      BY <3>2, MoveOp, Zenon
    <3> QED
      BY <2>3, <3>1, <3>3, Zenon
  <2>7. CASE w = 1
    <3>1. bytes = low \o high
      BY <1>5, <2>7
    <3>2. Has(c, q, LittleEndian(imm[2], 4)) /\ Has(c, q + 4, LittleEndian(imm[3], 4))
      <4>1. Has(c, q, low) /\ Has(c, q + Len(low), high)
        BY <1>5, <2>1, <2>2, <3>1, HasConcat
      <4> QED
        BY <1>5, <4>1, Zenon
    <3>3. q + 4 \in Nat
      BY <2>1
    <3>4. Signed32(c, q) = imm[2] /\ Signed32(c, q + 4) = imm[3]
      BY <1>4, <3>2, <3>3, ReadsWord
    <3>5. MoveImmediate(c, q, XReg(r), W(rex)) = XInst("MOV", <<XReg(r), imm>>, q + 8)
      BY <1>4, <2>5, <2>7, <3>4 DEF MoveImmediate
    <3>6. q + 8 = p + Len(code) /\ e < p + Len(code)
      BY <1>9, <2>7, <2>9
    <3>7. ReadsAs(XInst("MOV", <<XReg(r), imm>>, p + Len(code)), x, p + Len(code))
      BY DEF ReadsAs, XInst, Supported, MeantName
    <3> QED
      BY <2>3, <2>4, <2>6, <3>5, <3>6, <3>7 DEF OpcodeFound, RexIs, InstructionAt
  <2>8. CASE w = 0
    <3>1. bytes = LittleEndian(imm[2], 4) /\ ~W(rex) /\ imm[3] = 0
      BY <2>5, <2>8
    <3>2. Signed32(c, q) = imm[2]
      BY <1>4, <2>2, <3>1, ReadsWord
    <3>3. MoveImmediate(c, q, XReg(r), W(rex)) = XInst("MOV", <<XReg(r), Imm(imm[2])>>, q + 4)
      BY <3>1, <3>2 DEF MoveImmediate
    <3>4. q + 4 = p + Len(code) /\ e < p + Len(code)
      BY <1>9, <2>8, <2>9
    <3>5. ReadsOperands(x) => Imm(imm[2]) = imm
      <4>1. Len(x.ops) = 2 /\ x.ops[2] = imm /\ 2 \in 1 .. Len(x.ops)
        OBVIOUS
      <4>2. ReadsOperands(x) => imm[2] >= 0
        BY <1>4, <3>1, <4>1 DEF ReadsOperands
      <4>3. imm[2] >= 0 => Imm(imm[2]) = imm
        BY <1>4, <3>1 DEF Imm, Wide
      <4> QED
        BY <4>2, <4>3
    <3>6. ReadsAs(XInst("MOV", <<XReg(r), Imm(imm[2])>>, p + Len(code)), x, p + Len(code))
      BY <3>5 DEF ReadsAs, XInst, Supported, MeantName
    <3> QED
      BY <2>3, <2>4, <2>6, <3>3, <3>4, <3>6 DEF OpcodeFound, RexIs, InstructionAt
  <2> QED
    BY <2>7, <2>8
<1>11. code # <<>>
  <2>1. PICK m \in Nat : m = Len(head)
    BY <1>3
  <2>2. Len(code) = m + n
    BY <1>8, <1>9, <2>1, Zenon
  <2>3. m + n # 0
    BY <1>9
  <2>4. Len(code) # 0
    BY <2>2, <2>3, Zenon
  <2> QED
    BY <2>4, NotEmpty
<1> QED
  BY <1>8, <1>10, <1>11 DEF EncodingIs

LEMMA MoveEncoding ==
  ASSUME NEW c \in Seq(Byte), NEW p \in Nat, NEW x, x.mnemonic = "MOV",
         x.ops \in (RegOperand \cup MemOperand) \X ImmOperand,
         NEW code \in MoveForms(x.ops[1], x.ops[2])
  PROVE EncodingIs(c, p, x, code)
<1>1. PICK dst \in RegOperand \cup MemOperand, imm \in ImmOperand :
        x.ops = <<dst, imm>> /\ dst = x.ops[1] /\ imm = x.ops[2]
  OBVIOUS
<1>2. /\ IsReg(dst) => dst = XReg(dst[2]) /\ dst[2] \in Register
      /\ AddressBytes(imm, TRUE) = LittleEndian(imm[2], 4) \o LittleEndian(imm[3], 4)
  BY Operands DEF AddressBytes
<1>3. \/ SInt32(imm) /\ code \in {form \o LittleEndian(imm[2], 4) : form \in ModRMForms(199, 0, dst)}
      \/ /\ IsReg(dst)
         /\ code = (Rex(1, 0, 0, dst[2]) \o <<184 + Low3(dst[2])>>)
                     \o (LittleEndian(imm[2], 4) \o LittleEndian(imm[3], 4))
      \/ /\ IsReg(dst) /\ imm[3] = 0
         /\ code = (Rex(0, 0, 0, dst[2]) \o <<184 + Low3(dst[2])>>) \o LittleEndian(imm[2], 4)
  <2>1. code \in MoveForms(dst, imm)
    BY <1>1
  <2> QED
    BY <1>2, <2>1, Zenon DEF MoveForms
<1>4. CASE SInt32(imm) /\ code \in {form \o LittleEndian(imm[2], 4) : form \in ModRMForms(199, 0, dst)}
  <2>1. PICK form \in ModRMForms(199, 0, dst) : code = form \o LittleEndian(imm[2], 4)
    BY <1>4
  <2> QED
    BY <1>1, <1>4, <2>1, StoreEncoding
<1>5. CASE /\ IsReg(dst)
           /\ code = (Rex(1, 0, 0, dst[2]) \o <<184 + Low3(dst[2])>>)
                       \o (LittleEndian(imm[2], 4) \o LittleEndian(imm[3], 4))
  <2>1. PICK r \in Register : r = dst[2] /\ dst = XReg(r)
    BY <1>2, <1>5
  <2>2. PICK w \in {0, 1} : w = 1
    OBVIOUS
  <2>3. PICK bytes : bytes = LittleEndian(imm[2], 4) \o LittleEndian(imm[3], 4)
    OBVIOUS
  <2>4. /\ w = 0 => imm[3] = 0
        /\ bytes = IF w = 1 THEN LittleEndian(imm[2], 4) \o LittleEndian(imm[3], 4)
                   ELSE LittleEndian(imm[2], 4)
        /\ code = (Rex(w, 0, 0, r) \o <<184 + Low3(r)>>) \o bytes
        /\ x.ops = <<XReg(r), imm>>
    BY <1>1, <1>5, <2>1, <2>2, <2>3
  <2>5. FixedMove(x, r, imm, w, bytes, code)
    BY <1>1, <2>1, <2>2, <2>4, Zenon DEF FixedMove
  <2> QED
    BY <2>5, FixedEncoding
<1>6. CASE /\ IsReg(dst) /\ imm[3] = 0
           /\ code = (Rex(0, 0, 0, dst[2]) \o <<184 + Low3(dst[2])>>) \o LittleEndian(imm[2], 4)
  <2>1. PICK r \in Register : r = dst[2] /\ dst = XReg(r)
    BY <1>2, <1>6
  <2>2. PICK w \in {0, 1} : w = 0
    OBVIOUS
  <2>3. PICK bytes : bytes = LittleEndian(imm[2], 4)
    OBVIOUS
  <2>4. /\ w = 0 => imm[3] = 0
        /\ bytes = IF w = 1 THEN LittleEndian(imm[2], 4) \o LittleEndian(imm[3], 4)
                   ELSE LittleEndian(imm[2], 4)
        /\ code = (Rex(w, 0, 0, r) \o <<184 + Low3(r)>>) \o bytes
        /\ x.ops = <<XReg(r), imm>>
    BY <1>1, <1>6, <2>1, <2>2, <2>3
  <2>5. FixedMove(x, r, imm, w, bytes, code)
    BY <1>1, <2>1, <2>2, <2>4, Zenon DEF FixedMove
  <2> QED
    BY <2>5, FixedEncoding
<1> QED
  BY <1>3, <1>4, <1>5, <1>6

\* Every encoding of every instruction is read as the instruction.
LEMMA EncodingRead ==
  ASSUME NEW c \in Seq(Byte), NEW p \in Nat, NEW x, IsInstruction(x),
         NEW code \in Encodings(x, p)
  PROVE EncodingIs(c, p, x, code)
<1>1. CASE x.mnemonic \in {"RET", "NOP", "SYSCALL", "INT3", "UD2"} /\ x.ops = <<>>
  <2>1. \/ x.mnemonic = "RET" /\ code \in {<< 195 >>, <<243, 195>>}
        \/ x.mnemonic = "NOP" /\ code \in {<< 144 >>, <<102, 144>>}
        \/ x.mnemonic = "SYSCALL" /\ code = <<15, 5>>
        \/ x.mnemonic = "INT3" /\ code = << 204 >>
        \/ x.mnemonic = "UD2" /\ code = <<15, 11>>
    BY <1>1 DEF Encodings, MovesImmediate, BinaryOpcode
  <2> QED
    BY <1>1, <2>1, PlainEncoding
<1>2. CASE x.mnemonic \in {"PUSH", "POP"} /\ x.ops \in {<<r>> : r \in RegOperand}
  <2>1. PICK op \in RegOperand : x.ops = <<op>>
    BY <1>2
  <2>2. PICK r \in Register : op = XReg(r) /\ x.ops = <<XReg(r)>> /\ x.ops[1][2] = r
    BY <2>1, Operands
  <2>3. \/ x.mnemonic = "PUSH" /\ code = Rex(0, 0, 0, r) \o <<80 + Low3(r)>>
        \/ x.mnemonic = "POP" /\ code = Rex(0, 0, 0, r) \o <<88 + Low3(r)>>
    <3>1. CASE x.mnemonic = "PUSH"
      <4>1. Encodings(x, p) = {Rex(0, 0, 0, x.ops[1][2]) \o <<80 + Low3(x.ops[1][2])>>}
        BY <3>1 DEF Encodings, MovesImmediate, BinaryOpcode
      <4> QED
        BY <2>2, <3>1, <4>1, Zenon
    <3>2. CASE x.mnemonic = "POP"
      BY <2>2, <3>2 DEF Encodings, MovesImmediate, BinaryOpcode
    <3> QED
      BY <1>2, <3>1, <3>2
  <2> QED
    BY <2>2, <2>3, PushEncoding
<1>3. CASE /\ x.mnemonic \in {"CALL", "JMP", "Jcc"}
           /\ x.mnemonic = "Jcc" => x.cc \in 0 .. 15
           /\ x.ops = <<Imm(x.ops[1][2])>> /\ x.ops[1][2] \in Word32
  <2>1. PICK t \in Int : t = x.ops[1][2]
    BY <1>3, WordIsInteger
  <2>2. IsBranch(x, t)
    BY <1>3, <2>1 DEF IsBranch
  <2>3. \/ x.mnemonic = "CALL" /\ code \in Far(<< 232 >>, t, p)
        \/ x.mnemonic = "JMP" /\ code \in Far(<< 233 >>, t, p) \cup Near(235, t, p)
        \/ x.mnemonic = "Jcc" /\ code \in Far(<<15, 128 + x.cc>>, t, p) \cup Near(112 + x.cc, t, p)
    <3>1. CASE x.mnemonic = "CALL"
      <4>1. Encodings(x, p) = Far(<< 232 >>, x.ops[1][2], p)
        BY <3>1 DEF Encodings, MovesImmediate, BinaryOpcode
      <4> QED
        BY <2>1, <3>1, <4>1, Zenon
    <3>2. CASE x.mnemonic = "JMP"
      <4>1. Encodings(x, p) = Far(<< 233 >>, x.ops[1][2], p) \cup Near(235, x.ops[1][2], p)
        BY <3>2 DEF Encodings, MovesImmediate, BinaryOpcode
      <4> QED
        BY <2>1, <3>2, <4>1, Zenon
    <3>3. CASE x.mnemonic = "Jcc"
      <4>1. Encodings(x, p) = Far(<<15, 128 + x.cc>>, x.ops[1][2], p)
                                \cup Near(112 + x.cc, x.ops[1][2], p)
        BY <3>3 DEF Encodings, MovesImmediate, BinaryOpcode
      <4> QED
        BY <2>1, <3>3, <4>1, Zenon
    <3> QED
      BY <1>3, <3>1, <3>2, <3>3
  <2> QED
    BY <1>3, <2>2, <2>3, BranchEncoding
<1>4. CASE /\ x.mnemonic \in DOMAIN BinaryOpcode
           /\ \/ x.ops \in RegOperand \X (RegOperand \cup MemOperand)
              \/ x.ops \in MemOperand \X RegOperand
  <2>1. ~MovesImmediate(x)
    <3>1. x.ops[2] \in RegOperand \cup MemOperand
      BY <1>4
    <3> QED
      BY <3>1, Operands DEF MovesImmediate
  <2>2. code \in BinaryForms(x.mnemonic, x.ops[1], x.ops[2])
    BY <1>4, <2>1 DEF Encodings, BinaryOpcode
  <2> QED
    BY <1>4, <2>2, BinaryEncoding
<1>5. CASE x.mnemonic = "MOV" /\ x.ops \in (RegOperand \cup MemOperand) \X ImmOperand
  <2>1. MovesImmediate(x)
    <3>1. x.ops[2] \in ImmOperand
      BY <1>5
    <3> QED
      BY <1>5, <3>1, Operands DEF MovesImmediate
  <2>2. code \in MoveForms(x.ops[1], x.ops[2])
    BY <1>5, <2>1 DEF Encodings
  <2> QED
    BY <1>5, <2>2, MoveEncoding
<1> QED
  BY <1>1, <1>2, <1>3, <1>4, <1>5 DEF IsInstruction

-----------------------------------------------------------------------------
(* Inputs cut short: what is decoded from a shorter input, without reading *)
(* beyond it, is decoded from a longer one.                                *)
Agree(c, d) ==
  /\ Len(c) <= Len(d)
  /\ \A k \in Nat : k < Len(c) => At(c, k) = At(d, k)

LEMMA WordLocal ==
  ASSUME NEW c \in Seq(Byte), NEW d \in Seq(Byte), Agree(c, d), NEW p \in Nat, p + 4 <= Len(c)
  PROVE Signed32(d, p) = Signed32(c, p)
<1>1. /\ p < Len(c) /\ p + 1 < Len(c) /\ p + 2 < Len(c) /\ p + 3 < Len(c)
      /\ p + 1 \in Nat /\ p + 2 \in Nat /\ p + 3 \in Nat
  BY LenProperties
<1>2. /\ At(c, p) = At(d, p) /\ At(c, p + 1) = At(d, p + 1)
      /\ At(c, p + 2) = At(d, p + 2) /\ At(c, p + 3) = At(d, p + 3)
  BY <1>1 DEF Agree
<1> QED
  BY <1>2 DEF Signed32, Unsigned16

LEMMA MemoryLocal ==
  ASSUME NEW c \in Seq(Byte), NEW d \in Seq(Byte), Agree(c, d), NEW p \in Nat,
         NEW rex, NEW mod \in 0 .. 3, NEW rm \in 0 .. 7,
         DecodeMemory(c, p, rex, mod, rm).p <= Len(c)
  PROVE DecodeMemory(d, p, rex, mod, rm) = DecodeMemory(c, p, rex, mod, rm)
<1>1. /\ Len(c) \in Nat
      /\ AfterSib(p, rm) \in Nat /\ p <= AfterSib(p, rm) /\ (rm = 4 => AfterSib(p, rm) = p + 1)
  BY LenProperties DEF AfterSib
<1>2. AfterSib(p, rm) + (IF LongAt(c, p, mod, rm) THEN 4 ELSE mod) <= Len(c)
  BY MemoryEnd
<1>3. AfterSib(p, rm) <= Len(c)
  <2>1. CASE LongAt(c, p, mod, rm)
    BY <1>1, <1>2, <2>1
  <2>2. CASE ~LongAt(c, p, mod, rm)
    BY <1>1, <1>2, <2>2
  <2> QED
    BY <2>1, <2>2
<1>4. rm = 4 => At(d, p) = At(c, p)
  <2>1. rm = 4 => p < Len(c)
    BY <1>1, <1>3
  <2> QED
    BY <2>1 DEF Agree
<1>5. LongAt(d, p, mod, rm) <=> LongAt(c, p, mod, rm)
  BY <1>4 DEF LongAt, NoBaseAt
<1>6. /\ BaseAt(d, p, rex, mod, rm) = BaseAt(c, p, rex, mod, rm)
      /\ IndexAt(d, p, rex, rm) = IndexAt(c, p, rex, rm)
      /\ ScaleAt(d, p, rm) = ScaleAt(c, p, rm)
  <2>1. CASE rm = 4
    BY <1>4, <2>1, Zenon DEF BaseAt, NoBaseAt, IndexAt, ScaleAt
  <2>2. CASE rm # 4
    BY <2>2, Zenon DEF BaseAt, NoBaseAt, IndexAt, ScaleAt
  <2> QED
    BY <2>1, <2>2
<1>7. DispAt(d, p, mod, rm) = DispAt(c, p, mod, rm)
  <2>1. PICK q \in Nat : q = AfterSib(p, rm)
    BY <1>1
  <2>2. CASE LongAt(c, p, mod, rm)
    <3>1. q + 4 <= Len(c)
      BY <1>2, <2>1, <2>2
    <3>2. Signed32(d, q) = Signed32(c, q)
      BY <3>1, WordLocal
    <3> QED
      BY <1>5, <2>1, <2>2, <3>2 DEF DispAt
  <2>3. CASE ~LongAt(c, p, mod, rm)
    <3>1. mod = 1 => q < Len(c)
      BY <1>1, <1>2, <2>1, <2>3
    <3>2. mod = 1 => At(d, q) = At(c, q)
      BY <3>1 DEF Agree
    <3> QED
      BY <1>5, <2>1, <2>3, <3>2 DEF DispAt
  <2> QED
    BY <2>2, <2>3
<1> QED
  BY <1>5, <1>6, <1>7, MemoryParts, Zenon

LEMMA ByteFields == \A b \in Byte : b \div 64 \in 0 .. 3 /\ b % 8 \in 0 .. 7
BY SMT DEF Byte

LEMMA ModRMLocal ==
  ASSUME NEW c \in Seq(Byte), NEW d \in Seq(Byte), Agree(c, d), NEW p \in Nat, NEW rex,
         DecodeModRM(c, p, rex).p <= Len(c)
  PROVE /\ DecodeModRM(d, p, rex) = DecodeModRM(c, p, rex)
        /\ DecodeModRM(c, p, rex).p \in Nat /\ p < DecodeModRM(c, p, rex).p
<1>1. At(c, p) \in Byte /\ Len(c) \in Nat
  BY AtIsByte, LenProperties
<1>2. PICK mod \in 0 .. 3, rm \in 0 .. 7 : mod = At(c, p) \div 64 /\ rm = At(c, p) % 8
  BY <1>1, ByteFields, Zenon
<1>3. PICK memory : memory = DecodeMemory(c, p + 1, rex, mod, rm)
  OBVIOUS
<1>4. DecodeModRM(c, p, rex).p = IF mod = 3 THEN p + 1 ELSE memory.p
  BY <1>2, <1>3 DEF DecodeModRM
<1>5. memory.p \in Nat /\ p < memory.p
  <2>1. memory.p = AfterSib(p + 1, rm) + (IF LongAt(c, p + 1, mod, rm) THEN 4 ELSE mod)
    BY <1>3, MemoryEnd
  <2>2. AfterSib(p + 1, rm) \in Nat /\ p < AfterSib(p + 1, rm)
    BY DEF AfterSib
  <2>3. CASE LongAt(c, p + 1, mod, rm)
    BY <2>1, <2>2, <2>3
  <2>4. CASE ~LongAt(c, p + 1, mod, rm)
    BY <2>1, <2>2, <2>4
  <2> QED
    BY <2>3, <2>4
<1>6. DecodeModRM(c, p, rex).p \in Nat /\ p < DecodeModRM(c, p, rex).p
  BY <1>4, <1>5
<1>7. At(d, p) = At(c, p)
  <2>1. p < Len(c)
    BY <1>1, <1>6
  <2> QED
    BY <2>1 DEF Agree
<1>8. mod # 3 => DecodeMemory(d, p + 1, rex, mod, rm) = memory
  <2>1. p + 1 \in Nat /\ (mod # 3 => memory.p <= Len(c))
    BY <1>4
  <2> QED
    BY <1>3, <2>1, MemoryLocal
<1>9. DecodeModRM(d, p, rex) = DecodeModRM(c, p, rex)
  <2>1. CASE mod = 3
    BY <1>2, <1>7, <2>1, Zenon DEF DecodeModRM
  <2>2. CASE mod # 3
    BY <1>2, <1>3, <1>7, <1>8, <2>2, Zenon DEF DecodeModRM
  <2> QED
    BY <2>1, <2>2
<1> QED
  BY <1>6, <1>9

\* What a decoded instruction is taken to be.
Taken(r, c) == r.ok /\ r.end <= Len(c)

LEMMA XInstParts ==
  ASSUME NEW m, NEW ops, NEW end
  PROVE /\ XInst(m, ops, end).ok /\ XInst(m, ops, end).end = end
        /\ XInst(m, ops, end).mnemonic = m /\ XInst(m, ops, end).ops = ops
        /\ ~Throws.ok
BY DEF XInst, Throws

LEMMA BranchLocal ==
  ASSUME NEW c \in Seq(Byte), NEW d \in Seq(Byte), Agree(c, d), NEW p \in Nat, NEW m
  PROVE /\ Taken(BranchRel8(c, p, m), c) => BranchRel8(d, p, m) = BranchRel8(c, p, m)
        /\ Taken(BranchRel32(c, p, m), c) => BranchRel32(d, p, m) = BranchRel32(c, p, m)
<1>1. ASSUME Taken(BranchRel8(c, p, m), c) PROVE BranchRel8(d, p, m) = BranchRel8(c, p, m)
  <2>1. p + 1 <= Len(c)
    BY <1>1, XInstParts DEF Taken, BranchRel8
  <2>2. p < Len(c)
    BY <2>1, LenProperties
  <2>3. At(d, p) = At(c, p)
    BY <2>2 DEF Agree
  <2> QED
    BY <2>3 DEF BranchRel8
<1>2. ASSUME Taken(BranchRel32(c, p, m), c) PROVE BranchRel32(d, p, m) = BranchRel32(c, p, m)
  <2>1. p + 4 <= Len(c)
    BY <1>2, XInstParts DEF Taken, BranchRel32
  <2>2. Signed32(d, p) = Signed32(c, p)
    BY <2>1, WordLocal
  <2> QED
    BY <2>2 DEF BranchRel32
<1> QED
  BY <1>1, <1>2

LEMMA MoveLocal ==
  ASSUME NEW c \in Seq(Byte), NEW d \in Seq(Byte), Agree(c, d), NEW p \in Nat, NEW reg, NEW wide,
         Taken(MoveImmediate(c, p, reg, wide), c)
  PROVE MoveImmediate(d, p, reg, wide) = MoveImmediate(c, p, reg, wide)
<1>1. CASE wide
  <2>1. p + 8 <= Len(c)
    BY <1>1, XInstParts DEF Taken, MoveImmediate
  <2>2. p + 4 <= Len(c) /\ p + 4 \in Nat /\ (p + 4) + 4 <= Len(c)
    BY <2>1, LenProperties
  <2>3. Signed32(d, p) = Signed32(c, p) /\ Signed32(d, p + 4) = Signed32(c, p + 4)
    BY <2>2, WordLocal
  <2> QED
    BY <1>1, <2>3 DEF MoveImmediate
<1>2. CASE ~wide
  <2>1. p + 4 <= Len(c)
    BY <1>2, XInstParts DEF Taken, MoveImmediate
  <2>2. Signed32(d, p) = Signed32(c, p)
    BY <2>1, WordLocal
  <2> QED
    BY <1>2, <2>2 DEF MoveImmediate
<1> QED
  BY <1>1, <1>2

LEMMA SecondLocal ==
  ASSUME NEW c \in Seq(Byte), NEW d \in Seq(Byte), Agree(c, d), NEW p \in Nat,
         Taken(DecodeSecond(c, p), c)
  PROVE DecodeSecond(d, p) = DecodeSecond(c, p)
<1>1. Len(c) \in Nat /\ p + 1 \in Nat
  BY LenProperties
<1>2. CASE At(c, p) = 5
  <2>1. DecodeSecond(c, p) = XInst("SYSCALL", <<>>, p + 1)
    BY <1>2 DEF DecodeSecond
  <2>2. p < Len(c)
    BY <1>1, <2>1, XInstParts DEF Taken
  <2>3. At(d, p) = At(c, p)
    BY <2>2 DEF Agree
  <2> QED
    BY <1>2, <2>1, <2>3 DEF DecodeSecond
<1>3. CASE At(c, p) \in 128 .. 143
  <2>1. DecodeSecond(c, p) = BranchRel32(c, p + 1, JccName[At(c, p) - 127])
    BY <1>3 DEF DecodeSecond
  <2>2. p < Len(c)
    BY <1>1, <2>1, XInstParts DEF Taken, BranchRel32
  <2>3. At(d, p) = At(c, p)
    BY <2>2 DEF Agree
  <2>4. DecodeSecond(d, p) = BranchRel32(d, p + 1, JccName[At(c, p) - 127])
    BY <1>3, <2>3 DEF DecodeSecond
  <2> QED
    BY <1>1, <2>1, <2>4, BranchLocal
<1>4. CASE At(c, p) # 5 /\ At(c, p) \notin 128 .. 143
  <2>1. DecodeSecond(c, p) = Throws
    BY <1>4 DEF DecodeSecond
  <2> QED
    BY <2>1, XInstParts DEF Taken
<1> QED
  BY <1>2, <1>3, <1>4

LEMMA OpcodeLocal ==
  ASSUME NEW c \in Seq(Byte), NEW d \in Seq(Byte), Agree(c, d), NEW p \in Nat, NEW rex,
         NEW op \in Byte, Taken(DecodeOpcode(c, p, rex, op), c)
  PROVE DecodeOpcode(d, p, rex, op) = DecodeOpcode(c, p, rex, op)
<1>1. CASE op \in 80 .. 95
  BY <1>1 DEF DecodeOpcode
<1>2. CASE op \in 112 .. 127
  <2>1. /\ DecodeOpcode(c, p, rex, op) = BranchRel8(c, p, JccName[op - 111])
        /\ DecodeOpcode(d, p, rex, op) = BranchRel8(d, p, JccName[op - 111])
    BY <1>2, JccOp, Zenon
  <2> QED
    BY <2>1, BranchLocal
<1>3. CASE op \in 184 .. 191
  <2>1. PICK reg : reg = XReg(RegFromBits(op, B(rex)))
    OBVIOUS
  <2>2. /\ DecodeOpcode(c, p, rex, op) = MoveImmediate(c, p, reg, W(rex))
        /\ DecodeOpcode(d, p, rex, op) = MoveImmediate(d, p, reg, W(rex))
    BY <1>3, <2>1, MoveOp, Zenon
  <2> QED
    BY <2>2, MoveLocal
<1>4. CASE op \in {1, 9, 33, 41, 49, 57, 137}
  <2>1. /\ DecodeOpcode(c, p, rex, op) = BinaryRmReg(Binary[op], DecodeModRM(c, p, rex))
        /\ DecodeOpcode(d, p, rex, op) = BinaryRmReg(Binary[op], DecodeModRM(d, p, rex))
    BY <1>4, BinaryOp
  <2>2. DecodeModRM(c, p, rex).p <= Len(c)
    BY <2>1, XInstParts DEF Taken, BinaryRmReg
  <2> QED
    BY <2>1, <2>2, ModRMLocal
<1>5. CASE op - 2 \in {1, 9, 33, 41, 49, 57, 137}
  <2>1. PICK low \in {1, 9, 33, 41, 49, 57, 137} : low = op - 2
    BY <1>5
  <2>2. low + 2 = op
    BY <2>1 DEF Byte
  <2>3. /\ DecodeOpcode(c, p, rex, op) = BinaryRegRm(Binary[low], DecodeModRM(c, p, rex))
        /\ DecodeOpcode(d, p, rex, op) = BinaryRegRm(Binary[low], DecodeModRM(d, p, rex))
    BY <2>2, BinaryOp
  <2>4. DecodeModRM(c, p, rex).p <= Len(c)
    BY <2>3, XInstParts DEF Taken, BinaryRegRm
  <2> QED
    BY <2>3, <2>4, ModRMLocal
<1>6. CASE op = 199
  <2>1. PICK m : m = DecodeModRM(c, p, rex)
    OBVIOUS
  <2>2. /\ DecodeOpcode(c, p, rex, op) = StoreImmediate(c, m)
        /\ DecodeOpcode(d, p, rex, op) = StoreImmediate(d, DecodeModRM(d, p, rex))
    BY <1>6, <2>1, OtherOp
  <2>3. m.p + 4 <= Len(c)
    BY <2>2, XInstParts DEF Taken, StoreImmediate
  <2>4. m.p <= Len(c)
    <3>1. m.p \in Int
      <4>1. CASE At(c, p) \div 64 = 3
        BY <2>1, <4>1 DEF DecodeModRM
      <4>2. CASE At(c, p) \div 64 # 3
        <5>1. At(c, p) \in Byte
          BY AtIsByte
        <5>2. PICK mod \in 0 .. 3, rm \in 0 .. 7 : mod = At(c, p) \div 64 /\ rm = At(c, p) % 8
          BY <5>1, ByteFields, Zenon
        <5>3. m.p = DecodeMemory(c, p + 1, rex, mod, rm).p
          BY <2>1, <4>2, <5>2 DEF DecodeModRM
        <5>4. m.p = AfterSib(p + 1, rm) + (IF LongAt(c, p + 1, mod, rm) THEN 4 ELSE mod)
          BY <5>3, MemoryEnd
        <5>5. AfterSib(p + 1, rm) \in Int
          BY DEF AfterSib
        <5>6. CASE LongAt(c, p + 1, mod, rm)
          BY <5>4, <5>5, <5>6
        <5>7. CASE ~LongAt(c, p + 1, mod, rm)
          BY <5>2, <5>4, <5>5, <5>7
        <5> QED
          BY <5>6, <5>7
      <4> QED
        BY <4>1, <4>2
    <3> QED
      BY <2>3, <3>1, LenProperties
  <2>5. DecodeModRM(d, p, rex) = m /\ m.p \in Nat
    BY <2>1, <2>4, ModRMLocal
  <2>6. Signed32(d, m.p) = Signed32(c, m.p)
    <3>1. PICK q \in Nat : q = m.p
      BY <2>5
    <3> QED
      BY <2>3, <3>1, WordLocal
  <2> QED
    BY <2>2, <2>5, <2>6 DEF StoreImmediate
<1>7. CASE op = 15
  BY <1>7, OtherOp, SecondLocal
<1>8. CASE op \in {144, 195}
  BY <1>8, OtherOp
<1>9. CASE op \in {232, 233}
  <2>1. PICK name : /\ DecodeOpcode(c, p, rex, op) = BranchRel32(c, p, name)
                    /\ DecodeOpcode(d, p, rex, op) = BranchRel32(d, p, name)
    <3>1. PICK n \in 0 .. 15 : n = 0
      OBVIOUS
    <3>2. /\ \A s : DecodeOpcode(s, p, rex, 232) = BranchRel32(s, p, "CALL")
          /\ \A s : DecodeOpcode(s, p, rex, 233) = BranchRel32(s, p, "JMP")
      BY <3>1, BranchOp
    <3> QED
      BY <1>9, <3>2
  <2> QED
    BY <2>1, BranchLocal
<1>10. CASE op = 235
  <2>1. \A s : DecodeOpcode(s, p, rex, 235) = BranchRel8(s, p, "JMP")
    <3>1. PICK n \in 0 .. 15 : n = 0
      OBVIOUS
    <3> QED
      BY <3>1, BranchOp
  <2> QED
    BY <1>10, <2>1, BranchLocal
<1>11. CASE /\ op \notin 80 .. 95 /\ op \notin 112 .. 127 /\ op \notin 184 .. 191
            /\ op \notin {1, 9, 33, 41, 49, 57, 137} /\ op - 2 \notin {1, 9, 33, 41, 49, 57, 137}
            /\ op # 199 /\ op # 15 /\ op \notin {144, 195} /\ op \notin {232, 233} /\ op # 235
  <2>1. op \notin 80 .. 87 /\ op \notin 88 .. 95
    BY <1>11
  <2>2. op \notin DOMAIN Binary /\ op - 2 \notin DOMAIN Binary
    BY <1>11, BinaryOpcodes
  <2>3. DecodeOpcode(c, p, rex, op) = Throws
    BY <1>11, <2>1, <2>2 DEF DecodeOpcode
  <2> QED
    BY <2>3, XInstParts DEF Taken
<1> QED
  BY <1>1, <1>2, <1>3, <1>4, <1>5, <1>6, <1>7, <1>8, <1>9, <1>10, <1>11

\* A bounded set of positions has a last one.
LEMMA LastPosition ==
  ASSUME NEW p \in Nat, NEW e \in Nat, NEW S \in SUBSET (p .. e - 1), S # {}
  PROVE Max(S) \in S
<1> DEFINE T == {e - n : n \in S}
           Before == OpToRel(<, Nat)
<1>1. T \subseteq Nat /\ T # {}
  OBVIOUS
<1>2. PICK x \in T : \A y \in T : ~(<<y, x>> \in Before)
  <2>1. IsWellFoundedOn(Before, Nat)
    BY NatLessThanWellFounded
  <2> HIDE DEF T, Before
  <2> QED
    BY <1>1, <2>1, WFMin
<1>3. \A y \in T : ~(y < x)
  <2>1. ASSUME NEW y \in T, y < x PROVE <<y, x>> \in Before
    <3>1. <<y, x>> \in Nat \X Nat
      BY <1>1
    <3> QED
      BY <2>1, <3>1 DEF OpToRel
  <2> QED
    BY <1>2, <2>1
<1>4. PICK last \in S : x = e - last
  OBVIOUS
<1>5. ASSUME NEW n \in S PROVE last >= n
  <2>1. ~(e - n < x)
    BY <1>3
  <2> QED
    BY <1>4, <2>1
<1>6. \E m \in S : \A n \in S : m >= n
  BY <1>5
<1> QED
  BY <1>6 DEF Max

LEMMA LastRexLocal ==
  ASSUME NEW c, NEW d, NEW p \in Nat, NEW e \in Nat,
         \A k \in p .. e - 1 : At(c, k) = At(d, k)
  PROVE LastRex(c, p, e) = LastRex(d, p, e)
<1>1. PICK rexes \in SUBSET (p .. e - 1) :
        rexes = {n \in p .. e - 1 : IsRex(At(c, n))} /\ rexes = {n \in p .. e - 1 : IsRex(At(d, n))}
  OBVIOUS
<1>2. rexes # {} => At(c, Max(rexes)) = At(d, Max(rexes))
  BY LastPosition
<1> QED
  BY <1>1, <1>2 DEF LastRex

WrittenAt(c, p, code) == \A j \in 1 .. Len(code) : p + j <= Len(c) => c[p + j] = code[j]

LEMMA WrittenHas ==
  ASSUME NEW c \in Seq(Byte), NEW p \in Nat, NEW code \in Seq(Byte),
         WrittenAt(c, p, code), p + Len(code) <= Len(c)
  PROVE Has(c, p, code)
<1>1. Len(c) \in Nat /\ Len(code) \in Nat
  BY LenProperties
<1>2. ASSUME NEW k \in 1 .. Len(code) PROVE At(c, p + k - 1) = code[k]
  <2>1. p + k <= Len(c) /\ p + k - 1 < Len(c) /\ (p + k - 1) + 1 = p + k
    BY <1>1
  <2>2. c[p + k] = code[k]
    BY <2>1 DEF WrittenAt
  <2> QED
    BY <2>1, <2>2 DEF At
<1> QED
  BY <1>2 DEF Has

\* Where an instruction is written in full, it is decoded.
LEMMA WholeRead ==
  ASSUME NEW c \in Seq(Byte), NEW p \in Nat, NEW x, IsInstruction(x),
         NEW code \in Encodings(x, p), WrittenAt(c, p, code), p + Len(code) <= Len(c)
  PROVE ReadsAs(Next(c, p), x, p + Len(code))
<1>1. code \in Seq(Byte) /\ (Has(c, p, code) => InstructionAt(c, p, x, p + Len(code)))
  BY EncodingRead DEF EncodingIs
<1>2. PICK end \in Nat : end = p + Len(code) /\ end <= Len(c)
  BY <1>1, LenProperties
<1>3. PICK e \in Nat :
        /\ p <= e /\ e < end
        /\ \A k \in p .. e - 1 : PrefixByte(At(c, k))
        /\ ~PrefixByte(At(c, e))
        /\ ReadsAs(DecodeOpcode(c, e + 1, LastRex(c, p, e), At(c, e)), x, end)
  BY <1>1, <1>2, WrittenHas DEF InstructionAt
<1>4. PrefixEnd(c, p) = e
  <2>1. PICK n \in Nat : p + n = e /\ p + n <= Len(c)
    <3>1. e - p \in Nat /\ p + (e - p) = e /\ p + (e - p) <= Len(c)
      BY <1>2, <1>3, LenProperties
    <3> QED
      BY <3>1
  <2>2. /\ \A k \in p .. p + n - 1 : PrefixByte(At(c, k))
        /\ ~PrefixByte(At(c, p + n))
    BY <1>3, <2>1
  <2> QED
    BY <2>1, <2>2, PrefixFound
<1>5. PICK r : r = DecodeOpcode(c, e + 1, LastRex(c, p, e), At(c, e))
  OBVIOUS
<1>6. Next(c, p) = Inside(c, r)
  BY <1>4, <1>5 DEF Next
<1>7. ReadsAs(r, x, end)
  BY <1>3, <1>5
<1>8. Inside(c, r) = r
  <2>1. CASE Supported(x)
    BY <1>2, <1>7, <2>1 DEF ReadsAs, Inside
  <2>2. CASE ~Supported(x)
    BY <1>7, <2>2, XInstParts DEF ReadsAs, Inside
  <2> QED
    BY <2>1, <2>2
<1> QED
  BY <1>2, <1>6, <1>7, <1>8

\* An input that ends inside an instruction is the beginning of one that does not.
LEMMA Completed ==
  ASSUME NEW c \in Seq(Byte), NEW p \in Nat, NEW code \in Seq(Byte),
         WrittenAt(c, p, code), p < Len(c), Len(c) < p + Len(code)
  PROVE \E d \in Seq(Byte) : Agree(c, d) /\ Has(d, p, code)
<1>1. Len(c) \in Nat /\ Len(code) \in Nat
  BY LenProperties
<1>2. PICK end \in Nat : end = p + Len(code)
  BY <1>1
<1> DEFINE d == [j \in 1 .. end |-> IF j <= Len(c) THEN c[j] ELSE code[j - p]]
<1>3. ASSUME NEW j \in 1 .. end PROVE (IF j <= Len(c) THEN c[j] ELSE code[j - p]) \in Byte
  <2>1. CASE j <= Len(c)
    <3>1. j \in 1 .. Len(c)
      BY <1>1, <2>1
    <3>2. c[j] \in Byte
      BY <3>1, ElementOfSeq
    <3> QED
      BY <2>1, <3>2
  <2>2. CASE ~(j <= Len(c))
    <3>1. j - p \in 1 .. Len(code)
      BY <1>1, <1>2, <2>2
    <3>2. code[j - p] \in Byte
      BY <3>1, ElementOfSeq
    <3> QED
      BY <2>2, <3>2
  <2> QED
    BY <2>1, <2>2
<1>4. d \in [1 .. end -> Byte]
  BY <1>3
<1>5. d \in Seq(Byte) /\ Len(d) = end
  BY <1>4, SeqDef, LenProperties
<1>6. \A j \in 1 .. end : d[j] = IF j <= Len(c) THEN c[j] ELSE code[j - p]
  OBVIOUS
<1> HIDE DEF d
<1>7. ASSUME NEW k \in Nat, k < Len(c) PROVE At(c, k) = At(d, k)
  <2>1. k + 1 \in 1 .. end /\ k + 1 <= Len(c) /\ k < end
    BY <1>1, <1>2, <1>7
  <2>2. d[k + 1] = c[k + 1]
    BY <1>6, <2>1
  <2> QED
    BY <1>5, <1>7, <2>1, <2>2 DEF At
<1>8. Agree(c, d)
  BY <1>1, <1>2, <1>5, <1>7 DEF Agree
<1>9. ASSUME NEW k \in 1 .. Len(code) PROVE At(d, p + k - 1) = code[k]
  <2>1. /\ p + k \in 1 .. end /\ p + k - 1 < end /\ (p + k - 1) + 1 = p + k
        /\ (p + k) - p = k
    BY <1>1, <1>2
  <2>2. At(d, p + k - 1) = d[p + k]
    BY <1>5, <2>1 DEF At
  <2>3. d[p + k] = code[k]
    <3>1. CASE p + k <= Len(c)
      BY <1>6, <2>1, <3>1 DEF WrittenAt
    <3>2. CASE ~(p + k <= Len(c))
      BY <1>6, <2>1, <3>2
    <3> QED
      BY <3>1, <3>2
  <2> QED
    BY <2>2, <2>3
<1>10. Has(d, p, code)
  BY <1>2, <1>5, <1>9 DEF Has
<1> QED
  BY <1>5, <1>8, <1>10

\* Where the input ends inside an instruction, none is decoded.
LEMMA CutRead ==
  ASSUME NEW c \in Seq(Byte), NEW p \in Nat, NEW x, IsInstruction(x),
         NEW code \in Encodings(x, p), WrittenAt(c, p, code),
         p < Len(c), Len(c) < p + Len(code)
  PROVE ~Next(c, p).ok
<1>1. code \in Seq(Byte)
  BY EncodingRead DEF EncodingIs
<1>2. PICK d \in Seq(Byte) : Agree(c, d) /\ Has(d, p, code)
  BY <1>1, Completed
<1>3. PICK end \in Nat : end = p + Len(code) /\ Len(c) < end
  BY <1>1, LenProperties
<1>4. PICK e \in Nat :
        /\ p <= e /\ e < end
        /\ \A k \in p .. e - 1 : PrefixByte(At(d, k))
        /\ ~PrefixByte(At(d, e))
        /\ ReadsAs(DecodeOpcode(d, e + 1, LastRex(d, p, e), At(d, e)), x, end)
  <2>1. EncodingIs(d, p, x, code)
    BY <1>2, EncodingRead
  <2> QED
    BY <1>2, <1>3, <2>1 DEF EncodingIs, InstructionAt
<1>5. Len(c) \in Nat /\ (\A k \in Nat : k < Len(c) => At(c, k) = At(d, k))
  BY <1>2, LenProperties DEF Agree
<1>6. CASE e < Len(c)
  <2>1. \A k \in p .. e - 1 : At(c, k) = At(d, k)
    BY <1>5, <1>6
  <2>2. At(c, e) = At(d, e) /\ LastRex(c, p, e) = LastRex(d, p, e)
    BY <1>5, <1>6, <2>1, LastRexLocal
  <2>3. PrefixEnd(c, p) = e
    <3>1. PICK n \in Nat : p + n = e /\ p + n <= Len(c)
      <4>1. e - p \in Nat /\ p + (e - p) = e /\ p + (e - p) <= Len(c)
        BY <1>4, <1>6
      <4> QED
        BY <4>1
    <3>2. /\ \A k \in p .. p + n - 1 : PrefixByte(At(c, k))
          /\ ~PrefixByte(At(c, p + n))
      BY <1>4, <2>1, <2>2, <3>1
    <3> QED
      BY <3>1, <3>2, PrefixFound
  <2>4. PICK rex, op : rex = LastRex(c, p, e) /\ op = At(c, e)
    OBVIOUS
  <2>5. op \in Byte /\ e + 1 \in Nat
    BY <2>4, AtIsByte
  <2>6. PICK r : r = DecodeOpcode(c, e + 1, rex, op)
    OBVIOUS
  <2>7. Next(c, p) = Inside(c, r)
    BY <2>3, <2>4, <2>6 DEF Next
  <2>8. ASSUME Taken(r, c) PROVE FALSE
    <3>1. DecodeOpcode(d, e + 1, rex, op) = r
      BY <1>2, <2>5, <2>6, <2>8, OpcodeLocal
    <3>2. ReadsAs(r, x, end)
      BY <1>4, <2>2, <2>4, <3>1
    <3>3. CASE Supported(x)
      <4>1. r.end = end
        BY <3>2, <3>3 DEF ReadsAs
      <4>2. r.end <= Len(c)
        BY <2>8 DEF Taken
      <4> QED
        BY <1>3, <1>5, <4>1, <4>2
    <3>4. CASE ~Supported(x)
      BY <2>8, <3>2, <3>4, XInstParts DEF ReadsAs, Taken
    <3> QED
      BY <3>3, <3>4
  <2>9. Inside(c, r) = Throws
    BY <2>8 DEF Inside, Taken
  <2> QED
    BY <2>7, <2>9, XInstParts
<1>7. CASE ~(e < Len(c))
  <2>1. ASSUME NEW k \in p .. Len(c) - 1 PROVE PrefixByte(At(c, k))
    <3>1. k \in Nat /\ k < Len(c) /\ k \in p .. e - 1
      BY <1>5, <1>7
    <3> QED
      BY <1>4, <1>5, <3>1
  <2>2. PrefixEnd(c, p) = Len(c)
    <3>1. PICK n \in Nat : p + n = Len(c) /\ p + n <= Len(c)
      <4>1. PICK size \in Nat : size = Len(c)
        BY <1>5
      <4>2. PICK n \in Nat : p + n = size
        <5>1. size - p \in Nat /\ p + (size - p) = size
          BY ONLY p \in Nat, p < Len(c), <4>1
        <5> QED
          BY <5>1
      <4>3. p + n <= size
        BY <4>1, <4>2
      <4> QED
        BY <4>1, <4>2, <4>3, Zenon
    <3>2. \A k \in p .. p + n - 1 : PrefixByte(At(c, k))
      BY <2>1, <3>1
    <3> QED
      BY <3>1, <3>2, PrefixFound
  <2>3. At(c, Len(c)) = 0
    BY <1>5 DEF At
  <2>4. Next(c, p) = Inside(c, Throws)
    BY <2>2, <2>3, OtherOp DEF Next
  <2> QED
    BY <2>4, XInstParts DEF Inside
<1> QED
  BY <1>6, <1>7

-----------------------------------------------------------------------------
(* The inductive invariant.  What is written are encodings of the menu's   *)
(* instructions one after the other, as far as the input goes; what is     *)
(* decoded are the first of them, and the decoder is where the next one    *)
(* starts.                                                                 *)
IsSequence(s) == Len(s) \in Nat /\ s = [k \in 1 .. Len(s) |-> s[k]]

EndOf(k) == IF k = 0 THEN 0 ELSE written[k].end

\* Instruction w of the program is in the input, from w.at to w.end.
StandsInInput(w) ==
  /\ IsInstruction(w.inst) /\ w.at \in Nat /\ w.end \in Nat
  /\ \E code \in Encodings(w.inst, w.at) :
       w.end = w.at + Len(code) /\ WrittenAt(input, w.at, code)

WrittenInv ==
  /\ input \in Seq(Byte)
  /\ IsSequence(written)
  /\ \A k \in 1 .. Len(written) : StandsInInput(written[k]) /\ written[k].at = EndOf(k - 1)
  /\ Len(input) <= EndOf(Len(written))

OpenInv ==
  IF phase = "writing"
  THEN /\ \A k \in 1 .. Len(written) : written[k].end <= Len(input)
       /\ Len(input) = EndOf(Len(written))
       /\ insts = <<>> /\ pos = 0
  ELSE written # <<>> /\ written[Len(written)].at < Len(input)

ReadInv ==
  /\ IsSequence(insts) /\ Len(insts) <= Len(written)
  /\ \A k \in 1 .. Len(insts) : DecodedAs(insts[k], written[k])
  /\ pos = EndOf(Len(insts))

StopInv ==
  phase = "error" =>
    LET next == written[Len(insts) + 1]
    IN next.end > Len(input) \/ ~Supported(next.inst)

DecodeInv == WrittenInv /\ OpenInv /\ ReadInv /\ StopInv

LEMMA SequenceMade == ASSUME NEW S, NEW s \in Seq(S) PROVE IsSequence(s)
BY LenProperties DEF IsSequence

LEMMA EmptySequence == IsSequence(<<>>) /\ Len(<<>>) = 0
BY DEF IsSequence

LEMMA Appended ==
  ASSUME NEW s, IsSequence(s), NEW y
  PROVE /\ IsSequence(Append(s, y)) /\ Len(Append(s, y)) = Len(s) + 1
        /\ Append(s, y)[Len(s) + 1] = y /\ Append(s, y) # <<>>
        /\ \A k \in 1 .. Len(s) : Append(s, y)[k] = s[k]
<1>1. PICK n \in Nat : n = Len(s) /\ s = [k \in 1 .. n |-> s[k]]
  BY DEF IsSequence
<1>2. PICK S : S = {s[k] : k \in 1 .. n} \cup {y}
  OBVIOUS
<1>3. s \in [1 .. n -> S]
  <2>1. \A k \in 1 .. n : s[k] \in S
    BY <1>2
  <2> QED
    BY <1>1, <2>1, Zenon
<1>4. s \in Seq(S) /\ y \in S
  BY <1>2, <1>3, SeqDef
<1>5. /\ Append(s, y) \in Seq(S) /\ Len(Append(s, y)) = Len(s) + 1
      /\ \A i \in 1 .. Len(s) : Append(s, y)[i] = s[i]
      /\ Append(s, y)[Len(s) + 1] = y
  BY <1>4, AppendProperties
<1>6. Append(s, y) # <<>>
  BY <1>1, <1>5, EmptySeq, LenProperties
<1> QED
  BY <1>5, <1>6, SequenceMade

\* Initially.
LEMMA InitDecode == TransInit => DecodeInv
<1> SUFFICES ASSUME TransInit PROVE DecodeInv
  OBVIOUS
<1>1. input = <<>> /\ written = <<>> /\ insts = <<>> /\ pos = 0 /\ phase = "writing"
  BY DEF TransInit
<1>2. input \in Seq(Byte) /\ Len(input) = 0 /\ Len(written) = 0 /\ Len(insts) = 0
  BY <1>1, EmptySeq
<1>3. EndOf(Len(written)) = 0 /\ EndOf(Len(insts)) = 0
  BY <1>2 DEF EndOf
<1>4. \A k \in 1 .. 0 : FALSE
  OBVIOUS
<1>5. WrittenInv
  BY <1>1, <1>2, <1>3, <1>4, EmptySequence DEF WrittenInv
<1>6. OpenInv
  BY <1>1, <1>2, <1>3, <1>4 DEF OpenInv
<1>7. ReadInv
  BY <1>1, <1>2, <1>3, <1>4, EmptySequence DEF ReadInv
<1>8. StopInv
  BY <1>1 DEF StopInv
<1> QED
  BY <1>5, <1>6, <1>7, <1>8 DEF DecodeInv

\* Bytes appended to the input do not change what is before them.
LEMMA StaysWritten ==
  ASSUME NEW c \in Seq(Byte), NEW s \in Seq(Byte), NEW p \in Nat, NEW code \in Seq(Byte),
         WrittenAt(c, p, code), p + Len(code) <= Len(c)
  PROVE WrittenAt(c \o s, p, code)
<1>1. Len(c) \in Nat /\ Len(s) \in Nat /\ Len(code) \in Nat
  BY LenProperties
<1>2. ASSUME NEW j \in 1 .. Len(code) PROVE (c \o s)[p + j] = code[j]
  <2>1. p + j \in 1 .. Len(c) + Len(s) /\ p + j <= Len(c)
    BY <1>1
  <2>2. (c \o s)[p + j] = c[p + j]
    BY <2>1, ConcatProperties
  <2> QED
    BY <2>1, <2>2 DEF WrittenAt
<1> QED
  BY <1>2 DEF WrittenAt

LEMMA NewlyWritten ==
  ASSUME NEW c \in Seq(Byte), NEW code \in Seq(Byte)
  PROVE WrittenAt(c \o code, Len(c), code)
<1>1. Len(c) \in Nat /\ Len(code) \in Nat
  BY LenProperties
<1>2. ASSUME NEW j \in 1 .. Len(code) PROVE (c \o code)[Len(c) + j] = code[j]
  <2>1. /\ Len(c) + j \in 1 .. Len(c) + Len(code) /\ ~(Len(c) + j <= Len(c))
        /\ (Len(c) + j) - Len(c) = j
    BY <1>1
  <2> QED
    BY <2>1, ConcatProperties
<1> QED
  BY <1>2 DEF WrittenAt

LEMMA CutWritten ==
  ASSUME NEW c \in Seq(Byte), NEW size \in 0 .. Len(c), NEW p \in Nat, NEW code \in Seq(Byte),
         WrittenAt(c, p, code)
  PROVE /\ SubSeq(c, 1, size) \in Seq(Byte) /\ Len(SubSeq(c, 1, size)) = size
        /\ WrittenAt(SubSeq(c, 1, size), p, code)
<1>1. Len(c) \in Nat /\ size \in Nat
  BY LenProperties
<1>2. /\ SubSeq(c, 1, size) \in Seq(Byte) /\ Len(SubSeq(c, 1, size)) = size
      /\ \A i \in 1 .. size : SubSeq(c, 1, size)[i] = c[i]
  <2>1. /\ SubSeq(c, 1, size) = [i \in 1 .. size |-> c[i]]
    <3>1. (size - 1) + 1 = size /\ \A i \in 1 .. size : (1 + i) - 1 = i
      BY <1>1
    <3> QED
      BY <1>1, <3>1
  <2>2. \A i \in 1 .. size : c[i] \in Byte
    <3>1. \A i \in 1 .. size : i \in 1 .. Len(c)
      BY <1>1
    <3> QED
      BY <3>1, ElementOfSeq
  <2>3. SubSeq(c, 1, size) \in [1 .. size -> Byte]
    BY <2>1, <2>2
  <2> QED
    BY <1>1, <2>1, <2>3, SeqDef, LenProperties
<1>3. ASSUME NEW j \in 1 .. Len(code), p + j <= size
      PROVE SubSeq(c, 1, size)[p + j] = code[j]
  <2>1. p + j \in 1 .. size /\ p + j <= Len(c)
    BY <1>1, <1>3, LenProperties
  <2> QED
    BY <1>2, <2>1 DEF WrittenAt
<1> QED
  BY <1>2, <1>3 DEF WrittenAt

\* The program grows by an instruction.
LEMMA WriteStep == DecodeInv /\ WriteOne => DecodeInv'
<1> SUFFICES ASSUME DecodeInv, WriteOne PROVE DecodeInv'
  OBVIOUS
<1>1. /\ input \in Seq(Byte) /\ IsSequence(written) /\ Len(written) \in Nat
      /\ \A k \in 1 .. Len(written) : StandsInInput(written[k]) /\ written[k].at = EndOf(k - 1)
      /\ Len(input) \in Nat
  BY LenProperties DEF DecodeInv, WrittenInv, IsSequence
<1>2. PICK x \in Menu[Len(written) + 1] : \E code \in Encodings(x, Len(input)) :
        Len(written) < Len(Menu) /\ Write(x, code)
  BY DEF WriteOne
<1>3. PICK code \in Encodings(x, Len(input)) : Len(written) < Len(Menu) /\ Write(x, code)
  BY <1>2
<1>4. IsInstruction(x)
  <2>1. Len(written) + 1 \in 1 .. Len(Menu)
    BY <1>1, <1>3, MenuAssumption
  <2> QED
    BY <1>2, <2>1, MenuAssumption
<1>5. code \in Seq(Byte) /\ code # <<>> /\ Len(code) \in Nat
  <2>1. EncodingIs(input, Len(input), x, code)
    BY <1>1, <1>4, EncodingRead
  <2> QED
    BY <2>1, LenProperties DEF EncodingIs
<1>0. PICK w : w = [inst |-> x, at |-> Len(input), end |-> Len(input) + Len(code)]
  OBVIOUS
<1>6. /\ input' = input \o code /\ written' = Append(written, w)
      /\ phase = "writing" /\ phase' = "writing" /\ insts' = insts /\ pos' = pos
  BY <1>0, <1>3 DEF Write
<1>7. /\ input' \in Seq(Byte) /\ Len(input') = Len(input) + Len(code)
  BY <1>1, <1>5, <1>6, ConcatProperties
<1>8. /\ \A k \in 1 .. Len(written) : written[k].end <= Len(input)
      /\ Len(input) = EndOf(Len(written))
      /\ insts = <<>> /\ pos = 0
  BY <1>6 DEF DecodeInv, OpenInv
<1>9. w.inst = x /\ w.at = Len(input) /\ w.end = Len(input) + Len(code)
  BY <1>0
<1>10. /\ IsSequence(written') /\ Len(written') = Len(written) + 1
       /\ written'[Len(written) + 1] = w
       /\ \A k \in 1 .. Len(written) : written'[k] = written[k]
  BY <1>1, <1>6, Appended
<1>11. ASSUME NEW k \in 1 .. Len(written), NEW v, v = written'[k]
       PROVE StandsInInput(v)' /\ v.at = EndOf(k - 1)'
  <2>1. v = written[k]
    BY <1>10, <1>11
  <2>2. PICK text \in Encodings(v.inst, v.at) :
          v.end = v.at + Len(text) /\ WrittenAt(input, v.at, text)
    BY <1>1, <2>1 DEF StandsInInput
  <2>3. IsInstruction(v.inst) /\ v.at \in Nat /\ v.end \in Nat
    BY <1>1, <2>1 DEF StandsInInput
  <2>4. text \in Seq(Byte)
    BY <1>1, <2>2, <2>3, EncodingRead DEF EncodingIs
  <2>5. v.end <= Len(input)
    BY <1>8, <2>1
  <2>6. WrittenAt(input', v.at, text)
    BY <1>1, <1>5, <1>6, <2>2, <2>3, <2>4, <2>5, StaysWritten
  <2>7. EndOf(k - 1)' = EndOf(k - 1)
    <3>1. k - 1 = 0 \/ k - 1 \in 1 .. Len(written)
      BY <1>1
    <3> QED
      BY <1>10, <3>1 DEF EndOf
  <2>8. v.at = EndOf(k - 1)
    BY <1>1, <2>1
  <2>9. StandsInInput(v)'
    BY <1>11, <2>2, <2>3, <2>6 DEF StandsInInput
  <2> QED
    BY <2>7, <2>8, <2>9
<1>12. ASSUME NEW n, n = Len(written) PROVE StandsInInput(w)' /\ w.at = EndOf(n)'
  <2>1. WrittenAt(input', Len(input), code)
    BY <1>1, <1>5, <1>6, NewlyWritten
  <2>2. w.at \in Nat /\ w.end \in Nat /\ w.end = w.at + Len(code)
    BY <1>1, <1>5, <1>9
  <2>3. StandsInInput(w)'
    <3>1. code \in Encodings(w.inst, w.at) /\ IsInstruction(w.inst)
      BY <1>3, <1>4, <1>9
    <3>2. WrittenAt(input', w.at, code)
      BY <1>9, <2>1
    <3> QED
      BY <2>2, <3>1, <3>2 DEF StandsInInput
  <2>4. EndOf(n)' = EndOf(n)
    <3>1. n = 0 \/ n \in 1 .. Len(written)
      BY <1>1, <1>12
    <3>2. CASE n = 0
      BY <3>2, Zenon DEF EndOf
    <3>3. CASE n \in 1 .. Len(written)
      <4>1. written'[n] = written[n]
        BY <1>10, <3>3
      <4> QED
        BY <4>1, Zenon DEF EndOf
    <3> QED
      BY <3>1, <3>2, <3>3
  <2> QED
    BY <1>8, <1>9, <1>12, <2>3, <2>4
<1>13. WrittenInv'
  <2>1. ASSUME NEW k \in 1 .. Len(written')
        PROVE StandsInInput(written[k])' /\ written'[k].at = EndOf(k - 1)'
    <3>1. k \in 1 .. Len(written) \/ k = Len(written) + 1
      BY <1>1, <1>10
    <3>2. CASE k \in 1 .. Len(written)
      BY <1>11, <3>2 DEF StandsInInput
    <3>3. CASE k = Len(written) + 1
      <4>1. PICK n : n = Len(written)
        OBVIOUS
      <4>2. k - 1 = n
        BY <1>1, <3>3, <4>1
      <4>3. StandsInInput(w)' /\ w.at = EndOf(k - 1)'
        BY <1>12, <4>1, <4>2
      <4>4. written'[k] = w
        BY <1>10, <3>3
      <4>5. StandsInInput(written[k])'
        BY <4>3, <4>4, Zenon DEF StandsInInput
      <4> QED
        BY <4>3, <4>4, <4>5
    <3> QED
      BY <3>1, <3>2, <3>3
  <2>2. EndOf(Len(written))' = Len(input) + Len(code)
    <3>1. Len(written') # 0
      BY <1>1, <1>10
    <3> QED
      BY <1>9, <1>10, <3>1 DEF EndOf
  <2>3. Len(input') <= EndOf(Len(written))'
    BY <1>1, <1>5, <1>7, <2>2
  <2> QED
    BY <1>7, <1>10, <2>1, <2>3 DEF WrittenInv
<1>14. OpenInv'
  <2>1. ASSUME NEW k \in 1 .. Len(written') PROVE written'[k].end <= Len(input')
    <3>1. k \in 1 .. Len(written) \/ k = Len(written) + 1
      BY <1>1, <1>10
    <3>2. CASE k \in 1 .. Len(written)
      <4>1. written[k].end \in Nat
        BY <1>1, <3>2 DEF StandsInInput
      <4> QED
        BY <1>1, <1>5, <1>7, <1>8, <1>10, <3>2, <4>1
    <3>3. CASE k = Len(written) + 1
      BY <1>1, <1>5, <1>7, <1>9, <1>10, <3>3
    <3> QED
      BY <3>1, <3>2, <3>3
  <2>2. Len(input') = EndOf(Len(written))'
    <3>1. Len(written') # 0
      BY <1>1, <1>10
    <3> QED
      BY <1>7, <1>9, <1>10, <3>1 DEF EndOf
  <2> QED
    BY <1>6, <1>8, <2>1, <2>2 DEF OpenInv
<1>15. ReadInv'
  <2>1. insts' = <<>> /\ Len(insts') = 0 /\ pos' = 0
    BY <1>6, <1>8, EmptySequence
  <2>2. EndOf(Len(insts))' = 0
    BY <2>1 DEF EndOf
  <2>3. Len(insts') <= Len(written') /\ 1 .. Len(insts') = {}
    BY <1>1, <1>10, <2>1
  <2> QED
    BY <2>1, <2>2, <2>3, EmptySequence DEF ReadInv
<1>16. StopInv'
  BY <1>6 DEF StopInv
<1> QED
  BY <1>13, <1>14, <1>15, <1>16 DEF DecodeInv

\* The input ends, perhaps inside the last instruction.
LEMMA OpenStep ==
  ASSUME DecodeInv, NEW size \in 0 .. Len(input), Open(size)
  PROVE DecodeInv'
<1>1. /\ input \in Seq(Byte) /\ Len(input) \in Nat /\ size \in Nat
      /\ IsSequence(written) /\ Len(written) \in Nat
      /\ \A k \in 1 .. Len(written) : StandsInInput(written[k]) /\ written[k].at = EndOf(k - 1)
      /\ Len(input) <= EndOf(Len(written))
  BY LenProperties DEF DecodeInv, WrittenInv, IsSequence
<1>2. /\ phase = "writing" /\ phase' = "decoding" /\ written # <<>>
      /\ size > written[Len(written)].at
      /\ input' = SubSeq(input, 1, size) /\ written' = written /\ insts' = insts /\ pos' = pos
  BY DEF Open, Last
<1>3. \A k : EndOf(k)' = EndOf(k)
  BY <1>2 DEF EndOf
<1>4. input' \in Seq(Byte) /\ Len(input') = size
  <2>1. PICK code \in Seq(Byte) : code = <<>>
    BY EmptySeq
  <2>2. WrittenAt(input, 0, code) /\ 0 \in Nat
    BY <2>1 DEF WrittenAt
  <2> QED
    BY <1>1, <1>2, <2>2, CutWritten
<1>5. ASSUME NEW w, StandsInInput(w) PROVE StandsInInput(w)'
  <2>1. PICK code \in Encodings(w.inst, w.at) :
          w.end = w.at + Len(code) /\ WrittenAt(input, w.at, code)
    BY <1>5 DEF StandsInInput
  <2>2. IsInstruction(w.inst) /\ w.at \in Nat /\ w.end \in Nat
    BY <1>5 DEF StandsInInput
  <2>3. code \in Seq(Byte)
    BY <1>1, <2>1, <2>2, EncodingRead DEF EncodingIs
  <2>4. WrittenAt(input', w.at, code)
    BY <1>1, <1>2, <2>1, <2>2, <2>3, CutWritten
  <2> QED
    BY <2>1, <2>2, <2>4 DEF StandsInInput
<1>6. EndOf(Len(written)) \in Int
  <2>1. Len(written) = 0 \/ Len(written) \in 1 .. Len(written)
    BY <1>1
  <2> QED
    BY <1>1, <2>1 DEF EndOf, StandsInInput
<1>7. WrittenInv'
  <2>1. ASSUME NEW k \in 1 .. Len(written')
        PROVE StandsInInput(written[k])' /\ written'[k].at = EndOf(k - 1)'
    <3>1. PICK w : w = written[k]
      OBVIOUS
    <3>2. StandsInInput(w) /\ w.at = EndOf(k - 1)
      BY <1>1, <1>2, <3>1
    <3>3. StandsInInput(w)'
      BY <1>5, <3>2
    <3> QED
      BY <1>2, <1>3, <3>1, <3>2, <3>3 DEF StandsInInput
  <2>2. Len(input') <= EndOf(Len(written))'
    BY <1>1, <1>2, <1>3, <1>4, <1>6
  <2> QED
    BY <1>1, <1>2, <1>4, <2>1, <2>2 DEF WrittenInv
<1>8. OpenInv'
  BY <1>2, <1>4 DEF OpenInv
<1>9. ReadInv'
  BY <1>2, <1>3 DEF DecodeInv, ReadInv
<1>10. StopInv'
  BY <1>2 DEF StopInv
<1> QED
  BY <1>7, <1>8, <1>9, <1>10 DEF DecodeInv

\* One round of the decoder.
LEMMA DecodeStep == DecodeInv /\ DecodeNext => DecodeInv'
<1> SUFFICES ASSUME DecodeInv, DecodeNext PROVE DecodeInv'
  OBVIOUS
<1>1. /\ input \in Seq(Byte) /\ Len(input) \in Nat
      /\ IsSequence(written) /\ Len(written) \in Nat
      /\ \A k \in 1 .. Len(written) : StandsInInput(written[k]) /\ written[k].at = EndOf(k - 1)
      /\ Len(input) <= EndOf(Len(written))
  BY LenProperties DEF DecodeInv, WrittenInv, IsSequence
<1>2. /\ IsSequence(insts) /\ Len(insts) \in Nat /\ Len(insts) <= Len(written)
      /\ \A k \in 1 .. Len(insts) : DecodedAs(insts[k], written[k])
      /\ pos = EndOf(Len(insts))
  BY DEF DecodeInv, ReadInv, IsSequence
<1>3. /\ phase = "decoding" /\ pos < Len(input)
      /\ input' = input /\ written' = written
  BY DEF DecodeNext
<1>4. \A k : EndOf(k)' = EndOf(k)
  BY <1>3 DEF EndOf
<1>5. PICK k \in 1 .. Len(written) : k = Len(insts) + 1
  <2>1. ASSUME Len(insts) = Len(written) PROVE FALSE
    <3>1. pos \in Int
      <4>1. Len(written) = 0 \/ Len(written) \in 1 .. Len(written)
        BY <1>1
      <4> QED
        BY <1>1, <1>2, <2>1, <4>1 DEF EndOf, StandsInInput
    <3> QED
      BY <1>1, <1>2, <1>3, <2>1, <3>1
  <2> QED
    BY <1>1, <1>2, <2>1
<1>6. PICK w : w = written[k]
  OBVIOUS
<1>7. StandsInInput(w) /\ w.at = pos
  <2>1. k - 1 = Len(insts)
    BY <1>2, <1>5
  <2> QED
    BY <1>1, <1>2, <1>5, <1>6, <2>1
<1>8. PICK code \in Encodings(w.inst, pos) :
        w.end = pos + Len(code) /\ WrittenAt(input, pos, code)
  BY <1>7 DEF StandsInInput
<1>9. IsInstruction(w.inst) /\ pos \in Nat /\ w.end \in Nat
  BY <1>7 DEF StandsInInput
<1>10. ReadsAs(Next(input, pos), w.inst, w.end) \/ (~Next(input, pos).ok /\ w.end > Len(input))
  <2>1. CASE w.end <= Len(input)
    BY <1>1, <1>8, <1>9, <2>1, WholeRead
  <2>2. CASE w.end > Len(input)
    BY <1>1, <1>3, <1>8, <1>9, <2>2, CutRead
  <2> QED
    BY <1>1, <1>9, <2>1, <2>2
<1>11. PICK x : x = Next(input, pos)
  OBVIOUS
<1>12. CASE x.ok
  <2>1. /\ insts' = Append(insts, [pc |-> pos, mnemonic |-> x.mnemonic, ops |-> x.ops])
        /\ pos' = x.end /\ phase' = "decoding"
    BY <1>3, <1>11, <1>12 DEF DecodeNext
  <2>2. /\ Supported(w.inst) /\ x.end = w.end /\ x.mnemonic = MeantName(w.inst)
        /\ ReadsOperands(w.inst) => x.ops = w.inst.ops
    BY <1>10, <1>11, <1>12, XInstParts DEF ReadsAs
  <2>3. PICK y : y = [pc |-> pos, mnemonic |-> x.mnemonic, ops |-> x.ops]
    OBVIOUS
  <2>4. /\ IsSequence(insts') /\ Len(insts') = k /\ insts'[k] = y
        /\ \A j \in 1 .. Len(insts) : insts'[j] = insts[j]
    BY <1>2, <1>5, <2>1, <2>3, Appended
  <2>5. DecodedAs(y, w)
    BY <1>7, <2>2, <2>3 DEF DecodedAs, MeantName
  <2>6. ASSUME NEW j \in 1 .. Len(insts') PROVE DecodedAs(insts'[j], written'[j])
    <3>1. j \in 1 .. Len(insts) \/ j = k
      BY <1>2, <1>5, <2>4
    <3> QED
      BY <1>2, <1>3, <1>6, <2>4, <2>5, <3>1
  <2>7. pos' = EndOf(Len(insts))'
    <3>1. k # 0
      BY <1>5
    <3> QED
      BY <1>3, <1>6, <2>1, <2>2, <2>4, <3>1 DEF EndOf
  <2>8. ReadInv'
    BY <1>3, <1>5, <2>4, <2>6, <2>7 DEF ReadInv
  <2>9. WrittenInv' /\ OpenInv'
    BY <1>3, <1>4, <2>1 DEF DecodeInv, WrittenInv, OpenInv, StandsInInput
  <2>10. StopInv'
    BY <2>1 DEF StopInv
  <2> QED
    BY <2>8, <2>9, <2>10 DEF DecodeInv
<1>13. CASE ~x.ok
  <2>1. insts' = insts /\ pos' = pos /\ phase' = "error"
    BY <1>3, <1>11, <1>13 DEF DecodeNext
  <2>2. w.end > Len(input) \/ ~Supported(w.inst)
    BY <1>10, <1>11, <1>13 DEF ReadsAs
  <2>3. WrittenInv' /\ OpenInv'
    BY <1>3, <1>4, <2>1 DEF DecodeInv, WrittenInv, OpenInv, StandsInInput
  <2>4. ReadInv'
    BY <1>3, <1>4, <2>1 DEF DecodeInv, ReadInv
  <2>5. StopInv'
    BY <1>3, <1>5, <1>6, <2>1, <2>2 DEF StopInv
  <2> QED
    BY <2>3, <2>4, <2>5 DEF DecodeInv
<1> QED
  BY <1>12, <1>13

\* Lowering and reading leave the decoded program alone.
LEMMA LaterStep ==
  ASSUME DecodeInv, AllDecoded \/ LowerNext \/ WriteOutput \/ FetchNext \/ UNCHANGED vars
  PROVE DecodeInv'
<1>1. /\ input' = input /\ written' = written /\ insts' = insts /\ pos' = pos
      /\ phase' = phase \/ (phase # "writing" /\ phase' \notin {"writing", "error"})
  <2>1. CASE AllDecoded
    BY <2>1 DEF AllDecoded
  <2>2. CASE LowerNext
    BY <2>2 DEF LowerNext
  <2>3. CASE WriteOutput
    BY <2>3 DEF WriteOutput
  <2>4. CASE FetchNext
    <3>1. \/ UNCHANGED phase
          \/ phase' = "stopped"
      BY <2>4, Zenon DEF FetchNext
    <3>2. phase = "reading" /\ UNCHANGED <<input, written, pos, insts>>
      BY <2>4, Zenon DEF FetchNext
    <3> QED
      BY <3>1, <3>2
  <2>5. CASE UNCHANGED vars
    BY <2>5 DEF vars
  <2> QED
    BY <2>1, <2>2, <2>3, <2>4, <2>5
<1>2. \A k : EndOf(k)' = EndOf(k)
  BY <1>1 DEF EndOf
<1>3. WrittenInv'
  BY <1>1, <1>2 DEF DecodeInv, WrittenInv, StandsInInput
<1>4. OpenInv'
  BY <1>1, <1>2 DEF DecodeInv, OpenInv
<1>5. ReadInv'
  BY <1>1, <1>2 DEF DecodeInv, ReadInv
<1>6. StopInv'
  BY <1>1 DEF DecodeInv, StopInv
<1> QED
  BY <1>3, <1>4, <1>5, <1>6 DEF DecodeInv

\* In every program, whichever encodings it uses and wherever it is cut, the decoder has
\* read the instructions before its position and stands where the next one starts.
THEOREM DecodeCorrect == TransSpec => []DecodeInv
<1>1. TransInit => DecodeInv
  BY InitDecode
<1>2. DecodeInv /\ [TransNext]_vars => DecodeInv'
  BY WriteStep, OpenStep, DecodeStep, LaterStep DEF TransNext
<1> QED
  BY <1>1, <1>2, PTL DEF TransSpec

\* Decoder::next() gives back every program of supported instructions, and stops with an
\* error only at an instruction that is cut off or not supported.
THEOREM ProgramDecoded == TransSpec => []DecodesWhatIsWritten
<1>1. DecodeInv => DecodesWhatIsWritten
  <2> SUFFICES ASSUME DecodeInv PROVE DecodesWhatIsWritten
    OBVIOUS
  <2>1. IsSequence(insts) /\ Len(insts) <= Len(written) /\ pos = EndOf(Len(insts))
    BY DEF DecodeInv, ReadInv
  <2>2. pos = (IF insts = <<>> THEN 0 ELSE written[Len(insts)].end)
    <3>1. insts = <<>> <=> Len(insts) = 0
      BY <2>1 DEF IsSequence
    <3> QED
      BY <2>1, <3>1 DEF EndOf
  <2> QED
    BY <2>1, <2>2 DEF DecodeInv, ReadInv, StopInv, DecodesWhatIsWritten
<1> QED
  BY <1>1, DecodeCorrect, PTL


-----------------------------------------------------------------------------
(* What Decoder::next() returns, whatever the input is.                    *)
BranchNames == {"JMP", "CALL"} \cup Range(JccName)
IsOperand(op) == op \in RegOperand \/ IsMem(op) \/ op \in ImmOperand

OperandsOf(m, a, b) ==
  \/ a \in RegOperand /\ (b \in RegOperand \/ IsMem(b) \/ (m = "MOV" /\ b \in ImmOperand))
  \/ IsMem(a) /\ (b \in RegOperand \/ (m = "MOV" /\ b \in ImmOperand))

IsDecoded(x) ==
  \/ x.mnemonic \in {"NOP", "RET", "SYSCALL"}
  \/ x.mnemonic \in {"PUSH", "POP"} /\ \E a \in RegOperand : x.ops = <<a>>
  \/ x.mnemonic \in BranchNames /\ \E t \in Int : x.ops = <<Imm(t)>>
  \/ /\ x.mnemonic \in DOMAIN BinaryOpcode
     /\ \E a, b : x.ops = <<a, b>> /\ OperandsOf(x.mnemonic, a, b)

\* There is an end of the prefixes.
LEMMA PrefixEnds ==
  ASSUME NEW c \in Seq(Byte), NEW p \in Nat, p <= Len(c)
  PROVE PrefixEnd(c, p) \in p .. Len(c)
<1> DEFINE S == {k \in p .. Len(c) : k = Len(c) \/ ~PrefixByte(At(c, k))}
<1>1. Len(c) \in Nat
  BY LenProperties
<1>2. S \in SUBSET Nat /\ Len(c) \in S
  BY <1>1
<1>3. PICK e \in S : \A k \in S : e <= k
  BY <1>2, FirstNumber
<1>4. ASSUME NEW k \in p .. e - 1 PROVE PrefixByte(At(c, k))
  <2>1. k \notin S
    BY <1>2, <1>3
  <2> QED
    BY <1>1, <1>3, <2>1
<1>5. \E x \in p .. Len(c) : /\ \A n \in p .. x - 1 : PrefixByte(At(c, n))
                             /\ x = Len(c) \/ ~PrefixByte(At(c, x))
  BY <1>3, <1>4
<1> HIDE DEF S
<1> QED
  BY <1>5 DEF PrefixEnd

LEMMA RexBits ==
  ASSUME NEW c \in Seq(Byte), NEW p \in Nat, NEW e \in Nat
  PROVE LastRex(c, p, e) \in 0 .. 15
<1>1. PICK rexes \in SUBSET (p .. e - 1) : rexes = {n \in p .. e - 1 : IsRex(At(c, n))}
  OBVIOUS
<1>2. LastRex(c, p, e) = IF rexes = {} THEN 0 ELSE At(c, Max(rexes)) % 16
  BY <1>1 DEF LastRex
<1>3. CASE rexes # {}
  <2>1. PICK x \in p .. e - 1 : x = Max(rexes)
    BY <1>3, LastPosition
  <2>2. PICK b \in Byte : b = At(c, x)
    BY <2>1, AtIsByte
  <2>3. b % 16 \in 0 .. 15
    BY SMT DEF Byte
  <2> QED
    BY <1>2, <1>3, <2>1, <2>2, <2>3
<1> QED
  BY <1>2, <1>3

LEMMA ByteNumbers == \A b \in Byte : b \in Int /\ b >= 0 /\ b <= 255
BY DEF Byte

LEMMA SignedRange ==
  ASSUME NEW c \in Seq(Byte), NEW p \in Nat
  PROVE Signed32(c, p) \in Word32 /\ Signed8(At(c, p)) \in -128 .. 127
<1>1. PICK b0 \in Byte, b1 \in Byte, b2 \in Byte, b3 \in Byte :
        /\ b0 = At(c, p) /\ b1 = At(c, p + 1) /\ b2 = At(c, p + 2) /\ b3 = At(c, p + 3)
  <2>1. p + 1 \in Nat /\ p + 2 \in Nat /\ p + 3 \in Nat
    OBVIOUS
  <2> QED
    BY <2>1, AtIsByte
<1>2. Signed8(b0) \in -128 .. 127 /\ Signed8(b3) \in -128 .. 127
  BY SMT DEF Byte, Signed8
<1>3. Signed32(c, p) = At(c, p) + 256 * At(c, p + 1) + 65536 * At(c, p + 2)
                         + 16777216 * Signed8(At(c, p + 3))
  BY SMT DEF Signed32, Unsigned16
<1>4. PICK s \in -128 .. 127 : s = Signed8(b3)
  BY <1>2
<1>5. b0 + 256 * b1 + 65536 * b2 + 16777216 * s \in Word32
  BY SMT DEF Byte, Word32
<1>6. Signed32(c, p) = b0 + 256 * b1 + 65536 * b2 + 16777216 * s
  BY <1>1, <1>3, <1>4
<1> QED
  BY <1>1, <1>2, <1>5, <1>6

LEMMA RegisterRange ==
  ASSUME NEW bits \in Int, NEW rex \in 0 .. 15
  PROVE /\ XReg(RegFromBits(bits, B(rex))) \in RegOperand
        /\ XReg(RegFromBits(bits, R(rex))) \in RegOperand
<1>1. bits % 8 \in 0 .. 7 /\ B(rex) \in 0 .. 1 /\ R(rex) \in 0 .. 1
  BY SMT DEF B, R
<1>2. RegFromBits(bits, B(rex)) \in 0 .. 15 /\ RegFromBits(bits, R(rex)) \in 0 .. 15
  BY <1>1, SMT DEF RegFromBits
<1> QED
  BY <1>2 DEF XReg, RegOperand, Register

LEMMA ImmediateRange ==
  /\ \A v \in Word32 : Imm(v) \in ImmOperand
  /\ \A v, w \in Word32 : Wide(v, w) \in ImmOperand
BY SMT DEF Imm, Wide, ImmOperand, Word32

LEMMA ModRMRange ==
  ASSUME NEW c \in Seq(Byte), NEW p \in Nat, NEW rex \in 0 .. 15, NEW m,
         m = DecodeModRM(c, p, rex)
  PROVE m.reg \in RegOperand /\ (m.rm \in RegOperand \/ IsMem(m.rm)) /\ m.p \in Nat
<1>1. At(c, p) \in Byte /\ At(c, p) \in Int /\ At(c, p) \div 8 \in Int
  <2>1. PICK b \in Byte : b = At(c, p)
    BY AtIsByte
  <2>2. b \in Int /\ b \div 8 \in Int
    BY SMT DEF Byte
  <2> QED
    BY <2>1, <2>2
<1>2. m.reg \in RegOperand
  BY <1>1, RegisterRange DEF DecodeModRM
<1>3. PICK mod \in 0 .. 3, rm \in 0 .. 7 : mod = At(c, p) \div 64 /\ rm = At(c, p) % 8
  BY <1>1, ByteFields, Zenon
<1>4. CASE mod = 3
  <2>1. m.rm = XReg(RegFromBits(At(c, p), B(rex))) /\ m.p = p + 1
    BY <1>3, <1>4 DEF DecodeModRM
  <2> QED
    BY <1>1, <1>2, <2>1, RegisterRange
<1>5. CASE mod # 3
  <2>1. PICK memory : memory = DecodeMemory(c, p + 1, rex, mod, rm)
    OBVIOUS
  <2>2. m.rm = XMem(memory.mem) /\ m.p = memory.p
    BY <1>3, <1>5, <2>1 DEF DecodeModRM
  <2>3. memory.p = AfterSib(p + 1, rm) + (IF LongAt(c, p + 1, mod, rm) THEN 4 ELSE mod)
    BY <2>1, MemoryEnd
  <2>4. AfterSib(p + 1, rm) \in Nat
    BY DEF AfterSib
  <2>5. memory.p \in Nat
    <3>1. CASE LongAt(c, p + 1, mod, rm)
      BY <2>3, <2>4, <3>1
    <3>2. CASE ~LongAt(c, p + 1, mod, rm)
      BY <2>3, <2>4, <3>2
    <3> QED
      BY <3>1, <3>2
  <2> QED
    BY <1>2, <2>2, <2>5, MemIndex
<1> QED
  BY <1>4, <1>5

LEMMA BranchDecoded ==
  ASSUME NEW c \in Seq(Byte), NEW p \in Nat, NEW name \in BranchNames
  PROVE IsDecoded(BranchRel8(c, p, name)) /\ IsDecoded(BranchRel32(c, p, name))
<1>1. PICK near \in Int, far \in Int :
        near = p + 1 + Signed8(At(c, p)) /\ far = p + 4 + Signed32(c, p)
  <2>1. PICK s \in -128 .. 127, w \in Word32 : s = Signed8(At(c, p)) /\ w = Signed32(c, p)
    BY SignedRange
  <2>2. p + 1 + s \in Int /\ p + 4 + w \in Int
    BY DEF Word32
  <2> QED
    BY <2>1, <2>2
<1> QED
  BY <1>1, XInstParts DEF IsDecoded, BranchRel8, BranchRel32

LEMMA JccNames == \A k \in 1 .. 16 : JccName[k] \in BranchNames
<1>1. DOMAIN JccName = 1 .. 16
  BY DEF JccName
<1> QED
  BY <1>1 DEF BranchNames, Range

LEMMA PairDecoded ==
  ASSUME NEW m \in DOMAIN BinaryOpcode, NEW a, NEW b, OperandsOf(m, a, b), NEW end
  PROVE IsDecoded(XInst(m, <<a, b>>, end))
BY XInstParts DEF IsDecoded

LEMMA OperandDecoded ==
  ASSUME NEW m, NEW end
  PROVE /\ m \in {"NOP", "RET", "SYSCALL"} => IsDecoded(XInst(m, <<>>, end))
        /\ \A a \in RegOperand : m \in {"PUSH", "POP"} => IsDecoded(XInst(m, <<a>>, end))
BY XInstParts DEF IsDecoded

LEMMA BinaryDecoded ==
  ASSUME NEW name \in DOMAIN BinaryOpcode, NEW m, m.reg \in RegOperand,
         m.rm \in RegOperand \/ IsMem(m.rm)
  PROVE IsDecoded(BinaryRmReg(name, m)) /\ IsDecoded(BinaryRegRm(name, m))
BY PairDecoded DEF BinaryRmReg, BinaryRegRm, OperandsOf

\* Whatever the opcode and the bytes after it are, the decoder throws or gives an
\* instruction with operands of the kinds lower() has patterns for.
LEMMA OpcodeDecoded ==
  ASSUME NEW c \in Seq(Byte), NEW p \in Nat, NEW rex \in 0 .. 15, NEW op \in Byte,
         DecodeOpcode(c, p, rex, op).ok
  PROVE IsDecoded(DecodeOpcode(c, p, rex, op))
<1>1. op \in Int /\ "MOV" \in DOMAIN BinaryOpcode
      /\ \A n \in {1, 9, 33, 41, 49, 57, 137} : Binary[n] \in DOMAIN BinaryOpcode
  BY BytesAreIntegers DEF Binary, BinaryOpcode
<1>2. CASE op \in 80 .. 87
  BY <1>1, <1>2, PushOp, RegisterRange, OperandDecoded
<1>3. CASE op \in 88 .. 95
  BY <1>1, <1>3, PopOp, RegisterRange, OperandDecoded
<1>4. CASE op \in 112 .. 127
  <2>1. PICK name \in BranchNames : name = JccName[op - 111]
    BY <1>4, JccNames
  <2>2. DecodeOpcode(c, p, rex, op) = BranchRel8(c, p, name)
    BY <1>4, <2>1, JccOp, Zenon
  <2> QED
    BY <2>2, BranchDecoded
<1>5. CASE op \in 184 .. 191
  <2>1. PICK reg \in RegOperand : reg = XReg(RegFromBits(op, B(rex)))
    BY <1>1, RegisterRange
  <2>2. DecodeOpcode(c, p, rex, op) = MoveImmediate(c, p, reg, W(rex))
    BY <1>5, <2>1, MoveOp
  <2>3. PICK imm, end : imm \in ImmOperand /\ MoveImmediate(c, p, reg, W(rex)) = XInst("MOV", <<reg, imm>>, end)
    <3>1. p + 4 \in Nat
      OBVIOUS
    <3>2. Imm(Signed32(c, p)) \in ImmOperand /\ Wide(Signed32(c, p), Signed32(c, p + 4)) \in ImmOperand
      BY <3>1, SignedRange, ImmediateRange
    <3> QED
      BY <3>2 DEF MoveImmediate
  <2> QED
    BY <1>1, <2>2, <2>3, PairDecoded DEF OperandsOf
<1>6. PICK m : /\ m = DecodeModRM(c, p, rex) /\ m.reg \in RegOperand
               /\ m.rm \in RegOperand \/ IsMem(m.rm)
               /\ m.p \in Nat
  BY ModRMRange
<1>7. CASE op \in {1, 9, 33, 41, 49, 57, 137}
  BY <1>1, <1>6, <1>7, BinaryOp, BinaryDecoded
<1>8. CASE op - 2 \in {1, 9, 33, 41, 49, 57, 137}
  <2>1. PICK low \in {1, 9, 33, 41, 49, 57, 137} : low = op - 2
    BY <1>8
  <2>2. low + 2 = op
    BY <1>1, <2>1
  <2> QED
    BY <1>1, <1>6, <2>2, BinaryOp, BinaryDecoded
<1>9. CASE op = 199
  <2>1. DecodeOpcode(c, p, rex, op) = XInst("MOV", <<m.rm, Imm(Signed32(c, m.p))>>, m.p + 4)
    BY <1>6, <1>9, OtherOp DEF StoreImmediate
  <2>2. Imm(Signed32(c, m.p)) \in ImmOperand
    BY <1>6, SignedRange, ImmediateRange
  <2> QED
    BY <1>1, <1>6, <2>1, <2>2, PairDecoded DEF OperandsOf
<1>10. CASE op = 15
  <2>1. DecodeOpcode(c, p, rex, op) = DecodeSecond(c, p)
    BY <1>10, OtherOp
  <2>2. CASE At(c, p) = 5
    BY <2>1, <2>2, OperandDecoded DEF DecodeSecond
  <2>3. CASE At(c, p) \in 128 .. 143
    <3>1. JccName[At(c, p) - 127] \in BranchNames /\ p + 1 \in Nat
      <4>1. PICK b \in 128 .. 143 : b = At(c, p)
        BY <2>3
      <4>2. PICK k \in 1 .. 16 : k = b - 127
        OBVIOUS
      <4>3. JccName[k] \in BranchNames /\ p + 1 \in Nat
        BY JccNames
      <4> QED
        BY <4>1, <4>2, <4>3
    <3>2. DecodeSecond(c, p) = BranchRel32(c, p + 1, JccName[At(c, p) - 127])
      BY <2>3 DEF DecodeSecond
    <3> QED
      BY <2>1, <3>1, <3>2, BranchDecoded
  <2>4. CASE At(c, p) # 5 /\ At(c, p) \notin 128 .. 143
    <3>1. DecodeSecond(c, p) = Throws
      BY <2>4 DEF DecodeSecond
    <3> QED
      BY <2>1, <3>1, XInstParts
  <2> QED
    BY <2>2, <2>3, <2>4
<1>11. CASE op \in {144, 195}
  BY <1>11, OtherOp, OperandDecoded
<1>12. CASE op \in {232, 233, 235}
  <2>1. PICK n \in 0 .. 15 : n = 0
    OBVIOUS
  <2>2. "JMP" \in BranchNames /\ "CALL" \in BranchNames
    BY DEF BranchNames
  <2>3. /\ DecodeOpcode(c, p, rex, 232) = BranchRel32(c, p, "CALL")
        /\ DecodeOpcode(c, p, rex, 233) = BranchRel32(c, p, "JMP")
        /\ DecodeOpcode(c, p, rex, 235) = BranchRel8(c, p, "JMP")
    BY <2>1, BranchOp
  <2> QED
    BY <1>12, <2>2, <2>3, BranchDecoded
<1>13. CASE /\ op \notin 80 .. 87 /\ op \notin 88 .. 95 /\ op \notin 112 .. 127
            /\ op \notin 184 .. 191
            /\ op \notin {1, 9, 33, 41, 49, 57, 137} /\ op - 2 \notin {1, 9, 33, 41, 49, 57, 137}
            /\ op # 199 /\ op # 15 /\ op \notin {144, 195} /\ op \notin {232, 233, 235}
  <2>1. op \notin DOMAIN Binary /\ op - 2 \notin DOMAIN Binary
    BY <1>13, BinaryOpcodes
  <2>2. DecodeOpcode(c, p, rex, op) = Throws
    BY <1>13, <2>1 DEF DecodeOpcode
  <2> QED
    BY <2>2, XInstParts
<1> QED
  BY <1>2, <1>3, <1>4, <1>5, <1>7, <1>8, <1>9, <1>10, <1>11, <1>12, <1>13

\* Decoder::next() stays inside the input and gives an instruction or throws.
LEMMA NextDecoded ==
  ASSUME NEW c \in Seq(Byte), NEW p \in Nat, p <= Len(c), Next(c, p).ok
  PROVE IsDecoded(Next(c, p)) /\ Next(c, p).end <= Len(c)
<1>1. PICK e \in Nat : e = PrefixEnd(c, p)
  BY PrefixEnds, LenProperties
<1>2. PICK x : x = DecodeOpcode(c, e + 1, LastRex(c, p, e), At(c, e))
  OBVIOUS
<1>3. Next(c, p) = Inside(c, x)
  BY <1>1, <1>2 DEF Next
<1>4. x.ok /\ x.end <= Len(c) /\ Next(c, p) = x
  BY <1>3, XInstParts DEF Inside
<1>5. e + 1 \in Nat /\ LastRex(c, p, e) \in 0 .. 15 /\ At(c, e) \in Byte
  BY RexBits, AtIsByte
<1> QED
  BY <1>2, <1>4, <1>5, OpcodeDecoded

-----------------------------------------------------------------------------
(* decode_at on the bytes the translator writes.                           *)
\* After the marker, the prefix and the opcode: d goes on at q, orexes (0 or 1) OREX
\* bytes are to come.
Opened(d, q, op, orexes) ==
  /\ DOMAIN d = Fields /\ d.ok = TRUE /\ d.p = q /\ d.opcode = op
  /\ d.has_orex <=> orexes = 1
  /\ ~d.has_vector /\ d.group = 0 /\ ~d.memory

\* What the marker and the prefix leave, without a marker.
LEMMA Unmarked ==
  ASSUME NEW c \in Seq(Byte), NEW start \in Nat, At(c, start) # 253,
         NEW d, d = ReadMarkerAndControl(c, start),
         NEW n \in {0, 1}, NEW q \in Nat, q < Len(c),
         \/ At(c, start) # 254 /\ n = 0 /\ q = start
         \/ At(c, start) = 254 /\ Holds(c, start, 2) /\ At(c, start + 1) = 128 /\ n = 1
              /\ q = start + 2
  PROVE Opened(d, q + 1, At(c, q), n)
<1> DEFINE marked == At(c, start) = 253
           from == IF marked THEN start + 2 ELSE start
           prefixed == At(c, from) = 254
           control == IF prefixed THEN At(c, from + 1) ELSE 0
           p == IF prefixed THEN from + 2 ELSE from
           bad == \/ marked /\ (~Holds(c, start, 2) \/ At(c, start + 1) \notin 1 .. 10)
                  \/ prefixed /\ ~Holds(c, from, 2)
                  \/ p >= Len(c)
           opened == [Decoded EXCEPT !.marker = IF marked THEN At(c, start + 1) ELSE 0,
                        !.p = p + 1, !.opcode = At(c, p), !.has_orex = control >= 128,
                        !.has_vector = (control \div 64) % 2 = 1,
                        !.width = (control \div 8) % 8]
<1>1. ~marked /\ from = start /\ p = q /\ control = 128 * n
  OBVIOUS
<1>0. control >= 128 <=> n = 1
  BY <1>1
<1>9. (control \div 64) % 2 # 1
  BY <1>1, SMT
<1>2. ~(p >= Len(c))
  BY <1>1, LenProperties
<1>3. ~bad
  BY <1>1, <1>2
<1>4. d = IF bad THEN Throws ELSE opened
  BY DEF ReadMarkerAndControl
<1>5. /\ DOMAIN opened = Fields /\ opened.ok = TRUE /\ opened.p = p + 1
      /\ opened.opcode = At(c, p)
      /\ opened.has_orex <=> control >= 128
      /\ opened.has_vector <=> (control \div 64) % 2 = 1
      /\ opened.group = 0 /\ ~opened.memory
  <2> HIDE DEF p, from, prefixed, marked, control
  <2> QED
    BY FieldNames DEF Fields
<1> HIDE DEF p, from, prefixed, marked, control, bad, opened
<1>6. d = opened
  BY <1>3, <1>4
<1> QED
  BY <1>0, <1>1, <1>5, <1>6, <1>9 DEF Opened

LEMMA RegisterFields ==
  ASSUME NEW a \in Register, NEW b \in Register,
         NEW modrm, modrm = 192 + 8 * Low3(a) + Low3(b),
         NEW orex, orex = High2(a) + 4 * High2(b)
  PROVE /\ modrm \in Byte /\ modrm \div 64 = 3 /\ orex \in 0 .. 5
        /\ ((modrm \div 8) % 8) + ExtraBits(orex, 1) = a
        /\ (modrm % 8) + ExtraBits(orex, 4) = b
        /\ a <= 7 => ((modrm \div 8) % 8) + ExtraBits(0, 1) = a
        /\ b <= 7 => (modrm % 8) + ExtraBits(0, 4) = b
<1> DEFINE la == a % 8  lb == b % 8  ha == (a \div 8) % 4  hb == (b \div 8) % 4
<1>1. /\ la \in 0 .. 7 /\ lb \in 0 .. 7 /\ ha \in 0 .. 1 /\ hb \in 0 .. 1
      /\ a = la + 8 * ha /\ b = lb + 8 * hb
      /\ a <= 7 => ha = 0
      /\ b <= 7 => hb = 0
  BY SMT DEF Register
<1>2. modrm = 192 + 8 * la + lb /\ orex = ha + 4 * hb
  BY DEF Low3, High2
<1> HIDE DEF la, lb, ha, hb
<1>3. /\ modrm \div 64 = 3 /\ (modrm \div 8) % 8 = la
      /\ modrm % 8 = lb /\ modrm \in 0 .. 255
  BY <1>1, <1>2, SMT
<1>4. /\ 8 * ((orex \div 1) % 4) = 8 * ha /\ 8 * ((orex \div 4) % 4) = 8 * hb
      /\ orex \in 0 .. 5 /\ 8 * ((0 \div 1) % 4) = 0 /\ 8 * ((0 \div 4) % 4) = 0
  BY <1>1, <1>2, SMT
<1>5. /\ ExtraBits(orex, 1) = 8 * ha /\ ExtraBits(orex, 4) = 8 * hb
      /\ ExtraBits(0, 1) = 0 /\ ExtraBits(0, 4) = 0
  BY <1>4, Zenon DEF ExtraBits
<1>6. modrm \in Byte
  BY <1>3 DEF Byte
<1> HIDE DEF ExtraBits
<1>7. /\ ((modrm \div 8) % 8) + ExtraBits(orex, 1) = a
      /\ (modrm % 8) + ExtraBits(orex, 4) = b
  BY <1>1, <1>3, <1>5
<1>8. a <= 7 => ((modrm \div 8) % 8) + ExtraBits(0, 1) = a
  BY <1>1, <1>3, <1>5
<1>9. b <= 7 => (modrm % 8) + ExtraBits(0, 4) = b
  BY <1>1, <1>3, <1>5
<1> QED
  BY <1>3, <1>4, <1>6, <1>7, <1>8, <1>9

\* ModR/M with two registers, and OREX where one needs its high bits.
RegistersAt(c, q, a, b, orexes) ==
  /\ At(c, q) = 192 + 8 * Low3(a) + Low3(b)
  /\ IF orexes = 1 THEN q + 2 <= Len(c) /\ At(c, q + 1) = High2(a) + 4 * High2(b)
             ELSE q + 1 <= Len(c) /\ a <= 7 /\ b <= 7

RegisterOps == {0, 1, 32, 34, 64, 65, 66, 82, 141, 142}

LEMMA RegistersRead ==
  ASSUME NEW c \in Seq(Byte), NEW q \in Nat, NEW op \in RegisterOps, NEW orexes \in {0, 1},
         NEW d, Opened(d, q, op, orexes), NEW a \in Register, NEW b \in Register,
         RegistersAt(c, q, a, b, orexes), NEW f, f = ReadFields(c, d)
  PROVE /\ Opened(f, q + 1 + orexes, op, orexes)
        /\ f.reg = a /\ f.rm = b
<1> DEFINE modrm == At(c, d.p)
           memory == modrm \div 64 # 3
           sib == memory /\ modrm % 8 = 4
           sibByte == At(c, d.p + 1)
           after == d.p + (IF sib THEN 2 ELSE 1)
           orex == IF d.has_orex THEN At(c, after) ELSE 0
           bad == \/ d.p >= Len(c)
                  \/ memory /\ ~(d.opcode \in MemoryOpcodes \/ VectorAccess(d) \/ d.scalar_fp)
                  \/ sib /\ ~Holds(c, d.p, 2)
                  \/ d.has_orex /\ after >= Len(c)
           opened == [d EXCEPT !.p = after + (IF d.has_orex THEN 1 ELSE 0), !.memory = memory,
             !.reg = ((modrm \div 8) % 8) + ExtraBits(orex, 1),
             !.rm = (IF sib THEN (sibByte % 8) + ExtraBits(orex, 64)
                            ELSE (modrm % 8) + ExtraBits(orex, 4)),
             !.index = (IF sib THEN ((sibByte \div 8) % 8) + ExtraBits(orex, 16) ELSE 4),
             !.scale = (IF sib THEN 2 ^ (sibByte \div 64) ELSE 1),
             !.mod = modrm \div 64]
<1>1. modrm = 192 + 8 * Low3(a) + Low3(b) /\ d.p = q /\ DOMAIN d = Fields
  BY DEF RegistersAt, Opened
<1>2. modrm \div 64 = 3 /\ Len(c) \in Nat
  BY <1>1, RegisterFields, LenProperties
<1>3. ~memory /\ ~sib /\ after = q + 1
  BY <1>1, <1>2
<1>4. f = IF bad THEN Throws ELSE opened
  BY DEF ReadFields
<1>5. /\ DOMAIN opened = Fields /\ opened.ok = d.ok
      /\ opened.p = after + (IF d.has_orex THEN 1 ELSE 0)
      /\ opened.opcode = d.opcode /\ opened.has_orex = d.has_orex
      /\ opened.has_vector = d.has_vector /\ opened.group = d.group
      /\ opened.memory = memory
      /\ opened.reg = ((modrm \div 8) % 8) + ExtraBits(orex, 1)
      /\ opened.rm = (IF sib THEN (sibByte % 8) + ExtraBits(orex, 64)
                             ELSE (modrm % 8) + ExtraBits(orex, 4))
  <2> HIDE DEF modrm, memory, sib, sibByte, after, orex
  <2> QED
    BY <1>1, FieldNames
<1>6. /\ ~(d.has_orex /\ after >= Len(c))
      /\ ~(d.p >= Len(c))
      /\ after + (IF d.has_orex THEN 1 ELSE 0) = q + 1 + orexes
  BY <1>1, <1>2, <1>3 DEF RegistersAt, Opened
<1>7. ~bad
  BY <1>3, <1>6
<1> HIDE DEF bad, opened
<1>8. f = opened
  BY <1>4, <1>7
<1>9. f.reg = a /\ f.rm = b
  <2>1. CASE orexes = 1
    <3>1. orex = High2(a) + 4 * High2(b)
      BY <1>3, <2>1 DEF RegistersAt, Opened
    <3>2. ((modrm \div 8) % 8) + ExtraBits(orex, 1) = a /\ (modrm % 8) + ExtraBits(orex, 4) = b
      <4> HIDE DEF orex, modrm
      <4> QED
        BY <3>1, <1>1, RegisterFields
    <3> QED
      BY <1>3, <1>5, <1>8, <3>2
  <2>2. CASE orexes = 0
    <3>1. orex = 0 /\ a <= 7 /\ b <= 7
      BY <2>2 DEF RegistersAt, Opened
    <3>2. ((modrm \div 8) % 8) + ExtraBits(0, 1) = a /\ (modrm % 8) + ExtraBits(0, 4) = b
      <4> HIDE DEF modrm
      <4> QED
        BY <3>1, <1>1, RegisterFields
    <3> HIDE DEF modrm, sib
    <3> QED
      BY <1>3, <1>5, <1>8, <3>1, <3>2
  <2> QED
    BY <2>1, <2>2
<1> HIDE DEF memory
<1> QED
  BY <1>3, <1>5, <1>6, <1>8, <1>9 DEF Opened

LEMMA PlainStart ==
  ASSUME NEW c \in Seq(Byte), NEW p \in Nat, NEW op \in Byte, op \notin {253, 254, 255},
         p < Len(c), At(c, p) = op
  PROVE Opened(ReadExtension(c, ReadMarkerAndControl(c, p)), p + 1, op, 0)
<1>1. PICK d : d = ReadMarkerAndControl(c, p)
  OBVIOUS
<1>2. At(c, p) # 253 /\ At(c, p) # 254
  OBVIOUS
<1>3. Opened(d, p + 1, op, 0)
  BY <1>1, <1>2, Unmarked
<1>4. ReadExtension(c, d) = d
  BY <1>3 DEF ReadExtension, Opened
<1> QED
  BY <1>1, <1>3, <1>4

LEMMA ExtendedStart ==
  ASSUME NEW c \in Seq(Byte), NEW p \in Nat, NEW op \in Byte, op # 255, p + 3 <= Len(c),
         At(c, p) = 254, At(c, p + 1) = 128, At(c, p + 2) = op
  PROVE Opened(ReadExtension(c, ReadMarkerAndControl(c, p)), p + 3, op, 1)
<1>1. PICK d : d = ReadMarkerAndControl(c, p)
  OBVIOUS
<1>2. /\ p + 2 < Len(c) /\ Holds(c, p, 2) /\ (p + 2) + 1 = p + 3 /\ p + 2 \in Nat
      /\ At(c, p) # 253
  BY LenProperties DEF Holds
<1>3. Opened(d, (p + 2) + 1, op, 1)
  BY <1>1, <1>2, Unmarked
<1>4. ReadExtension(c, d) = d
  BY <1>3 DEF ReadExtension, Opened
<1> QED
  BY <1>1, <1>2, <1>3, <1>4

\* encode_reg2 and what decode_at has read of it before the operands.
RegistersFound(c, op, a, b, end, d) ==
  \E q \in Nat, n \in {0, 1} :
    /\ Opened(d, q, op, n) /\ RegistersAt(c, q, a, b, n) /\ end = q + 1 + n

LEMMA ShortForm ==
  ASSUME NEW c \in Seq(Byte), NEW p \in Nat, NEW op \in RegisterOps,
         NEW a \in Register, NEW b \in Register, a <= 7, b <= 7,
         Has(c, p, <<op, ModrmReg(a, b)>>)
  PROVE RegistersFound(c, op, a, b, p + 2, ReadExtension(c, ReadMarkerAndControl(c, p)))
<1>1. At(c, p) = op /\ At(c, p + 1) = ModrmReg(a, b) /\ p + 2 <= Len(c) /\ Len(c) \in Nat
  BY HasTwo, LenProperties
<1>2. op \in Byte /\ op \notin {253, 254, 255}
  BY DEF RegisterOps, Byte
<1>3. Opened(ReadExtension(c, ReadMarkerAndControl(c, p)), p + 1, op, 0)
  BY <1>1, <1>2, PlainStart
<1>4. RegistersAt(c, p + 1, a, b, 0)
  BY <1>1 DEF RegistersAt, ModrmReg
<1> QED
  BY <1>3, <1>4 DEF RegistersFound

LEMMA LongForm ==
  ASSUME NEW c \in Seq(Byte), NEW p \in Nat, NEW op \in RegisterOps,
         NEW a \in Register, NEW b \in Register,
         Has(c, p, << 254, 128, op, ModrmReg(a, b), OrexByte(a, b) >>)
  PROVE RegistersFound(c, op, a, b, p + 5, ReadExtension(c, ReadMarkerAndControl(c, p)))
<1>1. PICK m, o : m = ModrmReg(a, b) /\ o = OrexByte(a, b)
  OBVIOUS
<1>2. Has(c, p, << 254, 128, op, m, o >>)
  BY <1>1
<1>3. /\ Len(<< 254, 128, op, m, o >>) = 5
      /\ << 254, 128, op, m, o >>[1] = 254 /\ << 254, 128, op, m, o >>[2] = 128
      /\ << 254, 128, op, m, o >>[3] = op /\ << 254, 128, op, m, o >>[4] = m
      /\ << 254, 128, op, m, o >>[5] = o
  OBVIOUS
<1>4. /\ p + 5 <= Len(c)
      /\ At(c, p + 1 - 1) = 254 /\ At(c, p + 2 - 1) = 128 /\ At(c, p + 3 - 1) = op
      /\ At(c, p + 4 - 1) = m /\ At(c, p + 5 - 1) = o
  BY <1>2, <1>3 DEF Has
<1>5. /\ p + 1 - 1 = p /\ p + 2 - 1 = p + 1 /\ p + 3 - 1 = p + 2 /\ p + 4 - 1 = p + 3
      /\ p + 5 - 1 = p + 4 /\ (p + 3) + 1 = p + 4 /\ (p + 3) + 2 = p + 5
      /\ (p + 3) + 1 + 1 = p + 5
  OBVIOUS
<1>6. op \in Byte /\ op # 255
  BY DEF RegisterOps, Byte
<1>7. p + 3 <= Len(c)
  BY <1>4, LenProperties
<1>8. Opened(ReadExtension(c, ReadMarkerAndControl(c, p)), p + 3, op, 1)
  BY <1>4, <1>5, <1>6, <1>7, ExtendedStart
<1>9. RegistersAt(c, p + 3, a, b, 1)
  BY <1>1, <1>4, <1>5 DEF RegistersAt, ModrmReg, OrexByte
<1> QED
  BY <1>5, <1>8, <1>9 DEF RegistersFound

LEMMA Reg2Bytes ==
  ASSUME NEW op \in Byte, NEW a \in Register, NEW b \in Register
  PROVE /\ EncodeReg2(op, a, b) \in Seq(Byte)
        /\ Len(EncodeReg2(op, a, b)) \in {2, 5}
<1>1. PICK m \in Byte, o \in Byte : m = ModrmReg(a, b) /\ o = OrexByte(a, b)
  <2>1. PICK m : m = ModrmReg(a, b)
    OBVIOUS
  <2>2. PICK o : o = OrexByte(a, b)
    OBVIOUS
  <2>3. m \in Byte /\ o \in 0 .. 5
    BY <2>1, <2>2, RegisterFields DEF ModrmReg, OrexByte
  <2>4. o \in Byte
    BY <2>3 DEF Byte
  <2> QED
    BY <2>1, <2>2, <2>3, <2>4
<1>2. /\ << op, m >> \in Seq(Byte) /\ Len(<< op, m >>) = 2
      /\ << 254, 128, op, m, o >> \in Seq(Byte) /\ Len(<< 254, 128, op, m, o >>) = 5
  <2>1. 254 \in Byte /\ 128 \in Byte
    BY DEF Byte
  <2> HIDE DEF Byte
  <2> QED
    BY <2>1
<1> QED
  BY <1>1, <1>2 DEF EncodeReg2

LEMMA Reg2Filled ==
  \A op \in Byte : \A a, b \in Register :
    EncodeReg2(op, a, b) \in Seq(Byte) /\ Len(EncodeReg2(op, a, b)) > 0
<1> SUFFICES ASSUME NEW op \in Byte, NEW a \in Register, NEW b \in Register
             PROVE EncodeReg2(op, a, b) \in Seq(Byte) /\ Len(EncodeReg2(op, a, b)) > 0
  OBVIOUS
<1>1. PICK n \in {2, 5} : n = Len(EncodeReg2(op, a, b))
  BY Reg2Bytes
<1>2. n > 0
  OBVIOUS
<1> QED
  BY <1>1, <1>2, Reg2Bytes, Zenon

LEMMA Reg2Found ==
  ASSUME NEW c \in Seq(Byte), NEW p \in Nat, NEW op \in RegisterOps,
         NEW a \in Register, NEW b \in Register, Has(c, p, EncodeReg2(op, a, b))
  PROVE RegistersFound(c, op, a, b, p + Len(EncodeReg2(op, a, b)),
                       ReadExtension(c, ReadMarkerAndControl(c, p)))
<1>1. CASE a > 7 \/ b > 7
  <2>1. EncodeReg2(op, a, b) = << 254, 128, op, ModrmReg(a, b), OrexByte(a, b) >>
    BY <1>1 DEF EncodeReg2
  <2>2. Len(EncodeReg2(op, a, b)) = 5
    BY <2>1
  <2> QED
    BY <2>1, <2>2, LongForm
<1>2. CASE ~(a > 7 \/ b > 7)
  <2>1. EncodeReg2(op, a, b) = << op, ModrmReg(a, b) >>
    BY <1>2 DEF EncodeReg2
  <2>2. Len(EncodeReg2(op, a, b)) = 2 /\ a <= 7 /\ b <= 7
    BY <1>2, <2>1 DEF Register
  <2> QED
    BY <2>1, <2>2, ShortForm
<1> QED
  BY <1>1, <1>2

\* decode_at, from at, takes the next n bytes as this line.
ReadsLine(c, at, n, line) ==
  LET d == DecodeAt(c, at) IN d.ok /\ d.size = n /\ LineOf(d) = line

LEMMA SizedParts ==
  ASSUME NEW r, r.ok, DOMAIN r = Fields, NEW start, NEW d, d = Sized(r, start)
  PROVE /\ d.ok = r.ok /\ d.size = r.p - start /\ d.opcode = r.opcode
        /\ d.reg = r.reg /\ d.rm = r.rm /\ d.immediate = r.immediate
BY FieldNames DEF Sized

\* decode_at has read the instruction up to end.
Finished(r, end, op) == r.ok = TRUE /\ DOMAIN r = Fields /\ r.p = end /\ r.opcode = op

\* The line of an instruction that has these fields.
LEMMA LineFromFields ==
  ASSUME NEW d, NEW e, d.opcode = e.opcode, d.reg = e.reg, d.rm = e.rm,
         d.immediate = e.immediate
  PROVE LineOf(d) = LineOf(e)
BY Zenon DEF LineOf

\* Without an immediate, nothing follows the registers.
LEMMA RegistersOnly ==
  ASSUME NEW c \in Seq(Byte), NEW d, NEW op \in RegisterOps \ {1}, NEW a \in Register,
         NEW b \in Register, NEW end, RegistersFound(c, op, a, b, end, d),
         NEW r, r = ReadRest(c, d)
  PROVE Finished(r, end, op) /\ r.reg = a /\ r.rm = b
<1>1. PICK q \in Nat, n \in {0, 1} :
        Opened(d, q, op, n) /\ RegistersAt(c, q, a, b, n) /\ end = q + 1 + n
  BY DEF RegistersFound
<1>2. PICK f : f = ReadFields(c, d)
  OBVIOUS
<1>3. Opened(f, end, op, n) /\ f.reg = a /\ f.rm = b
  <2>1. op \in RegisterOps
    OBVIOUS
  <2> QED
    <3>1. Opened(f, q + 1 + n, op, n) /\ f.reg = a /\ f.rm = b
      BY <1>1, <1>2, <2>1, RegistersRead
    <3> QED
      BY <1>1, <3>1
<1>4. op \notin SystemRegisterOps \cup RegisterBranches \cup DirectOps \cup {96, 130}
  BY DEF RegisterOps, SystemRegisterOps, RegisterBranches, DirectOps
<1>5. ReadRest(c, d) = ReadForms(c, d)
  BY <1>1, <1>4 DEF ReadRest, Opened, HasNoModRM, IsWindowOp
<1>6. ReadOperandBytes(c, f) = f
  BY <1>3, <1>4 DEF ReadOperandBytes, Opened
<1>7. ReadVectorControl(c, f) = f
  BY <1>3 DEF ReadVectorControl, Opened
<1>8. ReadImmediate(c, f) = f
  BY <1>3 DEF ReadImmediate, Opened
<1>9. ReadOffset(c, f) = f
  BY <1>3 DEF ReadOffset, Opened
<1>10. ReadRest(c, d) = f
  BY <1>2, <1>5, <1>6, <1>7, <1>8, <1>9 DEF ReadForms
<1> QED
  BY <1>3, <1>10 DEF Opened, Finished

\* The move of an immediate: two words follow.
LEMMA RegistersAndImmediate ==
  ASSUME NEW c \in Seq(Byte), NEW d, NEW a \in Register,
         NEW b \in Register, NEW end \in Nat, RegistersFound(c, 1, a, b, end, d),
         NEW v \in Word32, NEW w \in Word32,
         Has(c, end, LittleEndian(v, 4)), Has(c, end + 4, LittleEndian(w, 4)),
         NEW r, r = ReadRest(c, d)
  PROVE Finished(r, end + 8, 1) /\ r.reg = a /\ r.rm = b /\ r.immediate = Wide(v, w)
<1>1. PICK q \in Nat, n \in {0, 1} :
        Opened(d, q, 1, n) /\ RegistersAt(c, q, a, b, n) /\ end = q + 1 + n
  BY DEF RegistersFound
<1>2. PICK f : f = ReadFields(c, d)
  OBVIOUS
<1>3. Opened(f, end, 1, n) /\ f.reg = a /\ f.rm = b
  BY <1>1, <1>2, RegistersRead DEF RegisterOps
<1>4. 1 \notin SystemRegisterOps \cup RegisterBranches \cup DirectOps \cup {96, 130}
  BY DEF SystemRegisterOps, RegisterBranches, DirectOps
<1>5. ReadRest(c, d) = ReadForms(c, d)
  BY <1>1, <1>4 DEF ReadRest, Opened, HasNoModRM, IsWindowOp
<1>6. ReadOperandBytes(c, f) = f
  BY <1>3, <1>4 DEF ReadOperandBytes, Opened
<1>7. ReadVectorControl(c, f) = f
  BY <1>3 DEF ReadVectorControl, Opened
<1>8. PICK g : g = ReadImmediate(c, f)
  OBVIOUS
<1>9. /\ Signed32(c, end) = v /\ Signed32(c, end + 4) = w
      /\ (end + 4) + 4 <= Len(c) /\ end + 4 \in Nat
  BY ReadsWord
<1>10. Holds(c, end, 8)
  BY <1>9, LenProperties DEF Holds
<1>11. g = [f EXCEPT !.p = @ + 8, !.immediate = Wide(v, w)]
  BY <1>3, <1>8, <1>9, <1>10 DEF ReadImmediate, Opened
<1>12. /\ g.ok = TRUE /\ DOMAIN g = Fields /\ g.p = end + 8 /\ g.opcode = 1
       /\ g.reg = a /\ g.rm = b /\ g.immediate = Wide(v, w)
  BY <1>3, <1>11, FieldNames DEF Opened
<1>13. ~g.memory
  BY <1>3, <1>11, FieldNames DEF Opened
<1>14. ReadOffset(c, g) = g
  BY <1>12, <1>13 DEF ReadOffset
<1>15. ReadRest(c, d) = g
  BY <1>2, <1>5, <1>6, <1>7, <1>8, <1>14 DEF ReadForms
<1> QED
  BY <1>12, <1>15 DEF Finished

\* The names of the opcodes.
PairNames == {"MOV", "ADD", "SUB", "AND", "OR", "XOR", "CMP"}
JumpNames == BranchNames \ {"JP", "JNP"}

LEMMA PairOpcodes ==
  ASSUME NEW m \in PairNames, NEW op, op = SeabirdOpcode(m)
  PROVE /\ op \in RegisterOps \ {1} /\ op \in Byte
        /\ MachineName[op] = m /\ op \notin DirectOps
        /\ m \notin {"RET", "SYSCALL", "PUSH", "POP", "MOVI"}
BY DEF PairNames, SeabirdOpcode, kOpcodes, RegisterOps, Byte, MachineName, DirectOps

LEMMA OtherOpcodes ==
  /\ SeabirdOpcode("PUSH") = 141 /\ SeabirdOpcode("POP") = 142
  /\ SeabirdOpcode("RET") = 96 /\ SeabirdOpcode("SYSCALL") = 130
  /\ MachineName[141] = "PUSH" /\ MachineName[142] = "POP"
  /\ MachineName[96] = "RET" /\ MachineName[130] = "SYSCALL" /\ MachineName[1] = "MOVI"
BY DEF SeabirdOpcode, kOpcodes, MachineName

LEMMA JumpOpcodes ==
  ASSUME NEW m \in JumpNames, NEW op, op = SeabirdOpcode(m)
  PROVE /\ op \in DirectOps /\ op \in Byte /\ op \notin {253, 254, 255}
        /\ MachineName[op] = m
        /\ m \notin {"RET", "SYSCALL", "PUSH", "POP", "MOVI"}
<1>1. Range(JccName) = {"JO", "JNO", "JC", "JNC", "JE", "JNE", "JLE", "JG",
                        "JS", "JNS", "JP", "JNP", "JL", "JGE"}
  BY DEF Range, JccName
<1>2. m \in {"JMP", "CALL", "JO", "JNO", "JC", "JNC", "JE", "JNE", "JLE", "JG",
             "JS", "JNS", "JL", "JGE"}
  BY <1>1 DEF JumpNames, BranchNames
<1> QED
  BY <1>2 DEF SeabirdOpcode, kOpcodes, Byte, MachineName, DirectOps

-----------------------------------------------------------------------------
(* The lines lower() writes bytes for.                                     *)
PairLine(line, bytes) ==
  \E m \in PairNames, a \in Register, b \in Register :
    line = AsmLine(m, <<GPR(a), GPR(b)>>) /\ bytes = EncodeReg2(SeabirdOpcode(m), a, b)
StackLine(line, bytes) ==
  \E m \in {"PUSH", "POP"}, a \in Register :
    line = AsmLine(m, <<GPR(a)>>) /\ bytes = EncodeReg2(SeabirdOpcode(m), 0, a)
ImmediateLine(line, bytes) ==
  \E a \in Register, imm \in ImmOperand :
    line = AsmLine("MOVI", <<GPR(a), imm>>) /\ bytes = EncodeRegImm64(1, a, imm)
JumpLine(line, bytes) ==
  \E m \in JumpNames, t \in Word32 :
    /\ line = AsmLine(m, <<Imm(t)>>)
    /\ bytes = <<SeabirdOpcode(m)>> \o LittleEndian(t, 4)
BareLine(line, bytes) ==
  \E m \in {"RET", "SYSCALL"} : line = AsmLine(m, <<>>) /\ bytes = <<SeabirdOpcode(m)>>

MachineLine(line, bytes) ==
  \/ PairLine(line, bytes) \/ StackLine(line, bytes) \/ ImmediateLine(line, bytes)
  \/ JumpLine(line, bytes) \/ BareLine(line, bytes)

LEMMA PairLineRead ==
  ASSUME NEW c \in Seq(Byte), NEW p \in Nat, NEW line, NEW bytes, PairLine(line, bytes),
         Has(c, p, bytes)
  PROVE ReadsLine(c, p, Len(bytes), line)
<1>1. PICK m \in PairNames, a \in Register, b \in Register :
        line = AsmLine(m, <<GPR(a), GPR(b)>>) /\ bytes = EncodeReg2(SeabirdOpcode(m), a, b)
  BY DEF PairLine
<1>2. PICK op \in RegisterOps \ {1} :
        /\ op = SeabirdOpcode(m) /\ op \in Byte
        /\ MachineName[op] = m /\ op \notin DirectOps
        /\ m \notin {"RET", "SYSCALL", "PUSH", "POP", "MOVI"}
  BY PairOpcodes
<1>3. PICK d : d = ReadExtension(c, ReadMarkerAndControl(c, p))
  OBVIOUS
<1>4. RegistersFound(c, op, a, b, p + Len(bytes), d)
  BY <1>1, <1>2, <1>3, Reg2Found
<1>5. PICK r : r = ReadRest(c, d)
  OBVIOUS
<1>6. Finished(r, p + Len(bytes), op) /\ r.reg = a /\ r.rm = b
  BY <1>4, <1>5, RegistersOnly
<1>7. LineOf(r) = line
  BY <1>1, <1>2, <1>6 DEF LineOf, Finished
<1>8. DecodeAt(c, p) = Sized(r, p)
  BY <1>3, <1>5 DEF DecodeAt
<1>9. Len(bytes) \in Nat
  BY <1>1, <1>2, Reg2Bytes
<1> QED
  BY <1>6, <1>7, <1>8, <1>9, SizedParts, LineFromFields DEF ReadsLine, Finished

LEMMA DirectIsNoRegister ==
  DirectOps \cap (RegisterOps \cup {96, 130}) = {}
BY DEF DirectOps, RegisterOps

LEMMA StackLineRead ==
  ASSUME NEW c \in Seq(Byte), NEW p \in Nat, NEW line, NEW bytes, StackLine(line, bytes),
         Has(c, p, bytes)
  PROVE ReadsLine(c, p, Len(bytes), line)
<1>1. PICK m \in {"PUSH", "POP"}, a \in Register :
        line = AsmLine(m, <<GPR(a)>>) /\ bytes = EncodeReg2(SeabirdOpcode(m), 0, a)
  BY DEF StackLine
<1>2. PICK op \in RegisterOps \ {1} :
        op = SeabirdOpcode(m) /\ op \in Byte /\ MachineName[op] = m
  BY OtherOpcodes DEF RegisterOps, Byte
<1>3. PICK d : d = ReadExtension(c, ReadMarkerAndControl(c, p))
  OBVIOUS
<1>4. 0 \in Register
  BY DEF Register
<1>5. RegistersFound(c, op, 0, a, p + Len(bytes), d)
  BY <1>1, <1>2, <1>3, <1>4, Reg2Found
<1>6. PICK r : r = ReadRest(c, d)
  OBVIOUS
<1>7. Finished(r, p + Len(bytes), op) /\ r.rm = a
  BY <1>4, <1>5, <1>6, RegistersOnly
<1>8. LineOf(r) = line
  <2>1. m \notin {"RET", "SYSCALL"} /\ MachineName[r.opcode] = m
    BY <1>2, <1>7 DEF Finished
  <2>2. LineOf(r) = AsmLine(m, <<GPR(r.rm)>>)
    <3>1. r.opcode \notin DirectOps /\ m # "MOVI"
      BY <1>2, <1>7, DirectIsNoRegister DEF Finished
    <3> QED
      BY <2>1, <3>1 DEF LineOf
  <2> QED
    BY <1>1, <1>7, <2>2
<1>9. DecodeAt(c, p) = Sized(r, p)
  BY <1>3, <1>6 DEF DecodeAt
<1>10. Len(bytes) \in Nat
  BY <1>1, <1>2, <1>4, Reg2Bytes
<1> QED
  BY <1>7, <1>8, <1>9, <1>10, SizedParts, LineFromFields DEF ReadsLine, Finished

LEMMA Words ==
  ASSUME NEW v \in Word32
  PROVE LittleEndian(v, 4) \in Seq(Byte) /\ Len(LittleEndian(v, 4)) = 4
BY LittleEndianBytes, WordIsInteger

LEMMA ImmediateParts ==
  ASSUME NEW imm \in ImmOperand
  PROVE \E v \in Word32, w \in Word32 :
          imm = Wide(v, w) /\ AddressBytes(imm, TRUE) = LittleEndian(v, 4) \o LittleEndian(w, 4)
BY DEF ImmOperand, Wide, AddressBytes

LEMMA ImmediateBytes ==
  ASSUME NEW imm \in ImmOperand, NEW a \in Register
  PROVE /\ EncodeRegImm64(1, a, imm) \in Seq(Byte)
        /\ Len(EncodeRegImm64(1, a, imm)) = Len(EncodeReg2(1, 0, a)) + 8
        /\ EncodeReg2(1, 0, a) \in Seq(Byte)
<1>1. PICK v \in Word32, w \in Word32 :
        imm = Wide(v, w) /\ AddressBytes(imm, TRUE) = LittleEndian(v, 4) \o LittleEndian(w, 4)
  BY ImmediateParts
<1>2. PICK s \in Seq(Byte), t \in Seq(Byte) :
        /\ s = LittleEndian(v, 4) /\ t = LittleEndian(w, 4) /\ Len(s) = 4 /\ Len(t) = 4
  BY Words
<1>3. s \o t \in Seq(Byte) /\ Len(s \o t) = 8
  <2>1. s \o t \in Seq(Byte) /\ Len(s \o t) = Len(s) + Len(t)
    BY ConcatProperties
  <2>2. 4 + 4 = 8
    OBVIOUS
  <2> QED
    BY <1>2, <2>1, <2>2, Zenon
<1>4. PICK h \in Seq(Byte) : h = EncodeReg2(1, 0, a)
  <2>1. 1 \in Byte /\ 0 \in Register
    BY DEF Byte, Register
  <2> QED
    BY <2>1, Reg2Bytes
<1>5. h \o (s \o t) \in Seq(Byte) /\ Len(h \o (s \o t)) = Len(h) + 8
  BY <1>3, ConcatProperties
<1>6. EncodeRegImm64(1, a, imm) = h \o (s \o t)
  BY <1>1, <1>2, <1>4 DEF EncodeRegImm64
<1> QED
  BY <1>4, <1>5, <1>6

LEMMA ImmediateLineRead ==
  ASSUME NEW c \in Seq(Byte), NEW p \in Nat, NEW line, NEW bytes, ImmediateLine(line, bytes),
         Has(c, p, bytes)
  PROVE ReadsLine(c, p, Len(bytes), line)
<1>1. PICK a \in Register, imm \in ImmOperand :
        line = AsmLine("MOVI", <<GPR(a), imm>>) /\ bytes = EncodeRegImm64(1, a, imm)
  BY DEF ImmediateLine
<1>2. PICK v \in Word32, w \in Word32 :
        imm = Wide(v, w) /\ AddressBytes(imm, TRUE) = LittleEndian(v, 4) \o LittleEndian(w, 4)
  BY ImmediateParts
<1>3. PICK h \in Seq(Byte), s \in Seq(Byte), t \in Seq(Byte) :
        /\ h = EncodeReg2(1, 0, a) /\ s = LittleEndian(v, 4) /\ t = LittleEndian(w, 4)
        /\ Len(s) = 4 /\ Len(t) = 4
  BY Words, ImmediateBytes
<1>4. /\ bytes = h \o (s \o t) /\ s \o t \in Seq(Byte)
      /\ Len(bytes) = Len(h) + 8 /\ Len(h) \in Nat
  BY <1>1, <1>2, <1>3, ConcatLen, ImmediateBytes, LenProperties DEF EncodeRegImm64
<1>5. Has(c, p, h) /\ Has(c, p + Len(h), s \o t)
  BY <1>4, HasConcat
<1>6. p + Len(h) \in Nat /\ (p + Len(h)) + 8 = p + Len(bytes) /\ 0 \in Register
  BY <1>4 DEF Register
<1>7. Has(c, p + Len(h), s) /\ Has(c, (p + Len(h)) + 4, t)
  BY <1>3, <1>5, <1>6, HasConcat
<1>8. PICK d : d = ReadExtension(c, ReadMarkerAndControl(c, p))
  OBVIOUS
<1>9. RegistersFound(c, 1, 0, a, p + Len(h), d)
  BY <1>3, <1>5, <1>6, <1>8, Reg2Found DEF RegisterOps
<1>10. PICK r : r = ReadRest(c, d)
  OBVIOUS
<1>11. Finished(r, (p + Len(h)) + 8, 1) /\ r.rm = a /\ r.immediate = imm
  <2>1. PICK end \in Nat : end = p + Len(h)
    BY <1>6
  <2>2. /\ RegistersFound(c, 1, 0, a, end, d) /\ 0 \in Register
        /\ Has(c, end, LittleEndian(v, 4)) /\ Has(c, end + 4, LittleEndian(w, 4))
    BY <1>3, <1>6, <1>7, <1>9, <2>1
  <2>3. Finished(r, end + 8, 1) /\ r.rm = a /\ r.immediate = Wide(v, w)
    BY <1>10, <2>2, RegistersAndImmediate
  <2> QED
    BY <1>2, <2>1, <2>3
<1>12. LineOf(r) = line
  <2>1. MachineName[r.opcode] = "MOVI"
    BY <1>11, OtherOpcodes DEF Finished
  <2>2. LineOf(r) = AsmLine("MOVI", <<GPR(r.rm), r.immediate>>)
    <3>1. r.opcode \notin DirectOps
      BY <1>11 DEF Finished, DirectOps
    <3> QED
      BY <2>1, <3>1 DEF LineOf
  <2> QED
    BY <1>1, <1>11, <2>2
<1>13. DecodeAt(c, p) = Sized(r, p)
  BY <1>8, <1>10 DEF DecodeAt
<1>14. r.p - p = Len(bytes)
  BY <1>4, <1>11 DEF Finished
<1> QED
  BY <1>11, <1>12, <1>13, <1>14, SizedParts, LineFromFields DEF ReadsLine, Finished

\* The opcodes without ModR/M: nothing or a distance follows.
LEMMA NothingFollows ==
  ASSUME NEW c \in Seq(Byte), NEW d, NEW q \in Nat, NEW op \in {96, 130},
         Opened(d, q, op, 0), NEW r, r = ReadRest(c, d)
  PROVE Finished(r, q, op)
<1>1. r = ReadDirect(c, d)
  BY DEF ReadRest, Opened, HasNoModRM
<1>2. op \notin DirectOps
  BY DEF DirectOps
<1> QED
  BY <1>1, <1>2 DEF ReadDirect, Opened, Finished

LEMMA WordFollows ==
  ASSUME NEW c \in Seq(Byte), NEW d, NEW q \in Nat, NEW op \in DirectOps,
         Opened(d, q, op, 0), NEW t \in Word32, Has(c, q, LittleEndian(t, 4)),
         NEW r, r = ReadRest(c, d)
  PROVE Finished(r, q + 4, op) /\ r.immediate = Imm(t)
<1>1. r = ReadDirect(c, d)
  BY DEF ReadRest, Opened, HasNoModRM
<1>2. Signed32(c, q) = t /\ Holds(c, q, 4)
  BY ReadsWord, LenProperties DEF Holds
<1>3. r = [d EXCEPT !.p = @ + 4, !.immediate = Imm(t)]
  BY <1>1, <1>2 DEF ReadDirect, Opened
<1> QED
  BY <1>3, FieldNames DEF Opened, Finished

LEMMA JumpLineRead ==
  ASSUME NEW c \in Seq(Byte), NEW p \in Nat, NEW line, NEW bytes, JumpLine(line, bytes),
         Has(c, p, bytes)
  PROVE ReadsLine(c, p, Len(bytes), line)
<1>1. PICK m \in JumpNames, t \in Word32 :
        /\ line = AsmLine(m, <<Imm(t)>>)
        /\ bytes = <<SeabirdOpcode(m)>> \o LittleEndian(t, 4)
  BY DEF JumpLine
<1>2. PICK op \in DirectOps :
        /\ op = SeabirdOpcode(m) /\ op \in Byte /\ op \notin {253, 254, 255}
        /\ MachineName[op] = m /\ m \notin {"RET", "SYSCALL", "PUSH", "POP", "MOVI"}
  BY JumpOpcodes
<1>3. PICK h \in Seq(Byte), s \in Seq(Byte) :
        h = <<op>> /\ s = LittleEndian(t, 4) /\ Len(h) = 1 /\ Len(s) = 4
  BY <1>2, Words, OneByteSeq
<1>4. bytes = h \o s /\ Len(bytes) = 5
  <2>1. Len(h \o s) = Len(h) + Len(s)
    BY ConcatProperties
  <2>2. 1 + 4 = 5
    OBVIOUS
  <2> QED
    BY <1>1, <1>2, <1>3, <2>1, <2>2, Zenon
<1>5. Has(c, p, h) /\ Has(c, p + 1, s)
  BY <1>3, <1>4, HasConcat
<1>6. At(c, p) = op /\ p < Len(c)
  BY <1>3, <1>5, HasOne, LenProperties
<1>7. PICK d : d = ReadExtension(c, ReadMarkerAndControl(c, p))
  OBVIOUS
<1>8. Opened(d, p + 1, op, 0)
  BY <1>2, <1>6, <1>7, PlainStart
<1>9. PICK r : r = ReadRest(c, d)
  OBVIOUS
<1>10. Finished(r, (p + 1) + 4, op) /\ r.immediate = Imm(t)
  <2>1. p + 1 \in Nat
    OBVIOUS
  <2>2. Has(c, p + 1, LittleEndian(t, 4))
    BY <1>3, <1>5
  <2> QED
    <3>1. PICK q \in Nat : q = p + 1
      BY <2>1
    <3>2. Finished(r, q + 4, op) /\ r.immediate = Imm(t)
      <4>1. Opened(d, q, op, 0) /\ Has(c, q, LittleEndian(t, 4))
        BY <1>8, <2>2, <3>1
      <4> QED
        BY <1>9, <3>1, <4>1, WordFollows
    <3> QED
      BY <3>1, <3>2
<1>11. LineOf(r) = line
  BY <1>1, <1>2, <1>10 DEF LineOf, Finished
<1>12. DecodeAt(c, p) = Sized(r, p)
  BY <1>7, <1>9 DEF DecodeAt
<1>13. r.p - p = Len(bytes)
  BY <1>4, <1>10 DEF Finished
<1> QED
  BY <1>10, <1>11, <1>12, <1>13, SizedParts, LineFromFields DEF ReadsLine, Finished

LEMMA BareLineRead ==
  ASSUME NEW c \in Seq(Byte), NEW p \in Nat, NEW line, NEW bytes, BareLine(line, bytes),
         Has(c, p, bytes)
  PROVE ReadsLine(c, p, Len(bytes), line)
<1>1. PICK m \in {"RET", "SYSCALL"} :
        line = AsmLine(m, <<>>) /\ bytes = <<SeabirdOpcode(m)>>
  BY DEF BareLine
<1>2. PICK op \in {96, 130} :
        op = SeabirdOpcode(m) /\ op \in Byte /\ op \notin DirectOps /\ MachineName[op] = m
  BY OtherOpcodes DEF Byte, DirectOps
<1>3. bytes = <<op>> /\ Len(bytes) = 1
  BY <1>1, <1>2
<1>4. At(c, p) = op /\ p < Len(c)
  BY <1>3, HasOne, LenProperties
<1>5. PICK d : d = ReadExtension(c, ReadMarkerAndControl(c, p))
  OBVIOUS
<1>6. Opened(d, p + 1, op, 0)
  BY <1>2, <1>4, <1>5, PlainStart
<1>7. PICK r : r = ReadRest(c, d)
  OBVIOUS
<1>8. Finished(r, p + 1, op)
  <2>1. p + 1 \in Nat
    OBVIOUS
  <2> QED
    BY <1>2, <1>6, <1>7, <2>1, NothingFollows
<1>9. LineOf(r) = line
  BY <1>1, <1>2, <1>8 DEF LineOf, Finished
<1>10. DecodeAt(c, p) = Sized(r, p)
  BY <1>5, <1>7 DEF DecodeAt
<1>11. r.p - p = Len(bytes)
  BY <1>3, <1>8 DEF Finished
<1> QED
  BY <1>8, <1>9, <1>10, <1>11, SizedParts, LineFromFields DEF ReadsLine, Finished

\* The reference machine reads the bytes of a line as the line.
LEMMA MachineReadsLine ==
  ASSUME NEW c \in Seq(Byte), NEW p \in Nat, NEW line, NEW bytes, MachineLine(line, bytes),
         Has(c, p, bytes)
  PROVE ReadsLine(c, p, Len(bytes), line)
BY PairLineRead, StackLineRead, ImmediateLineRead, JumpLineRead, BareLineRead DEF MachineLine

-----------------------------------------------------------------------------
(* What lower() writes for an instruction: either a note and no bytes, or  *)
(* the bytes of its only line.                                             *)
NoteText == {"relocation", "SIB", "compound", "address", "absolute address", "LDQ", "STQ",
             "memory-immediate", "memory operand"}
Noted(e) == e.bytes = <<>> /\ e.notes \in Seq(NoteText) /\ e.notes # <<>>
Silent(e) == e.lines = <<>> /\ e.bytes = <<>> /\ e.notes = <<>>
Plain(e) == e.notes = <<>> /\ \E line : e.lines = <<line>> /\ MachineLine(line, e.bytes)

LEMMA TextualNoted == \A lines : \A note \in NoteText : Noted(Textual(lines, note))
<1> SUFFICES ASSUME NEW lines, NEW note \in NoteText PROVE Noted(Textual(lines, note))
  OBVIOUS
<1>1. <<note>> \in Seq(NoteText) /\ <<note>> # <<>>
  <2>1. Len(<<note>>) = 1 /\ <<note>> \in Seq(NoteText)
    OBVIOUS
  <2> QED
    BY <2>1, NotEmpty
<1> QED
  BY <1>1 DEF Noted, Textual, Lowering

LEMMA ThenNoted ==
  ASSUME NEW a, NEW b, Noted(a), Noted(b)
  PROVE Noted(Then(a, b))
<1>1. PICK s \in Seq(NoteText), t \in Seq(NoteText) : s = a.notes /\ t = b.notes /\ s # <<>>
  BY DEF Noted
<1>2. s \o t \in Seq(NoteText) /\ Len(s \o t) = Len(s) + Len(t)
  BY ConcatProperties
<1>3. Len(s) # 0 /\ Len(s) \in Nat /\ Len(t) \in Nat
  BY <1>1, LenProperties, EmptySeq
<1>4. s \o t # <<>>
  BY <1>2, <1>3
<1>5. <<>> \o <<>> = <<>>
  OBVIOUS
<1> QED
  BY <1>1, <1>2, <1>4, <1>5 DEF Noted, Then, Lowering

LEMMA EANoted == \A m : Noted(EmitEA(m))
<1> SUFFICES ASSUME NEW m PROVE Noted(EmitEA(m))
  OBVIOUS
<1>1. CASE m.rip
  BY <1>1, TextualNoted DEF EmitEA, NoteText
<1>2. CASE ~m.rip /\ m.base # NONE /\ m.index # NONE
  BY <1>2, TextualNoted DEF EmitEA, NoteText
<1>3. CASE ~m.rip /\ m.base # NONE /\ m.index = NONE /\ m.disp # 0
  BY <1>3, TextualNoted, ThenNoted DEF EmitEA, NoteText
<1>4. CASE ~m.rip /\ m.base # NONE /\ m.index = NONE /\ m.disp = 0
  BY <1>4, TextualNoted DEF EmitEA, NoteText
<1>5. CASE ~m.rip /\ m.base = NONE
  BY <1>5, TextualNoted DEF EmitEA, NoteText
<1> QED
  BY <1>1, <1>2, <1>3, <1>4, <1>5

LEMMA LoadStoreNoted == \A m, r : Noted(EmitLoad(r, m)) /\ Noted(EmitStore(m, r))
BY EANoted, TextualNoted, ThenNoted DEF EmitLoad, EmitStore, NoteText

LEMMA SeabirdRegister == \A a \in RegOperand : SeabirdReg(a) \in Register
BY DEF RegOperand, Register, SeabirdReg, SeabirdRegs

LEMMA RegisterPairPlain ==
  ASSUME NEW m \in PairNames, NEW a \in RegOperand, NEW b \in RegOperand
  PROVE Plain(RegisterPair(m, a, b))
<1>1. PairLine(AsmLine(m, <<R64(a), R64(b)>>),
               EncodeReg2(SeabirdOpcode(m), SeabirdReg(a), SeabirdReg(b)))
  BY SeabirdRegister DEF PairLine, R64
<1> QED
  BY <1>1 DEF Plain, MachineLine, RegisterPair, Encoded, Lowering

LEMMA Kinds ==
  \A op : /\ op \in RegOperand => IsReg(op) /\ ~IsMem(op) /\ ~IsImm(op)
          /\ op \in ImmOperand => IsImm(op) /\ ~IsReg(op) /\ ~IsMem(op)
          /\ IsMem(op) => ~IsReg(op) /\ ~IsImm(op)
BY DEF RegOperand, ImmOperand, IsReg, IsMem, IsImm

LEMMA MovLowered ==
  ASSUME NEW a, NEW b, OperandsOf("MOV", a, b)
  PROVE Noted(LowerMov(a, b)) \/ Plain(LowerMov(a, b))
<1>1. CASE a \in RegOperand /\ b \in RegOperand
  <2>1. LowerMov(a, b) = RegisterPair("MOV", a, b)
    BY <1>1, Kinds DEF LowerMov
  <2> QED
    BY <1>1, <2>1, RegisterPairPlain DEF PairNames
<1>2. CASE a \in RegOperand /\ IsMem(b)
  <2>1. LowerMov(a, b) = EmitLoad(R64(a), b[2])
    BY <1>2, Kinds DEF LowerMov
  <2> QED
    BY <2>1, LoadStoreNoted
<1>3. CASE a \in RegOperand /\ b \in ImmOperand
  <2>1. LowerMov(a, b) = Encoded(AsmLine("MOVI", <<R64(a), b>>),
                                 EncodeRegImm64(1, SeabirdReg(a), b))
    BY <1>3, Kinds DEF LowerMov
  <2>2. ImmediateLine(AsmLine("MOVI", <<R64(a), b>>), EncodeRegImm64(1, SeabirdReg(a), b))
    BY <1>3, SeabirdRegister DEF ImmediateLine, R64
  <2> QED
    BY <2>1, <2>2 DEF Plain, MachineLine, Encoded, Lowering
<1>4. CASE IsMem(a) /\ b \in RegOperand
  <2>1. LowerMov(a, b) = EmitStore(a[2], R64(b))
    BY <1>4, Kinds DEF LowerMov
  <2> QED
    BY <2>1, LoadStoreNoted
<1>5. CASE IsMem(a) /\ b \in ImmOperand
  <2>1. LowerMov(a, b) = Then(Textual(<<AsmLine("MOVI", <<Scratch2, b>>)>>, "memory-immediate"),
                              EmitStore(a[2], Scratch2))
    BY <1>5, Kinds DEF LowerMov
  <2> QED
    BY <2>1, LoadStoreNoted, TextualNoted, ThenNoted DEF NoteText
<1> QED
  BY <1>1, <1>2, <1>3, <1>4, <1>5 DEF OperandsOf

LEMMA BinaryLowered ==
  ASSUME NEW m \in PairNames \ {"MOV"}, NEW a, NEW b, OperandsOf(m, a, b)
  PROVE Noted(LowerBinary(m, a, b)) \/ Plain(LowerBinary(m, a, b))
<1>1. CASE a \in RegOperand /\ b \in RegOperand
  <2>1. LowerBinary(m, a, b) = RegisterPair(m, a, b)
    BY <1>1, Kinds DEF LowerBinary
  <2> QED
    BY <1>1, <2>1, RegisterPairPlain
<1>2. CASE a \in RegOperand /\ IsMem(b)
  <2>1. LowerBinary(m, a, b) = Then(EmitLoad(Scratch2, b[2]),
          Textual(<<AsmLine(m, <<R64(a), Scratch2>>)>>, "memory operand"))
    BY <1>2, Kinds DEF LowerBinary
  <2> QED
    BY <2>1, LoadStoreNoted, TextualNoted, ThenNoted DEF NoteText
<1>3. CASE IsMem(a) /\ m # "CMP"
  <2>1. LowerBinary(m, a, b) = Then(Then(EmitLoad(Scratch2, a[2]),
            Textual(<<AsmLine(m, <<Scratch2, R64(b)>>)>>, "memory operand")),
          EmitStore(a[2], Scratch2))
    BY <1>3, Kinds DEF LowerBinary
  <2> QED
    BY <2>1, LoadStoreNoted, TextualNoted, ThenNoted DEF NoteText
<1>4. CASE IsMem(a) /\ m = "CMP"
  <2>1. LowerBinary(m, a, b) = Then(EmitLoad(Scratch2, a[2]),
          Textual(<<AsmLine(m, <<Scratch2, R64(b)>>)>>, "memory operand"))
    BY <1>4, Kinds DEF LowerBinary
  <2> QED
    BY <2>1, LoadStoreNoted, TextualNoted, ThenNoted DEF NoteText
<1> QED
  BY <1>1, <1>2, <1>3, <1>4 DEF OperandsOf

\* A branch the program can contain: to an address of 32 bits.
WordTarget(x) == x.mnemonic \in BranchNames => \E t \in Word32 : x.ops = <<Imm(t)>>

LEMMA BranchNameList ==
  BranchNames = {"JMP", "CALL", "JO", "JNO", "JC", "JNC", "JE", "JNE", "JLE", "JG",
                 "JS", "JNS", "JP", "JNP", "JL", "JGE"}
BY DEF BranchNames, Range, JccName

LEMMA BinaryNames == DOMAIN BinaryOpcode = PairNames
BY DEF BinaryOpcode, PairNames

LEMMA BranchLowered ==
  ASSUME NEW x, x.mnemonic \in BranchNames, WordTarget(x)
  PROVE /\ x.mnemonic \notin {"JP", "JNP"} => Plain(Lower(x))
        /\ Lower(x).bytes \in Seq(Byte)
<1>1. PICK t \in Word32, m \in BranchNames : x.ops = <<Imm(t)>> /\ m = x.mnemonic
  BY DEF WordTarget
<1>2. Lower(x) = EmitBranchImm(m, Imm(t))
  <2>1. /\ m \notin {"NOP", "RET", "SYSCALL", "PUSH", "POP"}
        /\ m \in {"JMP", "CALL"} \cup Range(JccName) /\ x.ops[1] = Imm(t)
        /\ m \notin {"MOV", "ADD", "SUB", "AND", "OR", "XOR", "CMP"}
    BY <1>1, BranchNameList DEF BranchNames
  <2> HIDE DEF BranchNames
  <2> QED
    BY <1>1, <2>1, Zenon DEF Lower
<1>3. Imm(t)[2] = t
  BY DEF Imm
<1>4. Lower(x) = Encoded(AsmLine(m, <<Imm(t)>>), <<SeabirdOpcode(m)>> \o LittleEndian(t, 4))
  BY <1>2, <1>3 DEF EmitBranchImm
<1>5. SeabirdOpcode(m) \in Byte
  BY BranchNameList DEF SeabirdOpcode, kOpcodes, Byte
<1>6. <<SeabirdOpcode(m)>> \o LittleEndian(t, 4) \in Seq(Byte)
  BY <1>5, Words, OneByteSeq, ConcatProperties
<1>7. ASSUME m \notin {"JP", "JNP"} PROVE Plain(Lower(x))
  <2>1. JumpLine(AsmLine(m, <<Imm(t)>>), <<SeabirdOpcode(m)>> \o LittleEndian(t, 4))
    BY <1>7 DEF JumpLine, JumpNames
  <2> QED
    BY <1>4, <2>1 DEF Plain, MachineLine, Encoded, Lowering
<1> QED
  BY <1>1, <1>4, <1>6, <1>7 DEF Encoded, Lowering

LEMMA NoBranchNames ==
  {"NOP", "RET", "SYSCALL", "PUSH", "POP"} \cap ({"JMP", "CALL"} \cup Range(JccName)) = {}
BY BranchNameList DEF BranchNames

LEMMA LowerShape ==
  ASSUME NEW x, IsDecoded(x), WordTarget(x)
  PROVE \/ Noted(Lower(x)) \/ Silent(Lower(x)) \/ Plain(Lower(x))
        \/ x.mnemonic \in {"JP", "JNP"} /\ Lower(x).bytes \in Seq(Byte)
<1>1. CASE x.mnemonic = "NOP"
  <2>1. "NOP" \notin {"JMP", "CALL"} \cup Range(JccName)
    BY NoBranchNames
  <2> QED
    BY <1>1, <2>1 DEF Lower, Silent, Lowering
<1>2. CASE x.mnemonic \in {"RET", "SYSCALL"}
  <2>1. PICK m \in {"RET", "SYSCALL"} : m = x.mnemonic
    BY <1>2
  <2>2. Lower(x) = Encoded(AsmLine(m, <<>>), <<SeabirdOpcode(m)>>)
    <3>1. m \notin {"JMP", "CALL"} \cup Range(JccName)
      BY NoBranchNames
    <3> QED
      BY <2>1, <3>1 DEF Lower
  <2>3. BareLine(AsmLine(m, <<>>), <<SeabirdOpcode(m)>>)
    BY <2>1 DEF BareLine
  <2> QED
    BY <2>2, <2>3 DEF Plain, MachineLine, Encoded, Lowering
<1>3. CASE x.mnemonic \in {"PUSH", "POP"} /\ \E a \in RegOperand : x.ops = <<a>>
  <2>1. PICK m \in {"PUSH", "POP"}, a \in RegOperand : m = x.mnemonic /\ x.ops = <<a>>
    BY <1>3
  <2>2. Lower(x) = OneRegister(m, a)
    <3>1. m \notin {"JMP", "CALL"} \cup Range(JccName)
      BY NoBranchNames
    <3> QED
      BY <2>1, <3>1 DEF Lower
  <2>3. StackLine(AsmLine(m, <<R64(a)>>), EncodeReg2(SeabirdOpcode(m), 0, SeabirdReg(a)))
    BY SeabirdRegister DEF StackLine, R64
  <2> QED
    BY <2>2, <2>3 DEF Plain, MachineLine, OneRegister, Encoded, Lowering
<1>4. CASE x.mnemonic \in BranchNames
  BY <1>4, BranchLowered
<1>5. CASE /\ x.mnemonic \in DOMAIN BinaryOpcode
           /\ \E a, b : x.ops = <<a, b>> /\ OperandsOf(x.mnemonic, a, b)
  <2>1. PICK m, a, b :
          m \in PairNames /\ m = x.mnemonic /\ x.ops = <<a, b>> /\ OperandsOf(m, a, b)
    BY <1>5, BinaryNames DEF PairNames
  <2>2. m \notin BranchNames /\ m \in {"MOV", "ADD", "SUB", "AND", "OR", "XOR", "CMP"}
    BY <2>1, BranchNameList DEF PairNames
  <2>3. m \notin {"JMP", "CALL"} \cup Range(JccName)
    BY <2>2 DEF BranchNames
  <2>4. x.ops[1] = a /\ x.ops[2] = b
    BY <2>1
  <2>5. CASE m = "MOV"
    <3>1. Lower(x) = LowerMov(a, b)
      BY <2>1, <2>3, <2>4, <2>5 DEF Lower
    <3> QED
      BY <2>1, <2>5, <3>1, MovLowered
  <2>6. CASE m # "MOV"
    <3>1. Lower(x) = LowerBinary(m, a, b)
      BY <2>1, <2>2, <2>3, <2>4, <2>6 DEF Lower
    <3> QED
      BY <2>1, <2>6, <3>1, BinaryLowered
  <2> QED
    BY <2>5, <2>6
<1> QED
  BY <1>1, <1>2, <1>3, <1>4, <1>5 DEF IsDecoded

-----------------------------------------------------------------------------
(* The inductive invariant.  Until lowering there is no output; from then  *)
(* on the lines without a note tile the bytes, and the machine stands      *)
(* between two of them.                                                    *)
InstsInv ==
  /\ pos <= Len(input) /\ Len(insts) <= pos
  /\ \A k \in 1 .. Len(insts) : IsDecoded(insts[k])

PhaseInv ==
  /\ phase \in {"writing", "decoding", "lowering", "reading", "error", "stopped"}
  /\ phase \in {"lowering", "reading", "stopped"} => pos = Len(input)
  /\ phase \in {"writing", "decoding", "error"} =>
       lowered = <<>> /\ emitted = <<>> /\ plain = <<>>
  /\ phase \notin {"reading", "stopped"} => offset = 0 /\ read = <<>>

LoweredInv ==
  /\ IsSequence(lowered) /\ Len(lowered) <= Len(insts)
  /\ \A k \in 1 .. Len(lowered) : lowered[k] = Lower(insts[k])
  /\ emitted \in Seq(Byte) /\ offset \in 0 .. Len(emitted)

PlainEnd(k) == IF k = 0 THEN 0 ELSE plain[k].end

\* The bytes of a plain line are in the output, from l.at to l.end.
StandsInOutput(l) ==
  /\ l.at \in Nat
  /\ \E bytes \in Seq(Byte) : /\ MachineLine(l.line, bytes)
                              /\ l.end = l.at + Len(bytes) /\ Has(emitted, l.at, bytes)

TileInv ==
  ~HasParityJump =>
    /\ IsSequence(plain)
    /\ \A k \in 1 .. Len(plain) : StandsInOutput(plain[k]) /\ plain[k].at = PlainEnd(k - 1)
    /\ Len(emitted) = PlainEnd(Len(plain))

FollowInv ==
  ~HasParityJump =>
    /\ phase # "stopped"
    /\ IsSequence(read) /\ Len(read) <= Len(plain)
    /\ \A k \in 1 .. Len(read) : LineOf(read[k]) = plain[k].line
    /\ offset = PlainEnd(Len(read))

OutputInv == DecodeInv /\ InstsInv /\ PhaseInv /\ LoweredInv /\ TileInv /\ FollowInv

-----------------------------------------------------------------------------
\* Sequences without a set of values, as in IsSequence.
LEMMA Joined ==
  ASSUME NEW s, IsSequence(s)
  PROVE s \o <<>> = s /\ \A y : s \o <<y>> = Append(s, y)
<1>1. PICK n \in Nat : n = Len(s) /\ s = [k \in 1 .. n |-> s[k]]
  BY DEF IsSequence
<1>2. ASSUME NEW y PROVE s \o <<>> = s /\ s \o <<y>> = Append(s, y)
  <2>1. PICK S : S = {s[k] : k \in 1 .. n} \cup {y}
    OBVIOUS
  <2>2. s \in [1 .. n -> S]
    <3>1. \A k \in 1 .. n : s[k] \in S
      BY <2>1
    <3> QED
      BY <1>1, <3>1, Zenon
  <2>3. s \in Seq(S) /\ y \in S
    BY <2>1, <2>2, SeqDef
  <2> QED
    BY <2>3, ConcatEmptySeq, AppendIsConcat
<1> QED
  BY <1>2

LEMMA HasStays ==
  ASSUME NEW c \in Seq(Byte), NEW s \in Seq(Byte), NEW p \in Nat, NEW b \in Seq(Byte),
         Has(c, p, b)
  PROVE Has(c \o s, p, b)
<1>1. Len(c) \in Nat /\ Len(s) \in Nat /\ Len(b) \in Nat /\ Len(c \o s) = Len(c) + Len(s)
  BY LenProperties, ConcatProperties
<1>2. ASSUME NEW k \in 1 .. Len(b) PROVE At(c \o s, p + k - 1) = b[k]
  <2>1. PICK i \in Nat : i = p + k - 1
    BY <1>1
  <2>2. i < Len(c) /\ At(c, i) = b[k]
    BY <1>1, <2>1 DEF Has
  <2>3. i + 1 \in 1 .. Len(c) + Len(s) /\ i + 1 <= Len(c) /\ i < Len(c \o s)
    BY <1>1, <2>2
  <2>4. (c \o s)[i + 1] = c[i + 1]
    BY <2>3, ConcatProperties
  <2>5. At(c \o s, i) = At(c, i)
    BY <2>2, <2>3, <2>4 DEF At
  <2> QED
    BY <2>1, <2>2, <2>5
<1>3. p + Len(b) <= Len(c \o s)
  BY <1>1 DEF Has
<1> QED
  BY <1>2, <1>3 DEF Has

LEMMA HasNew ==
  ASSUME NEW c \in Seq(Byte), NEW b \in Seq(Byte)
  PROVE Has(c \o b, Len(c), b)
<1>1. Len(c) \in Nat /\ Len(b) \in Nat /\ Len(c \o b) = Len(c) + Len(b)
  BY LenProperties, ConcatProperties
<1>2. ASSUME NEW k \in 1 .. Len(b) PROVE At(c \o b, Len(c) + k - 1) = b[k]
  <2>1. PICK i \in Nat : i = Len(c) + k - 1
    <3>1. Len(c) + k - 1 \in Nat
      BY <1>1
    <3> QED
      BY <3>1
  <2>2. /\ i < Len(c \o b) /\ i + 1 \in 1 .. Len(c) + Len(b) /\ ~(i + 1 <= Len(c))
        /\ (i + 1) - Len(c) = k
    BY <1>1, <2>1
  <2>3. (c \o b)[i + 1] = b[k]
    BY <2>2, ConcatProperties
  <2> QED
    BY <2>1, <2>2, <2>3 DEF At
<1> QED
  BY <1>1, <1>2 DEF Has

LEMMA MachineLineBytes ==
  ASSUME NEW line, NEW bytes, MachineLine(line, bytes)
  PROVE bytes \in Seq(Byte) /\ Len(bytes) > 0
<1>1. CASE PairLine(line, bytes)
  <2>1. PICK m \in PairNames, a \in Register, b \in Register :
          bytes = EncodeReg2(SeabirdOpcode(m), a, b)
    BY <1>1 DEF PairLine
  <2>2. SeabirdOpcode(m) \in Byte
    BY PairOpcodes
  <2> QED
    BY <2>1, <2>2, Reg2Filled, Zenon
<1>2. CASE StackLine(line, bytes)
  <2>1. PICK m \in {"PUSH", "POP"}, a \in Register :
          bytes = EncodeReg2(SeabirdOpcode(m), 0, a)
    BY <1>2 DEF StackLine
  <2>2. SeabirdOpcode(m) \in Byte /\ 0 \in Register
    BY OtherOpcodes DEF Byte, Register
  <2> QED
    BY <2>1, <2>2, Reg2Filled, Zenon
<1>3. CASE ImmediateLine(line, bytes)
  <2>1. PICK a \in Register, imm \in ImmOperand : bytes = EncodeRegImm64(1, a, imm)
    BY <1>3 DEF ImmediateLine
  <2>2. Len(EncodeReg2(1, 0, a)) \in Nat
    BY ImmediateBytes, LenProperties
  <2> QED
    BY <2>1, <2>2, ImmediateBytes
<1>4. CASE JumpLine(line, bytes)
  <2>1. PICK m \in JumpNames, t \in Word32 : bytes = <<SeabirdOpcode(m)>> \o LittleEndian(t, 4)
    BY <1>4 DEF JumpLine
  <2>2. PICK h \in Seq(Byte), s \in Seq(Byte) :
          h = <<SeabirdOpcode(m)>> /\ s = LittleEndian(t, 4) /\ Len(h) = 1 /\ Len(s) = 4
    <3>1. SeabirdOpcode(m) \in Byte
      BY JumpOpcodes
    <3> QED
      BY <3>1, Words, OneByteSeq
  <2>3. h \o s \in Seq(Byte) /\ Len(h \o s) = Len(h) + Len(s)
    BY ConcatProperties
  <2>4. Len(h \o s) > 0
    BY <2>2, <2>3
  <2> QED
    BY <2>1, <2>2, <2>3, <2>4
<1>5. CASE BareLine(line, bytes)
  <2>1. PICK m \in {"RET", "SYSCALL"} : bytes = <<SeabirdOpcode(m)>>
    BY <1>5 DEF BareLine
  <2>2. SeabirdOpcode(m) \in Byte
    BY OtherOpcodes DEF Byte
  <2>3. <<SeabirdOpcode(m)>> \in Seq(Byte) /\ Len(<<SeabirdOpcode(m)>>) = 1
    BY <2>2, OneByteSeq
  <2> QED
    BY <2>1, <2>3
<1> QED
  BY <1>1, <1>2, <1>3, <1>4, <1>5 DEF MachineLine

LEMMA BranchTargets ==
  ASSUME DecodeInv, NEW k \in 1 .. Len(insts)
  PROVE WordTarget(insts[k])
<1> SUFFICES ASSUME insts[k].mnemonic \in BranchNames
             PROVE \E t \in Word32 : insts[k].ops = <<Imm(t)>>
  BY DEF WordTarget
<1>1. /\ Len(insts) \in Nat /\ Len(written) \in Nat /\ Len(insts) <= Len(written)
      /\ DecodedAs(insts[k], written[k])
  BY DEF DecodeInv, ReadInv, WrittenInv, IsSequence
<1>2. k \in 1 .. Len(written)
  BY <1>1
<1>3. PICK x : x = written[k].inst
  OBVIOUS
<1>4. IsInstruction(x)
  BY <1>2, <1>3 DEF DecodeInv, WrittenInv, StandsInInput
<1>5. x.mnemonic \in {"CALL", "JMP", "Jcc"}
  <2>1. CASE x.mnemonic = "Jcc"
    BY <2>1
  <2>2. CASE x.mnemonic # "Jcc"
    <3>1. x.mnemonic \in BranchNames
      BY <1>1, <1>3, <2>2 DEF DecodedAs
    <3>2. x.mnemonic \notin DOMAIN BinaryOpcode
      BY <3>1, BranchNameList, BinaryNames DEF PairNames
    <3> QED
      BY <1>4, <3>1, <3>2, BranchNameList DEF IsInstruction
  <2> QED
    BY <2>1, <2>2
<1>6. PICK t \in Word32 : x.ops = <<Imm(t)>>
  <2>1. x.mnemonic \notin DOMAIN BinaryOpcode
    BY <1>5, BinaryNames DEF PairNames
  <2> QED
    BY <1>4, <1>5, <2>1 DEF IsInstruction
<1>7. ReadsOperands(x)
  <2>1. /\ Len(x.ops) = 1 /\ x.ops[1] = Imm(t) /\ ~IsMem(Imm(t))
        /\ Imm(t)[3] = 0 => Imm(t)[2] >= 0
    BY <1>6, WordIsInteger DEF Imm, IsMem
  <2>2. \A j \in 1 .. Len(x.ops) : x.ops[j] = Imm(t)
    BY <2>1
  <2>3. MemoryOf(x) = {}
    BY <2>1, <2>2 DEF MemoryOf
  <2> QED
    BY <2>1, <2>2, <2>3 DEF ReadsOperands
<1> QED
  BY <1>1, <1>3, <1>6, <1>7 DEF DecodedAs

LEMMA InitOutput == TransInit => OutputInv
<1> SUFFICES ASSUME TransInit PROVE OutputInv
  OBVIOUS
<1>1. /\ input = <<>> /\ insts = <<>> /\ pos = 0 /\ phase = "writing"
      /\ lowered = <<>> /\ emitted = <<>> /\ plain = <<>> /\ offset = 0 /\ read = <<>>
  BY DEF TransInit
<1>2. /\ Len(insts) = 0 /\ Len(input) = 0 /\ Len(lowered) = 0 /\ Len(emitted) = 0
      /\ Len(plain) = 0 /\ Len(read) = 0 /\ emitted \in Seq(Byte)
  BY <1>1, EmptySeq
<1>3. \A k \in 1 .. 0 : FALSE
  OBVIOUS
<1>4. InstsInv
  BY <1>1, <1>2, <1>3 DEF InstsInv
<1>5. PhaseInv
  BY <1>1 DEF PhaseInv
<1>6. LoweredInv
  BY <1>1, <1>2, <1>3, EmptySequence DEF LoweredInv
<1>7. PlainEnd(0) = 0
  BY DEF PlainEnd
<1>8. TileInv
  BY <1>1, <1>2, <1>3, <1>7, EmptySequence DEF TileInv
<1>9. FollowInv
  BY <1>1, <1>2, <1>3, <1>7, EmptySequence DEF FollowInv
<1> QED
  BY <1>4, <1>5, <1>6, <1>8, <1>9, InitDecode DEF OutputInv

\* The decoder's position is a number, and every instruction moves it.
LEMMA PositionNumber == ASSUME DecodeInv PROVE pos \in Nat
<1>1. /\ Len(insts) \in Nat /\ Len(written) \in Nat /\ Len(insts) <= Len(written)
      /\ pos = EndOf(Len(insts))
      /\ \A k \in 1 .. Len(written) : StandsInInput(written[k])
  BY DEF DecodeInv, ReadInv, WrittenInv, IsSequence
<1>2. Len(insts) = 0 \/ Len(insts) \in 1 .. Len(written)
  BY <1>1
<1> QED
  BY <1>1, <1>2 DEF EndOf, StandsInInput

LEMMA DecodeAdvances ==
  ASSUME DecodeInv, DecodeInv', written' = written, input' = input,
         Len(insts') = Len(insts) + 1
  PROVE pos' > pos /\ pos' \in Nat
<1>1. /\ Len(insts) \in Nat /\ Len(written) \in Nat /\ Len(insts) + 1 <= Len(written)
      /\ pos = EndOf(Len(insts)) /\ pos' = written[Len(insts) + 1].end
      /\ \A k \in 1 .. Len(written) : StandsInInput(written[k]) /\ written[k].at = EndOf(k - 1)
      /\ input \in Seq(Byte)
  <2>1. /\ Len(insts) \in Nat /\ Len(written) \in Nat /\ pos = EndOf(Len(insts))
        /\ \A k \in 1 .. Len(written) : StandsInInput(written[k]) /\ written[k].at = EndOf(k - 1)
        /\ input \in Seq(Byte)
    BY DEF DecodeInv, ReadInv, WrittenInv, IsSequence
  <2>2. Len(insts') <= Len(written') /\ pos' = EndOf(Len(insts))'
    BY DEF DecodeInv, ReadInv
  <2>3. Len(insts') # 0
    BY <2>1
  <2> QED
    BY <2>1, <2>2, <2>3 DEF EndOf
<1>2. PICK k \in 1 .. Len(written) : k = Len(insts) + 1
  BY <1>1
<1>3. PICK w : w = written[k]
  OBVIOUS
<1>4. k - 1 = Len(insts) /\ k # 0
  BY <1>1, <1>2
<1>5. w.at = pos /\ pos' = w.end
  BY <1>1, <1>2, <1>3, <1>4
<1>6. PICK code \in Encodings(w.inst, w.at) : w.end = w.at + Len(code)
  BY <1>1, <1>3 DEF StandsInInput
<1>7. IsInstruction(w.inst) /\ w.at \in Nat /\ w.end \in Nat
  BY <1>1, <1>3 DEF StandsInInput
<1>8. code \in Seq(Byte) /\ code # <<>>
  BY <1>1, <1>6, <1>7, EncodingRead DEF EncodingIs
<1>9. Len(code) \in Nat \ {0}
  BY <1>8, EmptySeq
<1> QED
  BY <1>5, <1>6, <1>7, <1>9

\* While there is no output, nothing is said about it.
LEMMA NoOutput ==
  ASSUME phase' = "decoding" \/ phase' = "error",
         lowered' = <<>>, emitted' = <<>>, plain' = <<>>, offset' = 0, read' = <<>>,
         Len(insts') \in Nat
  PROVE LoweredInv' /\ TileInv' /\ FollowInv'
<1>1. /\ Len(lowered') = 0 /\ Len(emitted') = 0 /\ Len(plain') = 0 /\ Len(read') = 0
      /\ emitted' \in Seq(Byte)
  BY EmptySeq
<1>2. \A k \in 1 .. 0 : FALSE
  OBVIOUS
<1>3. PlainEnd(0)' = 0
  BY DEF PlainEnd
<1>4. LoweredInv'
  BY <1>1, <1>2, EmptySequence DEF LoweredInv
<1>5. TileInv'
  <2>1. PlainEnd(Len(plain))' = 0
    BY <1>1 DEF PlainEnd
  <2> QED
    BY <1>1, <1>2, <2>1, EmptySequence DEF TileInv
<1>6. FollowInv'
  <2>1. PlainEnd(Len(read))' = 0
    BY <1>1 DEF PlainEnd
  <2> QED
    BY <1>1, <1>2, <2>1, EmptySequence DEF FollowInv
<1> QED
  BY <1>4, <1>5, <1>6

\* The output stays as it is.
LEMMA SameOutput ==
  ASSUME OutputInv, UNCHANGED <<insts, outputVars, offset, read>>,
         phase' # "stopped" \/ phase = "stopped"
  PROVE LoweredInv' /\ TileInv' /\ FollowInv'
<1>1. /\ lowered' = lowered /\ emitted' = emitted /\ plain' = plain
      /\ insts' = insts /\ offset' = offset /\ read' = read
  BY DEF outputVars
<1>2. \A k : PlainEnd(k)' = PlainEnd(k)
  BY <1>1 DEF PlainEnd
<1>3. HasParityJump' <=> HasParityJump
  BY <1>1 DEF HasParityJump
<1>4. LoweredInv'
  BY <1>1 DEF OutputInv, LoweredInv
<1>5. \A l : StandsInOutput(l)' <=> StandsInOutput(l)
  BY <1>1 DEF StandsInOutput
<1>6. TileInv'
  <2>1. ASSUME TileInv PROVE TileInv'
    BY <1>1, <1>2, <1>3, <1>5, <2>1 DEF TileInv, StandsInOutput
  <2> QED
    BY <2>1 DEF OutputInv
<1>7. FollowInv'
  BY <1>1, <1>2, <1>3 DEF OutputInv, FollowInv
<1> QED
  BY <1>4, <1>6, <1>7

\* The program is written and opened.
LEMMA InputSteps ==
  ASSUME OutputInv, WriteOne \/ \E size \in 0 .. Len(input) : Open(size)
  PROVE OutputInv'
<1>1. /\ phase = "writing" /\ phase' \in {"writing", "decoding"}
      /\ UNCHANGED <<pos, insts, outputVars, offset, read>>
  BY DEF WriteOne, Write, Open
<1>2. insts = <<>> /\ pos = 0 /\ Len(insts) = 0
  BY <1>1, EmptySequence DEF OutputInv, DecodeInv, OpenInv
<1>3. DecodeInv'
  BY WriteStep, OpenStep DEF OutputInv
<1>4. Len(input') \in Nat
  BY <1>3, LenProperties DEF DecodeInv, WrittenInv
<1>5. InstsInv'
  BY <1>1, <1>2, <1>4 DEF OutputInv, InstsInv
<1>6. PhaseInv'
  BY <1>1 DEF OutputInv, PhaseInv, outputVars
<1>7. LoweredInv' /\ TileInv' /\ FollowInv'
  BY <1>1, SameOutput
<1> QED
  BY <1>3, <1>5, <1>6, <1>7 DEF OutputInv

\* An instruction is decoded, or none.
LEMMA DecodeOutput ==
  ASSUME OutputInv, DecodeNext
  PROVE OutputInv'
<1>1. /\ phase = "decoding" /\ pos < Len(input) /\ input' = input /\ written' = written
      /\ UNCHANGED <<outputVars, offset, read>>
  BY DEF DecodeNext
<1>2. /\ lowered' = <<>> /\ emitted' = <<>> /\ plain' = <<>> /\ offset' = 0 /\ read' = <<>>
  BY <1>1 DEF OutputInv, PhaseInv, outputVars
<1>3. DecodeInv'
  BY DecodeStep DEF OutputInv
<1>4. /\ IsSequence(insts) /\ Len(insts) \in Nat /\ Len(insts) <= pos
      /\ \A k \in 1 .. Len(insts) : IsDecoded(insts[k])
      /\ input \in Seq(Byte) /\ Len(input) \in Nat
  BY LenProperties DEF OutputInv, InstsInv, DecodeInv, ReadInv, WrittenInv, IsSequence
<1>5. Len(insts') \in Nat
  BY <1>3 DEF DecodeInv, ReadInv, IsSequence
<1>6. PICK x : x = Next(input, pos)
  OBVIOUS
<1>7. CASE x.ok
  <2>1. /\ insts' = Append(insts, [pc |-> pos, mnemonic |-> x.mnemonic, ops |-> x.ops])
        /\ pos' = x.end /\ phase' = "decoding"
    BY <1>1, <1>6, <1>7 DEF DecodeNext
  <2>2. PICK y : y = [pc |-> pos, mnemonic |-> x.mnemonic, ops |-> x.ops]
    OBVIOUS
  <2>3. /\ Len(insts') = Len(insts) + 1 /\ insts'[Len(insts) + 1] = y
        /\ \A j \in 1 .. Len(insts) : insts'[j] = insts[j]
    BY <1>4, <2>1, <2>2, Appended
  <2>4. pos \in Nat
    BY <1>1, <1>4, PositionNumber DEF OutputInv
  <2>5. IsDecoded(x) /\ x.end <= Len(input)
    BY <1>1, <1>4, <1>6, <1>7, <2>4, NextDecoded
  <2>6. IsDecoded(y)
    BY <2>2, <2>5 DEF IsDecoded
  <2>7. pos' > pos /\ pos' \in Nat
    BY <1>1, <1>3, <2>1, <2>3, DecodeAdvances DEF OutputInv
  <2>8. ASSUME NEW k \in 1 .. Len(insts') PROVE IsDecoded(insts'[k])
    <3>1. k \in 1 .. Len(insts) \/ k = Len(insts) + 1
      BY <1>4, <2>3
    <3> QED
      BY <1>4, <2>3, <2>6, <3>1
  <2>9. InstsInv'
    BY <1>1, <1>4, <2>1, <2>3, <2>4, <2>5, <2>7, <2>8 DEF InstsInv
  <2>10. PhaseInv'
    BY <1>2, <2>1 DEF PhaseInv
  <2> QED
    BY <1>2, <1>3, <1>5, <2>1, <2>9, <2>10, NoOutput DEF OutputInv
<1>8. CASE ~x.ok
  <2>1. insts' = insts /\ pos' = pos /\ phase' = "error"
    BY <1>1, <1>6, <1>8 DEF DecodeNext
  <2>2. InstsInv'
    BY <1>1, <2>1 DEF OutputInv, InstsInv
  <2>3. PhaseInv'
    BY <1>2, <2>1 DEF PhaseInv
  <2> QED
    BY <1>2, <1>3, <1>5, <2>1, <2>2, <2>3, NoOutput DEF OutputInv
<1> QED
  BY <1>7, <1>8

\* Between the loops, or nothing at all.
LEMMA QuietSteps ==
  ASSUME OutputInv, AllDecoded \/ WriteOutput \/ UNCHANGED vars
  PROVE OutputInv'
<1>1. UNCHANGED <<input, written, pos, insts, outputVars, offset, read>>
  BY DEF AllDecoded, WriteOutput, vars
<1>2. \/ phase = "decoding" /\ phase' = "lowering" /\ pos = Len(input)
      \/ phase = "lowering" /\ phase' = "reading"
      \/ phase' = phase
  BY DEF AllDecoded, WriteOutput, vars
<1>3. DecodeInv'
  BY LaterStep DEF OutputInv
<1>4. InstsInv'
  BY <1>1 DEF OutputInv, InstsInv
<1>5. PhaseInv'
  BY <1>1, <1>2 DEF OutputInv, PhaseInv, outputVars
<1>6. LoweredInv' /\ TileInv' /\ FollowInv'
  BY <1>1, <1>2, SameOutput
<1> QED
  BY <1>3, <1>4, <1>5, <1>6 DEF OutputInv

LEMMA NoPlainLines ==
  ASSUME NEW e, Noted(e) \/ Silent(e), NEW at
  PROVE PlainLines(e, at) = <<>>
<1>1. CASE Noted(e)
  BY <1>1 DEF Noted, PlainLines
<1>2. CASE Silent(e)
  <2>1. Len(e.lines) = 0 /\ e.notes = <<>>
    BY <1>2, EmptySequence DEF Silent
  <2>2. 1 .. 0 = {}
    OBVIOUS
  <2> QED
    BY <2>1, <2>2 DEF PlainLines
<1> QED
  BY <1>1, <1>2

LEMMA OnePlainLine ==
  ASSUME NEW e, NEW line, e.notes = <<>>, e.lines = <<line>>, NEW at,
         NEW l, l = [line |-> line, at |-> at, end |-> at + Len(e.bytes)]
  PROVE PlainLines(e, at) = <<l>>
<1>1. Len(<<line>>) = 1 /\ 1 .. 1 = {1} /\ <<line>>[1] = line
  OBVIOUS
<1>2. PlainLines(e, at) = [k \in {1} |-> [line |-> <<line>>[k], at |-> at,
                                          end |-> at + Len(e.bytes)]]
  BY <1>1 DEF PlainLines
<1>3. PlainLines(e, at) = [k \in {1} |-> l]
  BY <1>1, <1>2
<1> QED
  BY <1>3

\* An instruction is lowered.
LEMMA LowerOutput ==
  ASSUME OutputInv, LowerNext
  PROVE OutputInv'
<1>1. /\ phase = "lowering" /\ Len(lowered) < Len(insts)
      /\ UNCHANGED <<phase, input, written, pos, insts, offset, read>>
  BY DEF LowerNext
<1>2. /\ IsSequence(lowered) /\ Len(lowered) \in Nat /\ Len(insts) \in Nat
      /\ \A k \in 1 .. Len(lowered) : lowered[k] = Lower(insts[k])
      /\ emitted \in Seq(Byte) /\ Len(emitted) \in Nat /\ offset = 0 /\ read = <<>>
  BY <1>1, LenProperties DEF OutputInv, LoweredInv, PhaseInv, DecodeInv, ReadInv, IsSequence
<1>3. PICK n \in 1 .. Len(insts) : n = Len(lowered) + 1
  BY <1>1, <1>2
<1>4. PICK x, e : x = insts[n] /\ e = Lower(x)
  OBVIOUS
<1>5. IsDecoded(x) /\ WordTarget(x)
  BY <1>4, BranchTargets DEF OutputInv, InstsInv
<1>6. /\ lowered' = Append(lowered, e) /\ emitted' = emitted \o e.bytes
      /\ plain' = plain \o PlainLines(e, Len(emitted))
  BY <1>3, <1>4 DEF LowerNext
<1>7. /\ IsSequence(lowered') /\ Len(lowered') = n /\ lowered'[n] = e
      /\ \A j \in 1 .. Len(lowered) : lowered'[j] = lowered[j]
  BY <1>2, <1>3, <1>6, Appended
<1>8. \/ Noted(e) \/ Silent(e) \/ Plain(e)
      \/ x.mnemonic \in {"JP", "JNP"} /\ e.bytes \in Seq(Byte)
  BY <1>4, <1>5, LowerShape
<1>9. e.bytes \in Seq(Byte)
  BY <1>8, MachineLineBytes, EmptySeq DEF Noted, Silent, Plain
<1>10. /\ emitted' \in Seq(Byte) /\ Len(emitted') = Len(emitted) + Len(e.bytes)
       /\ Len(e.bytes) \in Nat
  BY <1>2, <1>6, <1>9, ConcatProperties, LenProperties
<1>11. LoweredInv'
  <2>1. ASSUME NEW k \in 1 .. Len(lowered') PROVE lowered'[k] = Lower(insts'[k])
    <3>1. k \in 1 .. Len(lowered) \/ k = n
      BY <1>2, <1>3, <1>7
    <3> QED
      BY <1>1, <1>2, <1>4, <1>7, <3>1
  <2>2. offset' \in 0 .. Len(emitted')
    BY <1>1, <1>2, <1>10
  <2> QED
    BY <1>1, <1>3, <1>7, <1>10, <2>1, <2>2 DEF LoweredInv
<1>12. PhaseInv'
  BY <1>1 DEF OutputInv, PhaseInv
<1>13. HasParityJump' <=> HasParityJump
  BY <1>1 DEF HasParityJump
<1>14. ASSUME ~HasParityJump
       PROVE /\ IsSequence(plain')
             /\ \A k \in 1 .. Len(plain') :
                  StandsInOutput(plain[k])' /\ plain'[k].at = PlainEnd(k - 1)'
             /\ Len(emitted') = PlainEnd(Len(plain))'
  <2>1. /\ IsSequence(plain) /\ Len(plain) \in Nat /\ Len(emitted) = PlainEnd(Len(plain))
        /\ \A k \in 1 .. Len(plain) : StandsInOutput(plain[k]) /\ plain[k].at = PlainEnd(k - 1)
    BY <1>14 DEF OutputInv, TileInv, IsSequence
  <2>2. CASE Noted(e) \/ Silent(e)
    <3>1. plain' = plain
      BY <1>6, <2>1, <2>2, NoPlainLines, Joined
    <3>2. emitted' = emitted
      BY <1>2, <1>6, <2>2, ConcatEmptySeq DEF Noted, Silent
    <3>3. \A k : PlainEnd(k)' = PlainEnd(k)
      BY <3>1 DEF PlainEnd
    <3> QED
      BY <2>1, <3>1, <3>2, <3>3 DEF StandsInOutput
  <2>3. CASE Plain(e)
    <3>1. PICK line : e.notes = <<>> /\ e.lines = <<line>> /\ MachineLine(line, e.bytes)
      BY <2>3 DEF Plain
    <3>2. PICK l : l = [line |-> line, at |-> Len(emitted), end |-> Len(emitted) + Len(e.bytes)]
      OBVIOUS
    <3>3. plain' = Append(plain, l)
      <4>1. PlainLines(e, Len(emitted)) = <<l>>
        BY <3>1, <3>2, OnePlainLine
      <4>2. plain \o <<l>> = Append(plain, l)
        BY <2>1, Joined
      <4> QED
        BY <1>6, <4>1, <4>2
    <3>4. /\ IsSequence(plain') /\ Len(plain') = Len(plain) + 1 /\ plain'[Len(plain) + 1] = l
          /\ \A k \in 1 .. Len(plain) : plain'[k] = plain[k]
      BY <2>1, <3>3, Appended
    <3>5. StandsInOutput(l)'
      <4>1. Has(emitted', Len(emitted), e.bytes)
        BY <1>2, <1>6, <1>9, HasNew
      <4>2. l.line = line /\ l.at = Len(emitted) /\ l.end = Len(emitted) + Len(e.bytes)
        BY <3>2
      <4>3. l.at \in Nat /\ l.end = l.at + Len(e.bytes) /\ Has(emitted', l.at, e.bytes)
            /\ MachineLine(l.line, e.bytes)
        BY <1>2, <3>1, <4>1, <4>2
      <4> QED
        BY <1>9, <4>3 DEF StandsInOutput
    <3>6. ASSUME NEW v, StandsInOutput(v) PROVE StandsInOutput(v)'
      <4>1. PICK bytes \in Seq(Byte) : /\ MachineLine(v.line, bytes) /\ v.at \in Nat
                                       /\ v.end = v.at + Len(bytes) /\ Has(emitted, v.at, bytes)
        BY <3>6 DEF StandsInOutput
      <4>2. Has(emitted', v.at, bytes)
        BY <1>2, <1>6, <1>9, <4>1, HasStays
      <4> QED
        BY <4>1, <4>2 DEF StandsInOutput
    <3>7. \A k \in 0 .. Len(plain) : PlainEnd(k)' = PlainEnd(k)
      <4>1. ASSUME NEW k \in 0 .. Len(plain) PROVE PlainEnd(k)' = PlainEnd(k)
        <5>1. k = 0 \/ k \in 1 .. Len(plain)
          BY <2>1
        <5> QED
          BY <3>4, <5>1 DEF PlainEnd
      <4> QED
        BY <4>1
    <3>8. ASSUME NEW k \in 1 .. Len(plain')
          PROVE StandsInOutput(plain[k])' /\ plain'[k].at = PlainEnd(k - 1)'
      <4>1. k - 1 \in 0 .. Len(plain) /\ (k \in 1 .. Len(plain) \/ k = Len(plain) + 1)
        BY <2>1, <3>4
      <4>2. CASE k \in 1 .. Len(plain)
        <5>1. PICK v : v = plain[k] /\ v = plain'[k]
          BY <3>4, <4>2
        <5>2. StandsInOutput(v)' /\ v.at = PlainEnd(k - 1)
          BY <2>1, <3>6, <4>2, <5>1
        <5>3. StandsInOutput(plain[k])'
          BY <5>1, <5>2, Zenon DEF StandsInOutput
        <5> QED
          BY <3>7, <4>1, <5>1, <5>2, <5>3
      <4>3. CASE k = Len(plain) + 1
        <5>1. k - 1 = Len(plain) /\ plain'[k] = l
          BY <2>1, <3>4, <4>3
        <5>2. l.at = PlainEnd(k - 1)
          BY <2>1, <3>2, <5>1
        <5>3. StandsInOutput(plain[k])'
          BY <3>5, <5>1, Zenon DEF StandsInOutput
        <5> QED
          BY <3>7, <4>1, <5>1, <5>2, <5>3
      <4> QED
        BY <4>1, <4>2, <4>3
    <3>9. Len(emitted') = PlainEnd(Len(plain))'
      <4>1. Len(plain') # 0
        BY <2>1, <3>4
      <4> QED
        BY <1>10, <3>2, <3>4, <4>1 DEF PlainEnd
    <3> QED
      BY <3>4, <3>8, <3>9
  <2>4. CASE x.mnemonic \in {"JP", "JNP"}
    BY <1>3, <1>4, <1>14, <2>4 DEF HasParityJump
  <2> QED
    BY <1>8, <2>2, <2>3, <2>4
<1>15. TileInv'
  BY <1>13, <1>14 DEF TileInv
<1>16. FollowInv'
  <2>1. ASSUME ~HasParityJump PROVE PlainEnd(Len(read))' = 0 /\ Len(plain') \in Nat
    BY <1>1, <1>2, <1>14, <2>1, EmptySequence DEF PlainEnd, IsSequence
  <2>2. Len(read') = 0 /\ IsSequence(read')
    BY <1>1, <1>2, EmptySequence
  <2> QED
    BY <1>1, <1>2, <1>13, <2>1, <2>2 DEF FollowInv
<1>17. InstsInv'
  BY <1>1 DEF OutputInv, InstsInv
<1>18. DecodeInv'
  BY LaterStep DEF OutputInv
<1> QED
  BY <1>11, <1>12, <1>15, <1>16, <1>17, <1>18 DEF OutputInv

\* An instruction of the output is decoded by the machine, or none.
LEMMA FetchOutput ==
  ASSUME OutputInv, FetchNext
  PROVE OutputInv'
<1>1. /\ phase = "reading" /\ offset < Len(emitted)
      /\ UNCHANGED <<input, written, pos, insts, outputVars>>
  BY DEF FetchNext
<1>2. /\ lowered' = lowered /\ emitted' = emitted /\ plain' = plain
      /\ insts' = insts /\ pos' = pos /\ input' = input
  BY <1>1 DEF outputVars
<1>3. /\ emitted \in Seq(Byte) /\ Len(emitted) \in Nat /\ offset \in 0 .. Len(emitted)
      /\ pos = Len(input)
  BY <1>1, LenProperties DEF OutputInv, LoweredInv, PhaseInv
<1>4. PICK d : d = DecodeAt(emitted, offset)
  OBVIOUS
<1>5. phase' \in {"reading", "stopped"}
  BY <1>1, <1>4 DEF FetchNext
<1>6. d.ok => offset + d.size <= Len(emitted) /\ offset + d.size \in Nat
  BY <1>3, <1>4, DecodeStaysInside
<1>7. offset' \in 0 .. Len(emitted)
  <2>1. CASE d.ok
    BY <1>3, <1>4, <1>6, <2>1 DEF FetchNext
  <2>2. CASE ~d.ok
    BY <1>3, <1>4, <2>2 DEF FetchNext
  <2> QED
    BY <2>1, <2>2
<1>8. DecodeInv'
  BY LaterStep DEF OutputInv
<1>9. InstsInv'
  BY <1>2 DEF OutputInv, InstsInv
<1>10. PhaseInv'
  BY <1>2, <1>3, <1>5 DEF PhaseInv
<1>11. LoweredInv'
  BY <1>2, <1>3, <1>7 DEF OutputInv, LoweredInv
<1>12. \A k : PlainEnd(k)' = PlainEnd(k)
  BY <1>2 DEF PlainEnd
<1>13. HasParityJump' <=> HasParityJump
  BY <1>2 DEF HasParityJump
<1>14. TileInv'
  BY <1>2, <1>12, <1>13 DEF OutputInv, TileInv, StandsInOutput
<1>15. ASSUME ~HasParityJump
       PROVE /\ phase' # "stopped" /\ IsSequence(read') /\ Len(read') <= Len(plain)
             /\ \A k \in 1 .. Len(read') : LineOf(read'[k]) = plain[k].line
             /\ offset' = PlainEnd(Len(read'))
  <2>1. /\ IsSequence(read) /\ Len(read) \in Nat /\ Len(plain) \in Nat
        /\ Len(read) <= Len(plain) /\ offset = PlainEnd(Len(read))
        /\ Len(emitted) = PlainEnd(Len(plain))
        /\ \A k \in 1 .. Len(read) : LineOf(read[k]) = plain[k].line
        /\ \A k \in 1 .. Len(plain) : StandsInOutput(plain[k]) /\ plain[k].at = PlainEnd(k - 1)
    BY <1>15 DEF OutputInv, TileInv, FollowInv, IsSequence
  <2>2. Len(read) # Len(plain)
    BY <1>1, <1>3, <2>1
  <2>3. PICK n \in 1 .. Len(plain) : n = Len(read) + 1
    BY <2>1, <2>2
  <2>4. PICK l : l = plain[n]
    OBVIOUS
  <2>5. n - 1 = Len(read)
    BY <2>1, <2>3
  <2>6. l.at = offset
    BY <2>1, <2>3, <2>4, <2>5
  <2>7. PICK bytes \in Seq(Byte) : /\ MachineLine(l.line, bytes)
                                   /\ l.end = l.at + Len(bytes) /\ Has(emitted, l.at, bytes)
    BY <2>1, <2>3, <2>4 DEF StandsInOutput
  <2>8. ReadsLine(emitted, offset, Len(bytes), l.line)
    <3>1. offset \in Nat
      BY <1>3
    <3> QED
      BY <1>3, <2>6, <2>7, <3>1, MachineReadsLine
  <2>9. d.ok /\ d.size = Len(bytes) /\ LineOf(d) = l.line
    BY <1>4, <2>8 DEF ReadsLine
  <2>10. phase' = phase /\ offset' = offset + d.size /\ read' = Append(read, d)
    BY <1>4, <2>9 DEF FetchNext
  <2>11. /\ IsSequence(read') /\ Len(read') = Len(read) + 1 /\ read'[Len(read) + 1] = d
         /\ \A k \in 1 .. Len(read) : read'[k] = read[k]
    BY <2>1, <2>10, Appended
  <2>12. ASSUME NEW k \in 1 .. Len(read') PROVE LineOf(read'[k]) = plain[k].line
    <3>1. k \in 1 .. Len(read) \/ k = n
      BY <2>1, <2>3, <2>11
    <3>2. CASE k \in 1 .. Len(read)
      BY <2>1, <2>11, <3>2
    <3>3. CASE k = n
      BY <2>3, <2>4, <2>9, <2>11, <3>3
    <3> QED
      BY <3>1, <3>2, <3>3
  <2>13. offset' = PlainEnd(Len(read'))
    <3>1. n # 0 /\ Len(read') = n
      BY <2>1, <2>3, <2>11
    <3>2. PlainEnd(n) = l.end
      BY <2>4, <3>1 DEF PlainEnd
    <3> QED
      BY <2>6, <2>7, <2>9, <2>10, <3>1, <3>2
  <2> QED
    BY <1>1, <2>3, <2>10, <2>11, <2>12, <2>13
<1>16. FollowInv'
  BY <1>2, <1>12, <1>13, <1>15 DEF FollowInv
<1> QED
  BY <1>8, <1>9, <1>10, <1>11, <1>14, <1>16 DEF OutputInv

\* In every program the lines without a note tile the bytes, and the machine, reading the
\* bytes, stands between two of those lines with the earlier ones read.
THEOREM OutputCorrect == TransSpec => []OutputInv
<1>1. TransInit => OutputInv
  BY InitOutput
<1>2. OutputInv /\ [TransNext]_vars => OutputInv'
  BY InputSteps, DecodeOutput, QuietSteps, LowerOutput, FetchOutput DEF TransNext
<1> QED
  BY <1>1, <1>2, PTL DEF TransSpec

\* Bytes are bytes, nothing is written before all of the input is decoded, and neither
\* reader leaves its file.
THEOREM TranslatorTypes == TransSpec => []TransTypeOK
<1>1. OutputInv => TransTypeOK
  <2> SUFFICES ASSUME OutputInv PROVE TransTypeOK
    OBVIOUS
  <2>1. pos \in Nat
    BY PositionNumber DEF OutputInv
  <2>2. /\ input \in Seq(Byte) /\ Len(input) \in Nat /\ IsSequence(insts)
        /\ IsSequence(lowered) /\ Len(lowered) <= Len(insts)
        /\ emitted \in Seq(Byte) /\ Len(emitted) \in Nat /\ offset \in 0 .. Len(emitted)
        /\ pos <= Len(input) /\ Len(insts) <= pos
    BY LenProperties DEF OutputInv, DecodeInv, WrittenInv, ReadInv, LoweredInv, InstsInv
  <2>3. /\ \A k \in 1 .. Len(input) : input[k] \in 0 .. 255
        /\ \A k \in 1 .. Len(emitted) : emitted[k] \in 0 .. 255
    BY <2>2, ElementOfSeq DEF Byte
  <2>4. phase \in {"writing", "decoding", "lowering", "reading", "error", "stopped"}
    BY DEF OutputInv, PhaseInv
  <2>5. lowered # <<>> => pos = Len(input)
    BY DEF OutputInv, PhaseInv
  <2> QED
    BY <2>1, <2>2, <2>3, <2>4, <2>5 DEF TransTypeOK
<1> QED
  BY <1>1, OutputCorrect, PTL

\* The reference machine decodes the byte file, to its last byte, as the lines no note is
\* about, in every program without a parity jump.
THEOREM BytesAreTheText == TransSpec => []BytesFollowText
<1>1. OutputInv => BytesFollowText
  <2> SUFFICES ASSUME OutputInv, phase \in {"reading", "stopped"}, ~HasParityJump
               PROVE /\ phase = "reading"
                     /\ \A k \in 1 .. Len(read) : /\ k <= Len(plain)
                                                  /\ LineOf(read[k]) = plain[k].line
                     /\ offset = Len(emitted) => Len(read) = Len(plain)
    BY DEF BytesFollowText
  <2>1. /\ IsSequence(read) /\ Len(read) \in Nat /\ Len(plain) \in Nat
        /\ Len(read) <= Len(plain) /\ offset = PlainEnd(Len(read)) /\ phase # "stopped"
        /\ \A k \in 1 .. Len(read) : LineOf(read[k]) = plain[k].line
        /\ \A k \in 1 .. Len(plain) : StandsInOutput(plain[k]) /\ plain[k].at = PlainEnd(k - 1)
    BY DEF OutputInv, TileInv, FollowInv, IsSequence
  <2>2. ASSUME offset = Len(emitted), Len(read) # Len(plain) PROVE FALSE
    <3>1. PICK n \in 1 .. Len(plain) : n = Len(read) + 1 /\ n - 1 = Len(read)
      BY <2>1, <2>2
    <3>2. PICK l : l = plain[n] /\ l.at = offset
      BY <2>1, <3>1
    <3>3. PICK bytes \in Seq(Byte) : MachineLine(l.line, bytes) /\ Has(emitted, l.at, bytes)
      BY <2>1, <3>1, <3>2 DEF StandsInOutput
    <3>4. Len(bytes) > 0 /\ Len(bytes) \in Nat
      BY <3>3, MachineLineBytes, LenProperties
    <3>5. emitted \in Seq(Byte) /\ Len(emitted) \in Nat
      BY LenProperties DEF OutputInv, LoweredInv
    <3>6. Len(emitted) + Len(bytes) <= Len(emitted)
      BY <2>2, <3>2, <3>3 DEF Has
    <3> QED
      BY <3>4, <3>5, <3>6
  <2>3. phase = "reading"
    BY <2>1
  <2> QED
    BY <2>1, <2>2, <2>3
<1> QED
  BY <1>1, OutputCorrect, PTL

-----------------------------------------------------------------------------
(* What lines of assembly do.  From state s the lines lead to state t.     *)
Does(s, lines, t) ==
  \E f : /\ f[0] = s /\ f[Len(lines)] = t
         /\ \A k \in 1 .. Len(lines) : f[k] = RunLine(f[k - 1], lines[k])

LEMMA OneLine == ASSUME NEW s, NEW l PROVE IsSequence(<<l>>) /\ Does(s, <<l>>, RunLine(s, l))
<1>1. Len(<<l>>) = 1 /\ <<l>>[1] = l /\ IsSequence(<<l>>)
  BY DEF IsSequence
<1>2. PICK f : f = [k \in {0, 1} |-> IF k = 0 THEN s ELSE RunLine(s, l)]
  OBVIOUS
<1>3. f[0] = s /\ f[1] = RunLine(s, l)
  BY <1>2
<1>4. \A k \in 1 .. 1 : f[k] = RunLine(f[k - 1], <<l>>[k])
  <2>1. \A k \in 1 .. 1 : k = 1 /\ k - 1 = 0
    OBVIOUS
  <2> QED
    BY <1>1, <1>3, <2>1
<1> QED
  BY <1>1, <1>3, <1>4 DEF Does

LEMMA JoinedBoth ==
  ASSUME NEW s, IsSequence(s), NEW t, IsSequence(t)
  PROVE /\ IsSequence(s \o t) /\ Len(s \o t) = Len(s) + Len(t)
        /\ \A k \in 1 .. Len(s) : (s \o t)[k] = s[k]
        /\ \A k \in 1 .. Len(t) : (s \o t)[Len(s) + k] = t[k]
<1>1. PICK n \in Nat : n = Len(s) /\ s = [k \in 1 .. n |-> s[k]]
  BY DEF IsSequence
<1>2. PICK m \in Nat : m = Len(t) /\ t = [k \in 1 .. m |-> t[k]]
  BY DEF IsSequence
<1>3. PICK S : S = {s[k] : k \in 1 .. n} \cup {t[k] : k \in 1 .. m}
  OBVIOUS
<1>4. s \in Seq(S)
  <2>1. \A k \in 1 .. n : s[k] \in S
    BY <1>3
  <2>2. s \in [1 .. n -> S]
    BY <1>1, <2>1, Zenon
  <2> QED
    BY <2>2, SeqDef
<1>5. t \in Seq(S)
  <2>1. \A k \in 1 .. m : t[k] \in S
    BY <1>3
  <2>2. t \in [1 .. m -> S]
    BY <1>2, <2>1, Zenon
  <2> QED
    BY <2>2, SeqDef
<1>6. s \o t \in Seq(S) /\ Len(s \o t) = Len(s) + Len(t)
  BY <1>4, <1>5, ConcatProperties
<1>7. IsSequence(s \o t)
  BY <1>6, SequenceMade
<1>8. ASSUME NEW k \in 1 .. Len(s) PROVE (s \o t)[k] = s[k]
  <2>1. k \in 1 .. Len(s) + Len(t) /\ k <= Len(s)
    BY <1>1, <1>2
  <2> QED
    BY <1>4, <1>5, <2>1, ConcatProperties
<1>9. ASSUME NEW k \in 1 .. Len(t) PROVE (s \o t)[Len(s) + k] = t[k]
  <2>1. PICK j \in 1 .. m : j = k
    BY <1>2
  <2>2. n + j \in 1 .. n + m /\ ~(n + j <= n) /\ (n + j) - n = j
    OBVIOUS
  <2>3. PICK i \in 1 .. Len(s) + Len(t) : i = Len(s) + k /\ ~(i <= Len(s)) /\ i - Len(s) = k
    BY <1>1, <1>2, <2>1, <2>2
  <2>4. (s \o t)[i] = t[i - Len(s)]
    BY <1>4, <1>5, <2>3, ConcatProperties
  <2> QED
    BY <2>3, <2>4
<1> QED
  BY <1>6, <1>7, <1>8, <1>9

LEMMA DoesBoth ==
  ASSUME NEW a, IsSequence(a), NEW b, IsSequence(b), NEW s, NEW t, NEW u,
         Does(s, a, t), Does(t, b, u)
  PROVE IsSequence(a \o b) /\ Does(s, a \o b, u)
<1>1. PICK n \in Nat, m \in Nat : n = Len(a) /\ m = Len(b) /\ Len(a \o b) = n + m
  BY JoinedBoth DEF IsSequence
<1>2. PICK f : f[0] = s /\ f[n] = t /\ \A k \in 1 .. n : f[k] = RunLine(f[k - 1], a[k])
  BY <1>1 DEF Does
<1>3. PICK g : g[0] = t /\ g[m] = u /\ \A k \in 1 .. m : g[k] = RunLine(g[k - 1], b[k])
  BY <1>1 DEF Does
<1>4. PICK h : h = [k \in Nat |-> IF k <= n THEN f[k] ELSE g[k - n]]
  OBVIOUS
<1>5. \A k \in 0 .. n : h[k] = f[k]
  BY <1>4
<1>6. \A k \in 0 .. m : h[n + k] = g[k]
  <2>1. ASSUME NEW k \in 0 .. m PROVE h[n + k] = g[k]
    <3>1. n + k \in Nat /\ (n + k) - n = k /\ (n + k <= n <=> k = 0)
      BY <1>1
    <3>2. CASE k = 0
      BY <1>2, <1>3, <1>4, <3>1, <3>2
    <3>3. CASE k # 0
      BY <1>4, <3>1, <3>3
    <3> QED
      BY <3>2, <3>3
  <2> QED
    BY <2>1
<1>7. ASSUME NEW k \in 1 .. n + m PROVE h[k] = RunLine(h[k - 1], (a \o b)[k])
  <2>1. CASE k <= n
    <3>1. k \in 1 .. n /\ k \in 0 .. n /\ k - 1 \in 0 .. n
      BY <2>1
    <3>2. (a \o b)[k] = a[k]
      BY <1>1, <3>1, JoinedBoth
    <3> QED
      BY <1>2, <1>5, <3>1, <3>2
  <2>2. CASE ~(k <= n)
    <3>1. PICK j \in 1 .. m : j = k - n
      BY <2>2
    <3>2. k = n + j /\ k - 1 = n + (j - 1) /\ j \in 0 .. m /\ j - 1 \in 0 .. m
      BY <3>1
    <3>3. (a \o b)[k] = b[j]
      BY <1>1, <3>2, JoinedBoth
    <3>4. h[k] = g[j] /\ h[k - 1] = g[j - 1]
      BY <1>6, <3>2
    <3> QED
      BY <1>3, <3>3, <3>4
  <2> QED
    BY <2>1, <2>2
<1>8. h[0] = s /\ h[n + m] = u
  <2>1. 0 \in 0 .. n /\ m \in 0 .. m
    OBVIOUS
  <2> QED
    BY <1>2, <1>3, <1>5, <1>6, <2>1
<1> QED
  BY <1>1, <1>7, <1>8, JoinedBoth DEF Does

\* A sequence of lines does one thing, and Run finds it.
LEMMA RunDoes ==
  ASSUME NEW lines, IsSequence(lines), NEW t, Does(Start, lines, t)
  PROVE Run(lines) = t
<1>1. PICK n \in Nat : n = Len(lines)
  BY DEF IsSequence
<1>2. PICK f : /\ f[0] = Start /\ f[n] = t
               /\ \A k \in 1 .. n : f[k] = RunLine(f[k - 1], lines[k])
  BY <1>1 DEF Does
<1> DEFINE Follows(g) == g = [k \in 0 .. n |-> IF k = 0 THEN Start ELSE RunLine(g[k - 1], lines[k])]
<1>3. \E g : Follows(g)
  <2>1. PICK g : g = [k \in 0 .. n |-> f[k]]
    OBVIOUS
  <2>2. ASSUME NEW k \in 0 .. n
        PROVE f[k] = IF k = 0 THEN Start ELSE RunLine(g[k - 1], lines[k])
    <3>1. CASE k = 0
      BY <1>2, <3>1
    <3>2. CASE k # 0
      <4>1. k \in 1 .. n /\ k - 1 \in 0 .. n
        BY <3>2
      <4> QED
        BY <1>2, <2>1, <3>2, <4>1
    <3> QED
      BY <3>1, <3>2
  <2> QED
    BY <2>1, <2>2
<1>4. PICK g : g = CHOOSE h : Follows(h)
  OBVIOUS
<1>5. Follows(g)
  BY <1>3, <1>4, Zenon
<1>6. Run(lines) = g[n]
  BY <1>1, <1>4 DEF Run
<1>7. ASSUME NEW j \in 0 .. n, g[j] # f[j] PROVE FALSE
  <2>1. PICK S : S = {k \in 0 .. n : g[k] # f[k]}
    OBVIOUS
  <2>2. S \in SUBSET Nat /\ S # {}
    BY <1>7, <2>1
  <2>3. PICK k \in S : \A i \in S : k <= i
    BY <2>2, FirstNumber
  <2>4. k \in 0 .. n /\ g[k] # f[k]
    BY <2>1, <2>3
  <2>5. k # 0
    BY <1>2, <1>5, <2>4
  <2>6. k - 1 \in 0 .. n /\ k \in 1 .. n /\ k - 1 \notin S
    BY <2>3, <2>4, <2>5
  <2>7. g[k - 1] = f[k - 1]
    BY <2>1, <2>6
  <2>8. g[k] = RunLine(g[k - 1], lines[k])
    BY <1>5, <2>5, <2>6
  <2> QED
    BY <1>2, <2>4, <2>6, <2>7, <2>8
<1> QED
  BY <1>2, <1>6, <1>7

-----------------------------------------------------------------------------
(* The state of the lines, and what each of them does to it.               *)
Put(r, n, v) == [r EXCEPT ![n] = v]
State(r, st, f) == [regs |-> r, stored |-> st, flags |-> f, goes |-> Following]

IsState(s) == s = State(s.regs, s.stored, s.flags)

LEMMA StateParts ==
  ASSUME NEW r, NEW st, NEW f
  PROVE /\ IsState(State(r, st, f)) /\ State(r, st, f).regs = r
        /\ State(r, st, f).stored = st /\ State(r, st, f).flags = f
        /\ State(r, st, f).goes = Following
BY DEF State, IsState

\* After s the register a holds v.
Sets(s, a, v) == State(Put(s.regs, a, v), s.stored, s.flags)

LEMMA SetParts ==
  ASSUME NEW s, IsState(s), NEW a, NEW v
  PROVE [s EXCEPT !.regs[a] = v] = Sets(s, a, v)
BY DEF Sets, State, IsState, Put

LEMMA DataLines ==
  \A n \in {"MOVI", "MOV", "ADDI", "LEAS", "LDQ", "STQ", "ADD", "SUB", "AND", "OR", "XOR", "CMP"} :
    n \notin ControlNames
BY BranchNameList DEF ControlNames, BranchNames

LEMMA RunMovi ==
  ASSUME NEW s, IsState(s), NEW a, NEW v
  PROVE RunLine(s, AsmLine("MOVI", <<GPR(a), v>>)) = Sets(s, a, v)
<1>1. PICK l : l = AsmLine("MOVI", <<GPR(a), v>>)
  OBVIOUS
<1>2. l.name = "MOVI" /\ l.ops[1][2] = a /\ l.ops[2] = v
  BY <1>1 DEF AsmLine, GPR
<1>3. RunLine(s, l) = [s EXCEPT !.regs[a] = v]
  BY <1>2, DataLines DEF RunLine
<1> QED
  BY <1>1, <1>3, SetParts

LEMMA RunMov ==
  ASSUME NEW s, IsState(s), NEW a, NEW b
  PROVE RunLine(s, AsmLine("MOV", <<GPR(a), GPR(b)>>)) = Sets(s, a, s.regs[b])
<1>1. PICK l : l = AsmLine("MOV", <<GPR(a), GPR(b)>>)
  OBVIOUS
<1>2. l.name = "MOV" /\ l.ops[1][2] = a /\ l.ops[2][2] = b
  BY <1>1 DEF AsmLine, GPR
<1>3. RunLine(s, l) = [s EXCEPT !.regs[a] = s.regs[b]]
  BY <1>2, DataLines DEF RunLine
<1> QED
  BY <1>1, <1>3, SetParts

LEMMA RunLeas ==
  ASSUME NEW s, IsState(s), NEW a, NEW m
  PROVE RunLine(s, AsmLine("LEAS", <<GPR(a), XMem(m)>>)) = Sets(s, a, Named(m))
<1>1. PICK l : l = AsmLine("LEAS", <<GPR(a), XMem(m)>>)
  OBVIOUS
<1>2. l.name = "LEAS" /\ l.ops[1][2] = a /\ l.ops[2][2] = m
  BY <1>1 DEF AsmLine, GPR, XMem
<1>3. RunLine(s, l) = [s EXCEPT !.regs[a] = Named(m)]
  BY <1>2, DataLines DEF RunLine
<1> QED
  BY <1>1, <1>3, SetParts

LEMMA RunLdq ==
  ASSUME NEW s, IsState(s), NEW a, NEW v, v = <<"load", AsAddress(s.regs[28]), 0>>
  PROVE RunLine(s, AsmLine("LDQ", <<GPR(a), Pointer>>)) = Sets(s, a, v)
<1>1. PICK l : l = AsmLine("LDQ", <<GPR(a), Pointer>>)
  OBVIOUS
<1>2. l.name = "LDQ" /\ l.ops[1][2] = a
  BY <1>1 DEF AsmLine, GPR
<1>3. RunLine(s, l) = [s EXCEPT !.regs[a] = v]
  BY <1>2, DataLines DEF RunLine
<1> QED
  BY <1>1, <1>3, SetParts

LEMMA RunAddi ==
  ASSUME NEW s, IsState(s), NEW a, NEW v
  PROVE \E g : RunLine(s, AsmLine("ADDI", <<GPR(a), Imm(v)>>)) =
                 State(Put(s.regs, a, Moved(s.regs[a], v)), s.stored, g)
<1>1. PICK l : l = AsmLine("ADDI", <<GPR(a), Imm(v)>>)
  OBVIOUS
<1>2. l.name = "ADDI" /\ l.ops[1][2] = a /\ l.ops[2][2] = v
  BY <1>1 DEF AsmLine, GPR, Imm
<1>3. PICK w, g : w = Moved(s.regs[a], v) /\ g = <<l.name, l.ops[1], l.ops[2]>>
  OBVIOUS
<1>4. PICK t : t = [s EXCEPT !.regs[a] = w]
  OBVIOUS
<1>5. t = Sets(s, a, w)
  BY <1>4, SetParts
<1>6. RunLine(s, l) = State(Put(s.regs, a, w), s.stored, g)
  <2>1. RunLine(s, l) = [t EXCEPT !.flags = g]
    BY <1>2, <1>3, <1>4, DataLines DEF RunLine
  <2> QED
    BY <1>5, <2>1 DEF Sets, State
<1> QED
  BY <1>1, <1>3, <1>6

LEMMA RunStq ==
  ASSUME NEW s, IsState(s), NEW a, NEW v, v = <<AsAddress(s.regs[28]), s.regs[a]>>
  PROVE RunLine(s, AsmLine("STQ", <<Pointer, GPR(a)>>)) =
          State(s.regs, Append(s.stored, v), s.flags)
<1>1. PICK l : l = AsmLine("STQ", <<Pointer, GPR(a)>>)
  OBVIOUS
<1>2. l.name = "STQ" /\ l.ops[2][2] = a
  BY <1>1 DEF AsmLine, GPR
<1>3. RunLine(s, l) = [s EXCEPT !.stored = Append(s.stored, v)]
  BY <1>2, DataLines DEF RunLine
<1>4. PICK e : e = Append(s.stored, v)
  OBVIOUS
<1>5. [s EXCEPT !.stored = e] = State(s.regs, e, s.flags)
  BY DEF State, IsState
<1> QED
  BY <1>1, <1>3, <1>4, <1>5

LEMMA RunCombines ==
  ASSUME NEW s, IsState(s), NEW a, NEW b, NEW m \in PairNames \ {"MOV"},
         NEW v, v = <<m, s.regs[a], s.regs[b]>>
  PROVE RunLine(s, AsmLine(m, <<GPR(a), GPR(b)>>)) =
          State(IF m = "CMP" THEN s.regs ELSE Put(s.regs, a, v), s.stored, v)
<1>1. PICK l : l = AsmLine(m, <<GPR(a), GPR(b)>>)
  OBVIOUS
<1>2. l.name = m /\ l.ops[1][2] = a /\ l.ops[2][2] = b
  BY <1>1 DEF AsmLine, GPR
<1>3. /\ m \in {"ADD", "SUB", "AND", "OR", "XOR", "CMP"}
      /\ m \notin ControlNames
  BY DataLines DEF PairNames
<1>4. CASE m = "CMP"
  <2>1. RunLine(s, l) = [s EXCEPT !.flags = v]
    BY <1>2, <1>3, <1>4 DEF RunLine
  <2> QED
    BY <1>1, <1>4, <2>1 DEF State, IsState
<1>5. CASE m # "CMP"
  <2>1. PICK t : t = [s EXCEPT !.regs[a] = v]
    OBVIOUS
  <2>2. RunLine(s, l) = [t EXCEPT !.flags = v]
    BY <1>2, <1>3, <1>5, <2>1 DEF RunLine
  <2>3. t = Sets(s, a, v)
    BY <2>1, SetParts
  <2> QED
    BY <1>1, <1>5, <2>2, <2>3 DEF Sets, State
<1> QED
  BY <1>4, <1>5

-----------------------------------------------------------------------------
(* The registers while an instruction runs: those of the program and two   *)
(* for scratch.                                                            *)
Names == 0 .. 31
Registers(r) == r = [n \in Names |-> r[n]]
Renamed(r) == Registers(r) /\ \A n \in Register : r[n] = GPR(n)

LEMMA RegisterSet ==
  ASSUME NEW r, Registers(r), NEW a \in Names, NEW v
  PROVE /\ Registers(Put(r, a, v)) /\ Put(r, a, v)[a] = v
        /\ \A n \in Names \ {a} : Put(r, a, v)[n] = r[n]
        /\ \A w : Put(Put(r, a, v), a, w) = Put(r, a, w)
<1>1. DOMAIN r = Names
  BY DEF Registers
<1>2. PICK q : q = Put(r, a, v)
  OBVIOUS
<1>3. q[a] = v /\ \A n \in Names \ {a} : q[n] = r[n]
  BY <1>1, <1>2 DEF Put
<1>4. q = [n \in Names |-> q[n]]
  BY <1>1, <1>2 DEF Put
<1>5. \A w : Put(q, a, w) = Put(r, a, w)
  BY <1>1, <1>2 DEF Put
<1> QED
  BY <1>2, <1>3, <1>4, <1>5 DEF Registers

\* What stands for an address in a register.
LEMMA Addresses ==
  /\ \A b \in Register : AsAddress(GPR(b)) = Located(GPR(b), Absent, 1, 0)
  /\ \A b \in Register, disp \in Int : Moved(GPR(b), disp) = Located(GPR(b), Absent, 1, disp)
  /\ \A b \in Register, disp \in Int :
       AsAddress(Moved(GPR(b), disp)) = Located(GPR(b), Absent, 1, disp)
  /\ \A disp : AsAddress(Imm(disp)) = Located(Absent, Absent, 1, disp)
  /\ \A m : AsAddress(Named(m)) = Named(m)
<1>1. \A b \in Register : AsAddress(GPR(b)) = Located(GPR(b), Absent, 1, 0)
  BY DEF AsAddress, GPR
<1>2. \A b \in Register, disp \in Int : Moved(GPR(b), disp) = Located(GPR(b), Absent, 1, disp)
  BY <1>1 DEF Moved, Located
<1>3. \A x, y, z, w : AsAddress(Located(x, y, z, w)) = Located(x, y, z, w)
  BY DEF AsAddress, Located
<1>4. \A disp : AsAddress(Imm(disp)) = Located(Absent, Absent, 1, disp)
  BY DEF AsAddress, Imm
<1> QED
  BY <1>1, <1>2, <1>3, <1>4 DEF Named

\* emit_ea leaves the address in R28, and the flags alone unless it adds.
LEMMA EADoes ==
  ASSUME NEW m \in Address, InFull(m), NEW r, Renamed(r), NEW st, NEW f
  PROVE /\ IsSequence(EmitEA(m).lines)
        /\ \E v, g : /\ Does(State(r, st, f), EmitEA(m).lines, State(Put(r, 28, v), st, g))
                     /\ AsAddress(v) = Named(m) /\ (~AddsDisplacement(m) => g = f)
<1>1. /\ ~m.rip /\ m.disp \in Int /\ (m.index # NONE => m.base # NONE)
      /\ m.base \in Register \cup {NONE}
  BY DEF InFull, Address, Word32
<1>2. PICK s : s = State(r, st, f)
  OBVIOUS
<1> IsState(s) /\ s.regs = r /\ s.stored = st /\ s.flags = f
  BY <1>2, StateParts
<1>3. CASE m.base # NONE /\ m.index # NONE
  <2>1. EmitEA(m).lines = <<AsmLine("LEAS", <<Scratch, XMem(m)>>)>>
    BY <1>1, <1>3 DEF EmitEA, Textual, Lowering
  <2>2. RunLine(s, AsmLine("LEAS", <<Scratch, XMem(m)>>)) =
          State(Put(r, 28, Named(m)), st, f)
    BY RunLeas DEF Scratch, Sets
  <2>3. Does(s, EmitEA(m).lines, State(Put(r, 28, Named(m)), st, f))
    BY <2>1, <2>2, OneLine
  <2> QED
    BY <1>2, <2>1, <2>3, OneLine, Addresses
<1>4. CASE m.base # NONE /\ m.index = NONE
  <2>1. PICK b \in Register : b = SeabirdReg(XReg(m.base))
    <3>1. XReg(m.base) \in RegOperand
      BY <1>1, <1>4 DEF XReg, RegOperand
    <3> QED
      BY <3>1, SeabirdRegister
  <2>2. r[b] = GPR(b)
    BY <2>1 DEF Renamed
  <2>3. Named(m) = Located(GPR(b), Absent, 1, m.disp)
    BY <1>4, <2>1 DEF Named
  <2>4. MovScratch(m) = AsmLine("MOV", <<Scratch, GPR(b)>>)
    BY <2>1 DEF MovScratch
  <2>5. RunLine(s, MovScratch(m)) = State(Put(r, 28, GPR(b)), st, f)
    BY <2>2, <2>4, RunMov DEF Scratch, Sets
  <2>6. CASE m.disp = 0
    <3>1. EmitEA(m).lines = <<MovScratch(m)>>
      BY <1>1, <1>4, <2>6 DEF EmitEA, Textual, Lowering
    <3>2. Does(s, EmitEA(m).lines, State(Put(r, 28, GPR(b)), st, f))
      BY <2>5, <3>1, OneLine
    <3>3. AsAddress(GPR(b)) = Named(m)
      BY <2>3, <2>6, Addresses
    <3> QED
      BY <1>2, <3>1, <3>2, <3>3, OneLine
  <2>7. CASE m.disp # 0
    <3>1. EmitEA(m).lines = <<MovScratch(m)>> \o <<AddScratch(m)>>
      BY <1>1, <1>4, <2>7 DEF EmitEA, Textual, Lowering, Then
    <3>2. PICK q : q = Put(r, 28, GPR(b))
      OBVIOUS
    <3>3. 28 \in Names
      BY DEF Names
    <3>4. q[28] = GPR(b) /\ \A w : Put(q, 28, w) = Put(r, 28, w)
      BY <3>2, <3>3, RegisterSet DEF Renamed
    <3>5. PICK g : RunLine(State(q, st, f), AddScratch(m)) =
                     State(Put(q, 28, Moved(q[28], m.disp)), st, g)
      <4>1. PICK p : /\ p = State(q, st, f) /\ IsState(p)
                     /\ p.regs = q /\ p.stored = st /\ p.flags = f
        BY StateParts
      <4> QED
        BY <4>1, RunAddi DEF AddScratch, Scratch
    <3>6. PICK v : v = Moved(GPR(b), m.disp)
      OBVIOUS
    <3>7. RunLine(State(q, st, f), AddScratch(m)) = State(Put(r, 28, v), st, g)
      BY <3>4, <3>5, <3>6
    <3>8. Does(s, <<MovScratch(m)>>, State(q, st, f)) /\ IsSequence(<<MovScratch(m)>>)
      BY <2>5, <3>2, OneLine
    <3>9. /\ Does(State(q, st, f), <<AddScratch(m)>>, State(Put(r, 28, v), st, g))
          /\ IsSequence(<<AddScratch(m)>>)
      BY <3>7, OneLine
    <3>10. /\ IsSequence(EmitEA(m).lines)
           /\ Does(s, EmitEA(m).lines, State(Put(r, 28, v), st, g))
      BY <3>1, <3>8, <3>9, DoesBoth
    <3>11. AsAddress(v) = Named(m)
      BY <1>1, <2>3, <3>6, Addresses
    <3>12. AddsDisplacement(m)
      BY <1>4, <2>7 DEF AddsDisplacement
    <3> QED
      BY <1>2, <3>10, <3>11, <3>12
  <2> QED
    BY <2>6, <2>7
<1>5. CASE m.base = NONE
  <2>1. EmitEA(m).lines = <<MoviScratch(m)>>
    BY <1>1, <1>5 DEF EmitEA, Textual, Lowering
  <2>2. RunLine(s, MoviScratch(m)) = State(Put(r, 28, Imm(m.disp)), st, f)
    BY RunMovi DEF MoviScratch, Scratch, Sets
  <2>3. Does(s, EmitEA(m).lines, State(Put(r, 28, Imm(m.disp)), st, f))
    BY <2>1, <2>2, OneLine
  <2>4. AsAddress(Imm(m.disp)) = Named(m)
    BY <1>1, <1>5, Addresses DEF Named
  <2> QED
    BY <1>2, <2>1, <2>3, <2>4, OneLine
<1> QED
  BY <1>3, <1>4, <1>5

(* The lines load register a from the address, or store it there.          *)
Loads(lines, r, st, f, a, m) ==
  /\ IsSequence(lines)
  /\ \E q, g : /\ Does(State(r, st, f), lines, State(q, st, g))
               /\ Registers(q) /\ q[a] = <<"load", Named(m), 0>>
               /\ \A n \in Names \ {28, a} : q[n] = r[n]
               /\ ~AddsDisplacement(m) => g = f
Stores(lines, r, st, f, a, m) ==
  /\ IsSequence(lines)
  /\ \E q, g : /\ Does(State(r, st, f), lines, State(q, Append(st, <<Named(m), r[a]>>), g))
               /\ \A n \in Names \ {28} : q[n] = r[n]
               /\ ~AddsDisplacement(m) => g = f

LEMMA LoadDoes ==
  ASSUME NEW m \in Address, InFull(m), NEW r, Renamed(r), NEW st, NEW f, NEW a \in Names
  PROVE Loads(EmitLoad(GPR(a), m).lines, r, st, f, a, m)
<1>1. PICK v, g : /\ Does(State(r, st, f), EmitEA(m).lines, State(Put(r, 28, v), st, g))
                  /\ AsAddress(v) = Named(m) /\ (~AddsDisplacement(m) => g = f)
  BY EADoes
<1>2. PICK p : p = Put(r, 28, v)
  OBVIOUS
<1>3. Registers(p) /\ p[28] = v /\ \A n \in Names \ {28} : p[n] = r[n]
  <2>1. 28 \in Names
    BY DEF Names
  <2> QED
    BY <1>2, <2>1, RegisterSet DEF Renamed
<1>4. PICK w : w = <<"load", Named(m), 0>>
  OBVIOUS
<1>5. PICK q : q = Put(p, a, w)
  OBVIOUS
<1>6. Registers(q) /\ q[a] = w /\ \A n \in Names \ {a} : q[n] = p[n]
  BY <1>3, <1>5, RegisterSet
<1>7. PICK l : l = AsmLine("LDQ", <<GPR(a), Pointer>>)
  OBVIOUS
<1>8. RunLine(State(p, st, g), l) = State(q, st, g)
  BY <1>1, <1>3, <1>4, <1>5, <1>7, RunLdq, StateParts DEF Sets
<1>9. EmitLoad(GPR(a), m).lines = EmitEA(m).lines \o <<l>>
  BY <1>7 DEF EmitLoad, Textual, Lowering, Then
<1>10. /\ IsSequence(EmitLoad(GPR(a), m).lines)
       /\ Does(State(r, st, f), EmitLoad(GPR(a), m).lines, State(q, st, g))
  BY <1>1, <1>2, <1>8, <1>9, EADoes, OneLine, DoesBoth
<1>11. \A n \in Names \ {28, a} : q[n] = r[n]
  BY <1>3, <1>6
<1> QED
  BY <1>1, <1>4, <1>6, <1>10, <1>11 DEF Loads

LEMMA StoreDoes ==
  ASSUME NEW m \in Address, InFull(m), NEW r, Renamed(r), NEW st, NEW f,
         NEW a \in Names \ {28}
  PROVE Stores(EmitStore(m, GPR(a)).lines, r, st, f, a, m)
<1>1. PICK v, g : /\ Does(State(r, st, f), EmitEA(m).lines, State(Put(r, 28, v), st, g))
                  /\ AsAddress(v) = Named(m) /\ (~AddsDisplacement(m) => g = f)
  BY EADoes
<1>2. PICK q : q = Put(r, 28, v)
  OBVIOUS
<1>3. Registers(q) /\ q[28] = v /\ \A n \in Names \ {28} : q[n] = r[n]
  <2>1. 28 \in Names
    BY DEF Names
  <2> QED
    BY <1>2, <2>1, RegisterSet DEF Renamed
<1>4. PICK l : l = AsmLine("STQ", <<Pointer, GPR(a)>>)
  OBVIOUS
<1>5. RunLine(State(q, st, g), l) = State(q, Append(st, <<AsAddress(q[28]), q[a]>>), g)
  BY <1>4, RunStq, StateParts
<1>6. RunLine(State(q, st, g), l) = State(q, Append(st, <<Named(m), r[a]>>), g)
  BY <1>1, <1>3, <1>5
<1>7. EmitStore(m, GPR(a)).lines = EmitEA(m).lines \o <<l>>
  BY <1>4 DEF EmitStore, Textual, Lowering, Then
<1>8. /\ IsSequence(EmitStore(m, GPR(a)).lines)
      /\ Does(State(r, st, f), EmitStore(m, GPR(a)).lines,
              State(q, Append(st, <<Named(m), r[a]>>), g))
  BY <1>1, <1>2, <1>6, <1>7, EADoes, OneLine, DoesBoth
<1> QED
  BY <1>1, <1>3, <1>8 DEF Stores

-----------------------------------------------------------------------------
(* The lines of an instruction against its meaning.                        *)
SameEffect(x, lines) ==
  LET after == Run(lines)
      meant == Meaning(x)
  IN /\ \A n \in 0 .. 27 : after.regs[n] = meant.regs[n]
     /\ after.stored = meant.stored
     /\ (MovesData(x) => KeepsFlags(x)) => after.flags = meant.flags
     /\ after.goes = meant.goes

Stored(op, v) == << <<Named(op[2]), v>> >>

LEMMA ProgramNames == 0 .. 27 \subseteq Names \ {28, 29} /\ Register \subseteq 0 .. 27
BY DEF Names, Register

LEMMA StartState ==
  /\ Start = State(Untouched, <<>>, Absent)
  /\ Renamed(Untouched) /\ \A n \in Names : Untouched[n] = GPR(n)
BY DEF Start, State, Untouched, Renamed, Registers, Names, Register

LEMMA DataMeans ==
  ASSUME NEW x, x.mnemonic \in PairNames
  PROVE MovesData(x) /\ Meaning(x) = DataMeaning(x)
<1>1. MovesData(x)
  BY BinaryNames DEF MovesData
<1>2. x.mnemonic \notin {"PUSH", "POP", "CALL", "RET", "JMP", "Jcc", "SYSCALL", "NOP"}
  BY DEF PairNames
<1> QED
  BY <1>1, <1>2 DEF Meaning

\* What the lines must leave, by the kind of the first operand.
LEMMA EffectOnRegister ==
  ASSUME NEW x, NEW m \in PairNames \ {"CMP"}, x.mnemonic = m, NEW a \in RegOperand, NEW b, x.ops = <<a, b>>,
         NEW v, v = (IF m = "MOV" THEN Value(b) ELSE <<m, Value(a), Value(b)>>),
         NEW lines, IsSequence(lines), NEW q, NEW g,
         Does(Start, lines, State(q, <<>>, g)),
         q[SeabirdReg(a)] = v, \A n \in (0 .. 27) \ {SeabirdReg(a)} : q[n] = GPR(n),
         g = (IF m = "MOV" THEN Absent ELSE v) \/ ~KeepsFlags(x)
  PROVE SameEffect(x, lines)
<1>1. Run(lines) = State(q, <<>>, g)
  BY RunDoes
<1>2. x.ops[1] = a /\ x.ops[2] = b /\ IsReg(a) /\ ~IsMem(a) /\ SeabirdReg(a) \in Names
  BY Kinds, SeabirdRegister DEF Register, Names
<1>3. DataMeaning(x) = [regs |-> Put(Untouched, SeabirdReg(a), v), stored |-> <<>>,
                        flags |-> IF m = "MOV" THEN Absent ELSE v, goes |-> Following]
  BY <1>2 DEF DataMeaning, Put
<1>4. \A n \in 0 .. 27 : Put(Untouched, SeabirdReg(a), v)[n] = q[n]
  <2>1. Registers(Untouched)
    BY StartState DEF Renamed
  <2> QED
    BY <1>2, <2>1, StartState, RegisterSet, ProgramNames
<1>5. MovesData(x) /\ Meaning(x) = DataMeaning(x)
  BY DataMeans DEF PairNames
<1> QED
  BY <1>1, <1>3, <1>4, <1>5, StateParts DEF SameEffect

LEMMA EffectOnMemory ==
  ASSUME NEW x, NEW m \in PairNames \ {"CMP"}, x.mnemonic = m, NEW a, IsMem(a), NEW b, x.ops = <<a, b>>,
         NEW v, v = (IF m = "MOV" THEN Value(b) ELSE <<m, Value(a), Value(b)>>),
         NEW lines, IsSequence(lines), NEW q, NEW g,
         Does(Start, lines, State(q, Stored(a, v), g)),
         \A n \in 0 .. 27 : q[n] = GPR(n),
         g = (IF m = "MOV" THEN Absent ELSE v) \/ ~KeepsFlags(x)
  PROVE SameEffect(x, lines)
<1>1. Run(lines) = State(q, Stored(a, v), g)
  BY RunDoes
<1>2. x.ops[1] = a /\ x.ops[2] = b /\ ~IsReg(a)
  BY Kinds
<1>3. DataMeaning(x) = [regs |-> Untouched, stored |-> Stored(a, v),
                        flags |-> IF m = "MOV" THEN Absent ELSE v, goes |-> Following]
  BY <1>2 DEF DataMeaning, Stored
<1>4. \A n \in 0 .. 27 : Untouched[n] = q[n]
  BY StartState, ProgramNames
<1>5. MovesData(x) /\ Meaning(x) = DataMeaning(x)
  BY DataMeans DEF PairNames
<1> QED
  BY <1>1, <1>3, <1>4, <1>5, StateParts DEF SameEffect

LEMMA EffectOfCmp ==
  ASSUME NEW x, x.mnemonic = "CMP", NEW a, NEW b, x.ops = <<a, b>>,
         NEW v, v = <<"CMP", Value(a), Value(b)>>,
         NEW lines, IsSequence(lines), NEW q, Does(Start, lines, State(q, <<>>, v)),
         \A n \in 0 .. 27 : q[n] = GPR(n)
  PROVE SameEffect(x, lines)
<1>1. Run(lines) = State(q, <<>>, v)
  BY RunDoes
<1>2. x.ops[1] = a /\ x.ops[2] = b
  OBVIOUS
<1>3. DataMeaning(x) = [regs |-> Untouched, stored |-> <<>>, flags |-> v, goes |-> Following]
  BY <1>2 DEF DataMeaning
<1>4. \A n \in 0 .. 27 : Untouched[n] = q[n]
  BY StartState, ProgramNames
<1>5. MovesData(x) /\ Meaning(x) = DataMeaning(x)
  BY DataMeans DEF PairNames
<1> QED
  BY <1>1, <1>3, <1>4, <1>5, StateParts DEF SameEffect

LEMMA Values ==
  /\ \A a \in RegOperand : Value(a) = GPR(SeabirdReg(a)) /\ R64(a) = GPR(SeabirdReg(a))
                           /\ SeabirdReg(a) \in Register /\ SeabirdReg(a) \in Names
                           /\ SeabirdReg(a) \notin {28, 29}
  /\ \A b \in ImmOperand : Value(b) = b
  /\ \A c : IsMem(c) => Value(c) = <<"load", Named(c[2]), 0>>
BY Kinds, SeabirdRegister DEF Value, R64, Register, Names

LEMMA MovRegisters ==
  ASSUME NEW x, NEW m \in PairNames \ {"CMP"}, x.mnemonic = m,
         NEW a \in RegOperand, NEW b \in RegOperand, x.ops = <<a, b>>
  PROVE SameEffect(x, RegisterPair(m, a, b).lines)
<1>1. PICK i \in Register, j \in Register : i = SeabirdReg(a) /\ j = SeabirdReg(b)
  BY Values
<1>2. PICK v : v = (IF m = "MOV" THEN Value(b) ELSE <<m, Value(a), Value(b)>>)
  OBVIOUS
<1>3. PICK l : l = AsmLine(m, <<GPR(i), GPR(j)>>)
  OBVIOUS
<1>4. RegisterPair(m, a, b).lines = <<l>>
  BY <1>1, <1>3, Values DEF RegisterPair, Encoded, Lowering
<1>5. PICK q : q = Put(Untouched, i, v)
  OBVIOUS
<1>6. q[i] = v /\ \A n \in Names \ {i} : q[n] = GPR(n)
  BY <1>1, <1>5, Values, StartState, RegisterSet DEF Renamed
<1>7. Untouched[i] = Value(a) /\ Untouched[j] = Value(b)
  BY <1>1, Values, StartState
<1>8. /\ IsState(Start) /\ Start.regs = Untouched /\ Start.stored = <<>> /\ Start.flags = Absent
  BY StartState, StateParts
<1>9. RunLine(Start, l) = State(q, <<>>, IF m = "MOV" THEN Absent ELSE v)
  <2>1. CASE m = "MOV"
    BY <1>2, <1>3, <1>5, <1>7, <1>8, <2>1, RunMov DEF Sets
  <2>2. CASE m # "MOV"
    BY <1>2, <1>3, <1>5, <1>7, <1>8, <2>2, RunCombines
  <2> QED
    BY <2>1, <2>2
<1>10. PICK g : g = IF m = "MOV" THEN Absent ELSE v
  OBVIOUS
<1>11. IsSequence(<<l>>) /\ Does(Start, <<l>>, State(q, <<>>, g))
  BY <1>9, <1>10, OneLine
<1>12. q[SeabirdReg(a)] = v /\ \A n \in (0 .. 27) \ {SeabirdReg(a)} : q[n] = GPR(n)
  BY <1>1, <1>6 DEF Names
<1> QED
  BY <1>2, <1>4, <1>10, <1>11, <1>12, EffectOnRegister

LEMMA CmpRegisters ==
  ASSUME NEW x, x.mnemonic = "CMP",
         NEW a \in RegOperand, NEW b \in RegOperand, x.ops = <<a, b>>
  PROVE SameEffect(x, RegisterPair("CMP", a, b).lines)
<1>1. PICK i \in Register, j \in Register : i = SeabirdReg(a) /\ j = SeabirdReg(b)
  BY Values
<1>2. PICK v : v = <<"CMP", Value(a), Value(b)>>
  OBVIOUS
<1>3. PICK l : l = AsmLine("CMP", <<GPR(i), GPR(j)>>)
  OBVIOUS
<1>4. RegisterPair("CMP", a, b).lines = <<l>>
  BY <1>1, <1>3, Values DEF RegisterPair, Encoded, Lowering
<1>5. Untouched[i] = Value(a) /\ Untouched[j] = Value(b)
  BY <1>1, Values, StartState
<1>6. /\ IsState(Start) /\ Start.regs = Untouched /\ Start.stored = <<>>
  BY StartState, StateParts
<1>7. "CMP" \in PairNames \ {"MOV"}
  BY DEF PairNames
<1>8. RunLine(Start, l) = State(Untouched, <<>>, v)
  BY <1>2, <1>3, <1>5, <1>6, <1>7, RunCombines
<1>9. IsSequence(<<l>>) /\ Does(Start, <<l>>, State(Untouched, <<>>, v))
  BY <1>8, OneLine
<1>10. \A n \in 0 .. 27 : Untouched[n] = GPR(n)
  BY StartState, ProgramNames
<1> QED
  BY <1>2, <1>4, <1>9, <1>10, EffectOfCmp

LEMMA MovImmediate ==
  ASSUME NEW x, x.mnemonic = "MOV", NEW a \in RegOperand, NEW b \in ImmOperand, x.ops = <<a, b>>
  PROVE SameEffect(x, <<AsmLine("MOVI", <<R64(a), b>>)>>)
<1>1. PICK i \in Register : i = SeabirdReg(a)
  BY Values
<1>2. PICK l : l = AsmLine("MOVI", <<GPR(i), b>>)
  OBVIOUS
<1>3. l = AsmLine("MOVI", <<R64(a), b>>) /\ Value(b) = b
  BY <1>1, <1>2, Values
<1>4. PICK q : q = Put(Untouched, i, b)
  OBVIOUS
<1>5. q[i] = b /\ \A n \in Names \ {i} : q[n] = GPR(n)
  BY <1>1, <1>4, Values, StartState, RegisterSet DEF Renamed
<1>6. /\ IsState(Start) /\ Start.regs = Untouched /\ Start.stored = <<>> /\ Start.flags = Absent
  BY StartState, StateParts
<1>7. RunLine(Start, l) = State(q, <<>>, Absent)
  BY <1>2, <1>4, <1>6, RunMovi DEF Sets
<1>8. IsSequence(<<l>>) /\ Does(Start, <<l>>, State(q, <<>>, Absent))
  BY <1>7, OneLine
<1>9. q[SeabirdReg(a)] = b /\ \A n \in (0 .. 27) \ {SeabirdReg(a)} : q[n] = GPR(n)
  BY <1>1, <1>5 DEF Names
<1>10. "MOV" \in PairNames \ {"CMP"}
  BY DEF PairNames
<1>11. SameEffect(x, <<l>>)
  BY <1>3, <1>8, <1>9, <1>10, EffectOnRegister
<1> QED
  BY <1>3, <1>11

\* An instruction that keeps the flags adds no displacement.
LEMMA FlagsKept ==
  ASSUME NEW x, NEW a, NEW b, x.ops = <<a, b>>, KeepsFlags(x)
  PROVE /\ x.mnemonic = "MOV" /\ IsMem(b) => ~AddsDisplacement(b[2])
        /\ x.mnemonic # "CMP" /\ IsMem(a) => ~AddsDisplacement(a[2])
<1>1. Len(x.ops) = 2 /\ x.ops[1] = a /\ x.ops[2] = b /\ 1 \in 1 .. 2 /\ 2 \in 1 .. 2
  OBVIOUS
<1>2. (IsMem(a) => a[2] \in MemoryOf(x)) /\ (IsMem(b) => b[2] \in MemoryOf(x))
  BY <1>1 DEF MemoryOf
<1> QED
  BY <1>1, <1>2 DEF KeepsFlags

LEMMA MovLoads ==
  ASSUME NEW x, x.mnemonic = "MOV", NEW a \in RegOperand, NEW b \in MemOperand, x.ops = <<a, b>>,
         InFull(b[2])
  PROVE SameEffect(x, EmitLoad(R64(a), b[2]).lines)
<1>1. PICK i \in Names : i = SeabirdReg(a) /\ R64(a) = GPR(i)
  BY Values
<1>2. b[2] \in Address /\ IsMem(b)
  BY DEF MemOperand, IsMem
<1>3. PICK lines : lines = EmitLoad(GPR(i), b[2]).lines
  OBVIOUS
<1>4. PICK v : v = Value(b) /\ v = <<"load", Named(b[2]), 0>>
  BY <1>2, Values
<1>5. Loads(lines, Untouched, <<>>, Absent, i, b[2])
  BY <1>1, <1>2, <1>3, StartState, LoadDoes
<1>6. PICK q, g : /\ Does(Start, lines, State(q, <<>>, g)) /\ q[i] = v
                  /\ \A n \in Names \ {28, i} : q[n] = Untouched[n]
                  /\ ~AddsDisplacement(b[2]) => g = Absent
  BY <1>4, <1>5, StartState DEF Loads
<1>7. q[SeabirdReg(a)] = v /\ \A n \in (0 .. 27) \ {SeabirdReg(a)} : q[n] = GPR(n)
  BY <1>1, <1>6, StartState, ProgramNames
<1>8. "MOV" \in PairNames \ {"CMP"}
  BY DEF PairNames
<1>9. g = Absent \/ ~KeepsFlags(x)
  BY <1>2, <1>6, FlagsKept
<1>10. IsSequence(lines)
  BY <1>5 DEF Loads
<1>11. SameEffect(x, lines)
  BY <1>4, <1>6, <1>7, <1>8, <1>9, <1>10, EffectOnRegister
<1> QED
  BY <1>1, <1>3, <1>11

LEMMA MovStores ==
  ASSUME NEW x, x.mnemonic = "MOV", NEW a \in MemOperand, NEW b \in RegOperand, x.ops = <<a, b>>,
         InFull(a[2])
  PROVE SameEffect(x, EmitStore(a[2], R64(b)).lines)
<1>1. PICK i \in Names \ {28} : i = SeabirdReg(b) /\ R64(b) = GPR(i) /\ Value(b) = GPR(i)
  BY Values
<1>2. a[2] \in Address /\ IsMem(a)
  BY DEF MemOperand, IsMem
<1>3. PICK lines : lines = EmitStore(a[2], GPR(i)).lines
  OBVIOUS
<1>4. PICK v : v = Value(b) /\ v = Untouched[i]
  BY <1>1, StartState
<1>5. Stores(lines, Untouched, <<>>, Absent, i, a[2]) /\ IsSequence(lines)
  <2>1. Stores(lines, Untouched, <<>>, Absent, i, a[2])
    BY <1>1, <1>2, <1>3, StartState, StoreDoes
  <2> QED
    BY <2>1 DEF Stores
<1>6. PICK q, g : /\ Does(Start, lines, State(q, Append(<<>>, <<Named(a[2]), v>>), g))
                  /\ \A n \in Names \ {28} : q[n] = Untouched[n]
                  /\ ~AddsDisplacement(a[2]) => g = Absent
  BY <1>4, <1>5, StartState DEF Stores
<1>7. \A n \in 0 .. 27 : q[n] = GPR(n)
  BY <1>6, StartState, ProgramNames
<1>8. "MOV" \in PairNames \ {"CMP"}
  BY DEF PairNames
<1>9. g = Absent \/ ~KeepsFlags(x)
  BY <1>2, <1>6, FlagsKept
<1>10. Does(Start, lines, State(q, Stored(a, v), g))
  <2>1. Append(<<>>, <<Named(a[2]), v>>) = Stored(a, v)
    BY DEF Stored
  <2> QED
    BY <1>6, <2>1
<1>11. SameEffect(x, lines)
  BY <1>2, <1>4, <1>5, <1>7, <1>8, <1>9, <1>10, EffectOnMemory
<1> QED
  BY <1>1, <1>3, <1>11

LEMMA MovStoresImmediate ==
  ASSUME NEW x, x.mnemonic = "MOV", NEW a \in MemOperand, NEW b \in ImmOperand, x.ops = <<a, b>>,
         InFull(a[2])
  PROVE SameEffect(x, Then(Textual(<<AsmLine("MOVI", <<Scratch2, b>>)>>, "memory-immediate"),
                           EmitStore(a[2], Scratch2)).lines)
<1>1. PICK i \in Names \ {28} : i = 29 /\ Scratch2 = GPR(i)
  BY DEF Names, Scratch2
<1>2. a[2] \in Address /\ IsMem(a) /\ Value(b) = b
  BY Values DEF MemOperand, IsMem
<1>3. PICK l, lines : l = AsmLine("MOVI", <<GPR(i), b>>) /\ lines = EmitStore(a[2], GPR(i)).lines
  OBVIOUS
<1>4. Then(Textual(<<AsmLine("MOVI", <<Scratch2, b>>)>>, "memory-immediate"),
           EmitStore(a[2], Scratch2)).lines = <<l>> \o lines
  BY <1>1, <1>3 DEF Then, Textual, Lowering
<1>5. PICK r : r = Put(Untouched, i, b)
  OBVIOUS
<1>6. Registers(r) /\ r[i] = b /\ \A n \in Names \ {i} : r[n] = Untouched[n]
  BY <1>1, <1>5, StartState, RegisterSet DEF Renamed
<1>7. Renamed(r)
  BY <1>1, <1>6, StartState, ProgramNames DEF Renamed
<1>8. /\ IsState(Start) /\ Start.regs = Untouched /\ Start.stored = <<>> /\ Start.flags = Absent
  BY StartState, StateParts
<1>9. RunLine(Start, l) = State(r, <<>>, Absent)
  BY <1>3, <1>5, <1>8, RunMovi DEF Sets
<1>10. IsSequence(<<l>>) /\ Does(Start, <<l>>, State(r, <<>>, Absent))
  BY <1>9, OneLine
<1>11. Stores(lines, r, <<>>, Absent, i, a[2]) /\ IsSequence(lines)
  <2>1. Stores(lines, r, <<>>, Absent, i, a[2])
    BY <1>1, <1>2, <1>3, <1>7, StoreDoes
  <2> QED
    BY <2>1 DEF Stores
<1>12. PICK q, g : /\ Does(State(r, <<>>, Absent), lines,
                           State(q, Append(<<>>, <<Named(a[2]), b>>), g))
                   /\ \A n \in Names \ {28} : q[n] = r[n]
                   /\ ~AddsDisplacement(a[2]) => g = Absent
  BY <1>6, <1>11 DEF Stores
<1>13. Append(<<>>, <<Named(a[2]), b>>) = Stored(a, b)
  BY DEF Stored
<1>14. IsSequence(<<l>> \o lines) /\ Does(Start, <<l>> \o lines, State(q, Stored(a, b), g))
  BY <1>10, <1>11, <1>12, <1>13, DoesBoth
<1>15. \A n \in 0 .. 27 : q[n] = GPR(n)
  BY <1>1, <1>6, <1>12, StartState, ProgramNames
<1>16. "MOV" \in PairNames \ {"CMP"}
  BY DEF PairNames
<1>17. g = Absent \/ ~KeepsFlags(x)
  BY <1>2, <1>12, FlagsKept
<1>18. SameEffect(x, <<l>> \o lines)
  BY <1>2, <1>14, <1>15, <1>16, <1>17, EffectOnMemory
<1> QED
  BY <1>4, <1>18

LEMMA BinaryLoads ==
  ASSUME NEW x, NEW m \in PairNames \ {"MOV"}, x.mnemonic = m,
         NEW a \in RegOperand, NEW b \in MemOperand, x.ops = <<a, b>>, InFull(b[2])
  PROVE SameEffect(x, Then(EmitLoad(Scratch2, b[2]),
                           Textual(<<AsmLine(m, <<R64(a), Scratch2>>)>>, "memory operand")).lines)
<1>1. PICK i \in Register : i = SeabirdReg(a) /\ R64(a) = GPR(i) /\ Value(a) = GPR(i)
  BY Values
<1>2. PICK j \in Names : j = 29 /\ Scratch2 = GPR(j)
  BY DEF Names, Scratch2
<1>3. PICK c \in Address : c = b[2] /\ InFull(c) /\ Value(b) = <<"load", Named(c), 0>>
  BY Values DEF MemOperand, IsMem
<1>4. PICK l, load : l = AsmLine(m, <<GPR(i), GPR(j)>>) /\ load = EmitLoad(GPR(j), c).lines
  OBVIOUS
<1>5. Then(EmitLoad(Scratch2, b[2]),
           Textual(<<AsmLine(m, <<R64(a), Scratch2>>)>>, "memory operand")).lines = load \o <<l>>
  BY <1>1, <1>2, <1>3, <1>4 DEF Then, Textual, Lowering
<1>6. PICK v : v = <<m, Value(a), Value(b)>>
  OBVIOUS
<1>7. PICK p, f : /\ IsSequence(load) /\ Does(Start, load, State(p, <<>>, f))
                  /\ Registers(p) /\ p[j] = Value(b)
                  /\ \A n \in Names \ {28, j} : p[n] = Untouched[n]
  <2>1. Loads(load, Untouched, <<>>, Absent, j, c)
    BY <1>2, <1>3, <1>4, StartState, LoadDoes
  <2> QED
    BY <1>3, <2>1, StartState DEF Loads
<1>8. \A n \in 0 .. 27 : p[n] = GPR(n)
  BY <1>2, <1>7, StartState, ProgramNames
<1>9. p[i] = Value(a)
  BY <1>1, <1>8, ProgramNames
<1>10. PICK q : q = IF m = "CMP" THEN p ELSE Put(p, i, v)
  OBVIOUS
<1>11. RunLine(State(p, <<>>, f), l) = State(q, <<>>, v)
  <2>1. PICK s : /\ s = State(p, <<>>, f) /\ IsState(s)
                 /\ s.regs = p /\ s.stored = <<>> /\ s.flags = f
    BY StateParts
  <2>2. v = <<m, s.regs[i], s.regs[j]>>
    BY <1>6, <1>7, <1>9, <2>1
  <2> QED
    BY <1>4, <1>10, <2>1, <2>2, RunCombines
<1>12. PICK lines : lines = load \o <<l>>
  OBVIOUS
<1>13. IsSequence(lines) /\ Does(Start, lines, State(q, <<>>, v))
  BY <1>7, <1>11, <1>12, OneLine, DoesBoth
<1>14. CASE m = "CMP"
  <2>1. SameEffect(x, lines)
    BY <1>6, <1>8, <1>10, <1>13, <1>14, EffectOfCmp
  <2> QED
    BY <1>5, <1>12, <2>1
<1>15. CASE m # "CMP"
  <2>1. i \in Names
    BY ProgramNames
  <2>2. q[i] = v /\ \A n \in Names \ {i} : q[n] = p[n]
    BY <1>7, <1>10, <1>15, <2>1, RegisterSet
  <2>3. q[SeabirdReg(a)] = v /\ \A n \in (0 .. 27) \ {SeabirdReg(a)} : q[n] = GPR(n)
    BY <1>1, <1>8, <2>2, ProgramNames
  <2>4. m \in PairNames \ {"CMP"} /\ m # "MOV"
    BY <1>15
  <2>5. SameEffect(x, lines)
    BY <1>6, <1>13, <2>3, <2>4, EffectOnRegister
  <2> QED
    BY <1>5, <1>12, <2>5
<1> QED
  BY <1>14, <1>15

\* The first half of an instruction on memory: its operand is loaded and combined.
Combines(lines, m, v) ==
  /\ IsSequence(lines)
  /\ \E q : /\ Does(Start, lines, State(q, <<>>, v))
            /\ Renamed(q) /\ \A n \in 0 .. 27 : q[n] = GPR(n)
            /\ m # "CMP" => q[29] = v

LEMMA LoadedAndCombined ==
  ASSUME NEW m \in PairNames \ {"MOV"}, NEW a \in MemOperand, NEW b \in RegOperand, InFull(a[2]),
         NEW v, v = <<m, Value(a), Value(b)>>,
         NEW lines, lines = EmitLoad(Scratch2, a[2]).lines \o <<AsmLine(m, <<Scratch2, R64(b)>>)>>
  PROVE Combines(lines, m, v)
<1>1. PICK i \in Register : i = SeabirdReg(b) /\ R64(b) = GPR(i) /\ Value(b) = GPR(i)
  BY Values
<1>2. PICK j \in Names : j = 29 /\ Scratch2 = GPR(j)
  BY DEF Names, Scratch2
<1>3. PICK c \in Address : c = a[2] /\ InFull(c) /\ Value(a) = <<"load", Named(c), 0>>
  BY Values DEF MemOperand, IsMem
<1>4. PICK l, load : l = AsmLine(m, <<GPR(j), GPR(i)>>) /\ load = EmitLoad(GPR(j), c).lines
  OBVIOUS
<1>5. lines = load \o <<l>>
  BY <1>1, <1>2, <1>3, <1>4
<1>6. PICK p, f : /\ IsSequence(load) /\ Does(Start, load, State(p, <<>>, f))
                  /\ Registers(p) /\ p[j] = Value(a)
                  /\ \A n \in Names \ {28, j} : p[n] = Untouched[n]
  <2>1. Loads(load, Untouched, <<>>, Absent, j, c)
    BY <1>2, <1>3, <1>4, StartState, LoadDoes
  <2> QED
    BY <1>3, <2>1, StartState DEF Loads
<1>7. \A n \in 0 .. 27 : p[n] = GPR(n)
  BY <1>2, <1>6, StartState, ProgramNames
<1>8. p[i] = Value(b)
  BY <1>1, <1>7, ProgramNames
<1>9. PICK q : q = IF m = "CMP" THEN p ELSE Put(p, j, v)
  OBVIOUS
<1>10. RunLine(State(p, <<>>, f), l) = State(q, <<>>, v)
  <2>1. PICK s : /\ s = State(p, <<>>, f) /\ IsState(s)
                 /\ s.regs = p /\ s.stored = <<>> /\ s.flags = f
    BY StateParts
  <2>2. v = <<m, s.regs[j], s.regs[i]>>
    BY <1>6, <1>8, <2>1
  <2> QED
    BY <1>4, <1>9, <2>1, <2>2, RunCombines
<1>11. IsSequence(lines) /\ Does(Start, lines, State(q, <<>>, v))
  BY <1>5, <1>6, <1>10, OneLine, DoesBoth
<1>12. CASE m = "CMP"
  <2>1. Renamed(q)
    BY <1>6, <1>7, <1>9, <1>12, ProgramNames DEF Renamed
  <2> QED
    BY <1>7, <1>9, <1>11, <1>12, <2>1 DEF Combines
<1>13. CASE m # "CMP"
  <2>1. Registers(q) /\ q[j] = v /\ \A n \in Names \ {j} : q[n] = p[n]
    BY <1>6, <1>9, <1>13, RegisterSet
  <2>2. \A n \in 0 .. 27 : q[n] = GPR(n)
    BY <1>2, <1>7, <2>1, ProgramNames
  <2>3. Renamed(q)
    BY <2>1, <2>2, ProgramNames DEF Renamed
  <2> QED
    BY <1>2, <1>11, <2>1, <2>2, <2>3 DEF Combines
<1> QED
  BY <1>12, <1>13

LEMMA CmpMemory ==
  ASSUME NEW x, x.mnemonic = "CMP", NEW a \in MemOperand, NEW b \in RegOperand, x.ops = <<a, b>>,
         InFull(a[2])
  PROVE SameEffect(x, Then(EmitLoad(Scratch2, a[2]),
                           Textual(<<AsmLine("CMP", <<Scratch2, R64(b)>>)>>, "memory operand")).lines)
<1>1. PICK lines : lines = EmitLoad(Scratch2, a[2]).lines \o <<AsmLine("CMP", <<Scratch2, R64(b)>>)>>
  OBVIOUS
<1>2. PICK v : v = <<"CMP", Value(a), Value(b)>>
  OBVIOUS
<1>3. "CMP" \in PairNames \ {"MOV"}
  BY DEF PairNames
<1>4. Combines(lines, "CMP", v)
  BY <1>1, <1>2, <1>3, LoadedAndCombined
<1>5. PICK q : /\ Does(Start, lines, State(q, <<>>, v)) /\ \A n \in 0 .. 27 : q[n] = GPR(n)
               /\ IsSequence(lines)
  BY <1>4 DEF Combines
<1>6. SameEffect(x, lines)
  BY <1>2, <1>5, EffectOfCmp
<1> QED
  BY <1>1, <1>6 DEF Then, Textual, Lowering

LEMMA BinaryOnMemory ==
  ASSUME NEW x, NEW m \in PairNames \ {"MOV", "CMP"}, x.mnemonic = m,
         NEW a \in MemOperand, NEW b \in RegOperand, x.ops = <<a, b>>, InFull(a[2])
  PROVE SameEffect(x, Then(Then(EmitLoad(Scratch2, a[2]),
                                Textual(<<AsmLine(m, <<Scratch2, R64(b)>>)>>, "memory operand")),
                           EmitStore(a[2], Scratch2)).lines)
<1>1. PICK first : first = EmitLoad(Scratch2, a[2]).lines \o <<AsmLine(m, <<Scratch2, R64(b)>>)>>
  OBVIOUS
<1>2. PICK v : v = <<m, Value(a), Value(b)>>
  OBVIOUS
<1>3. Combines(first, m, v)
  BY <1>1, <1>2, LoadedAndCombined
<1>4. PICK q : /\ Does(Start, first, State(q, <<>>, v)) /\ IsSequence(first)
               /\ Renamed(q) /\ (\A n \in 0 .. 27 : q[n] = GPR(n)) /\ q[29] = v
  BY <1>3 DEF Combines
<1>5. PICK j \in Names \ {28} : j = 29 /\ Scratch2 = GPR(j)
  BY DEF Names, Scratch2
<1>6. PICK c \in Address : c = a[2] /\ InFull(c) /\ IsMem(a)
  BY DEF MemOperand, IsMem
<1>7. PICK second : second = EmitStore(c, GPR(j)).lines
  OBVIOUS
<1>8. Stores(second, q, <<>>, v, j, c) /\ IsSequence(second)
  <2>1. Stores(second, q, <<>>, v, j, c)
    BY <1>4, <1>5, <1>6, <1>7, StoreDoes
  <2> QED
    BY <2>1 DEF Stores
<1>9. PICK r, g : /\ Does(State(q, <<>>, v), second, State(r, Stored(a, v), g))
                  /\ \A n \in Names \ {28} : r[n] = q[n]
                  /\ ~AddsDisplacement(c) => g = v
  <2>1. Append(<<>>, <<Named(c), q[j]>>) = Stored(a, v)
    BY <1>4, <1>5, <1>6 DEF Stored
  <2> QED
    BY <1>8, <2>1 DEF Stores
<1>10. PICK lines : lines = first \o second
  OBVIOUS
<1>11. IsSequence(lines) /\ Does(Start, lines, State(r, Stored(a, v), g))
  BY <1>4, <1>8, <1>9, <1>10, DoesBoth
<1>12. \A n \in 0 .. 27 : r[n] = GPR(n)
  BY <1>4, <1>9, ProgramNames
<1>13. g = v \/ ~KeepsFlags(x)
  BY <1>6, <1>9, FlagsKept
<1>14. m \in PairNames \ {"CMP"} /\ m # "MOV"
  OBVIOUS
<1>15. SameEffect(x, lines)
  BY <1>2, <1>6, <1>11, <1>12, <1>13, <1>14, EffectOnMemory
<1> QED
  BY <1>1, <1>5, <1>6, <1>7, <1>10, <1>15 DEF Then, Textual, Lowering

\* Whatever the operands, the lines of a move or of an operation do what it means.
LEMMA EffectKept ==
  ASSUME NEW x, IsInstruction(x), MovesData(x), \A m \in MemoryOf(x) : InFull(m),
         NEW y, y.mnemonic = x.mnemonic, y.ops = x.ops
  PROVE SameEffect(x, Lower(y).lines)
<1>1. PICK m \in PairNames : m = x.mnemonic
  BY BinaryNames DEF MovesData
<1>2. PICK a, b : /\ x.ops = <<a, b>>
                  /\ \/ a \in RegOperand /\ b \in RegOperand \cup MemOperand
                     \/ a \in MemOperand /\ b \in RegOperand
                     \/ m = "MOV" /\ a \in RegOperand \cup MemOperand /\ b \in ImmOperand
  <2>1. \/ x.ops \in RegOperand \X (RegOperand \cup MemOperand)
        \/ x.ops \in MemOperand \X RegOperand
        \/ m = "MOV" /\ x.ops \in (RegOperand \cup MemOperand) \X ImmOperand
    BY <1>1 DEF IsInstruction, PairNames
  <2> QED
    BY <2>1
<1>3. /\ y.ops[1] = a /\ y.ops[2] = b /\ y.mnemonic = m
      /\ (IsMem(a) => InFull(a[2])) /\ (IsMem(b) => InFull(b[2]))
  <2>1. Len(x.ops) = 2 /\ x.ops[1] = a /\ x.ops[2] = b /\ 1 \in 1 .. 2 /\ 2 \in 1 .. 2
    BY <1>2
  <2>2. (IsMem(a) => a[2] \in MemoryOf(x)) /\ (IsMem(b) => b[2] \in MemoryOf(x))
    BY <2>1 DEF MemoryOf
  <2> QED
    BY <1>1, <2>1, <2>2
<1>4. /\ a \in MemOperand => IsMem(a) /\ ~IsReg(a) /\ ~IsImm(a)
      /\ b \in MemOperand => IsMem(b) /\ ~IsReg(b) /\ ~IsImm(b)
  BY Kinds DEF MemOperand, IsMem
<1>5. CASE m = "MOV"
  <2>1. Lower(y) = LowerMov(a, b)
    BY <1>3, <1>5, NoBranchNames DEF Lower
  <2>2. CASE a \in RegOperand /\ b \in RegOperand
    <3>1. LowerMov(a, b) = RegisterPair("MOV", a, b)
      BY <2>2, Kinds DEF LowerMov
    <3>2. m \in PairNames \ {"CMP"}
      BY <1>5
    <3> QED
      BY <1>1, <1>2, <1>5, <2>1, <2>2, <3>1, <3>2, MovRegisters
  <2>3. CASE a \in RegOperand /\ b \in MemOperand
    <3>1. LowerMov(a, b) = EmitLoad(R64(a), b[2])
      BY <1>4, <2>3, Kinds DEF LowerMov
    <3> QED
      BY <1>1, <1>2, <1>3, <1>4, <1>5, <2>1, <2>3, <3>1, MovLoads
  <2>4. CASE a \in MemOperand /\ b \in RegOperand
    <3>1. LowerMov(a, b) = EmitStore(a[2], R64(b))
      BY <1>4, <2>4, Kinds DEF LowerMov
    <3> QED
      BY <1>1, <1>2, <1>3, <1>4, <1>5, <2>1, <2>4, <3>1, MovStores
  <2>5. CASE a \in RegOperand /\ b \in ImmOperand
    <3>1. LowerMov(a, b) = Encoded(AsmLine("MOVI", <<R64(a), b>>),
                                   EncodeRegImm64(1, SeabirdReg(a), b))
      BY <2>5, Kinds DEF LowerMov
    <3>2. Lower(y).lines = <<AsmLine("MOVI", <<R64(a), b>>)>>
      BY <2>1, <3>1 DEF Encoded, Lowering
    <3> QED
      BY <1>1, <1>2, <1>5, <2>5, <3>2, MovImmediate
  <2>6. CASE a \in MemOperand /\ b \in ImmOperand
    <3>1. LowerMov(a, b) = Then(Textual(<<AsmLine("MOVI", <<Scratch2, b>>)>>, "memory-immediate"),
                                EmitStore(a[2], Scratch2))
      BY <1>4, <2>6, Kinds DEF LowerMov
    <3> QED
      BY <1>1, <1>2, <1>3, <1>4, <1>5, <2>1, <2>6, <3>1, MovStoresImmediate
  <2> QED
    BY <1>2, <2>2, <2>3, <2>4, <2>5, <2>6
<1>6. CASE m # "MOV"
  <2>1. Lower(y) = LowerBinary(m, a, b)
    <3>1. m \in {"ADD", "SUB", "AND", "OR", "XOR", "CMP"}
      BY <1>6 DEF PairNames
    <3> QED
      BY <1>3, <1>6, <3>1, NoBranchNames DEF Lower
  <2>2. m \in PairNames \ {"MOV"}
    BY <1>6
  <2>3. CASE a \in RegOperand /\ b \in RegOperand
    <3>1. LowerBinary(m, a, b) = RegisterPair(m, a, b)
      BY <2>3, Kinds DEF LowerBinary
    <3>2. CASE m = "CMP"
      BY <1>1, <1>2, <2>1, <2>3, <3>1, <3>2, CmpRegisters
    <3>3. CASE m # "CMP"
      BY <1>1, <1>2, <2>1, <2>3, <3>1, <3>3, MovRegisters
    <3> QED
      BY <3>2, <3>3
  <2>4. CASE a \in RegOperand /\ b \in MemOperand
    <3>1. LowerBinary(m, a, b) = Then(EmitLoad(Scratch2, b[2]),
            Textual(<<AsmLine(m, <<R64(a), Scratch2>>)>>, "memory operand"))
      BY <1>4, <2>4, Kinds DEF LowerBinary
    <3> QED
      BY <1>1, <1>2, <1>3, <1>4, <2>1, <2>2, <2>4, <3>1, BinaryLoads
  <2>5. CASE a \in MemOperand /\ b \in RegOperand
    <3>1. CASE m = "CMP"
      <4>1. LowerBinary(m, a, b) = Then(EmitLoad(Scratch2, a[2]),
              Textual(<<AsmLine("CMP", <<Scratch2, R64(b)>>)>>, "memory operand"))
        BY <1>4, <2>5, <3>1, Kinds DEF LowerBinary
      <4> QED
        BY <1>1, <1>2, <1>3, <1>4, <2>1, <2>5, <3>1, <4>1, CmpMemory
    <3>2. CASE m # "CMP"
      <4>1. LowerBinary(m, a, b) = Then(Then(EmitLoad(Scratch2, a[2]),
                Textual(<<AsmLine(m, <<Scratch2, R64(b)>>)>>, "memory operand")),
              EmitStore(a[2], Scratch2))
        BY <1>4, <2>5, <3>2, Kinds DEF LowerBinary
      <4>2. m \in PairNames \ {"MOV", "CMP"}
        BY <2>2, <3>2
      <4> QED
        BY <1>1, <1>2, <1>3, <1>4, <2>1, <2>5, <4>1, <4>2, BinaryOnMemory
    <3> QED
      BY <3>1, <3>2
  <2> QED
    BY <1>2, <1>6, <2>3, <2>4, <2>5
<1> QED
  BY <1>5, <1>6

-----------------------------------------------------------------------------
(* Instructions that do not move data are one line, or none.               *)
Effects(x, lines) == /\ IsSequence(lines)
                     /\ \E t : Does(Start, lines, t) /\ t = Meaning(x)

LEMMA MeaningLeft ==
  ASSUME NEW x, NEW lines, Effects(x, lines)
  PROVE SameEffect(x, lines)
<1>1. PICK t : Does(Start, lines, t) /\ t = Meaning(x) /\ IsSequence(lines)
  BY DEF Effects
<1>2. Run(lines) = Meaning(x)
  BY <1>1, RunDoes
<1> QED
  BY <1>2 DEF SameEffect

LEMMA LineMeans ==
  ASSUME NEW x, NEW l, RunLine(Start, l) = Meaning(x)
  PROVE SameEffect(x, << l >>)
BY OneLine, MeaningLeft DEF Effects

LEMMA StackRegister ==
  /\ RSP = 7 /\ 7 \in Register /\ 7 \in Names
  /\ \A a \in RegOperand : a # XReg(4) => SeabirdReg(a) # 7
<1>1. RSP = 7
  BY DEF RSP, SeabirdReg, XReg, SeabirdRegs
<1>2. ASSUME NEW a \in RegOperand, a # XReg(4) PROVE SeabirdReg(a) # 7
  <2>1. PICK n \in Register : a = XReg(n)
    BY DEF RegOperand, XReg
  <2>2. n \in {0, 1, 2, 3, 5, 6, 7, 8, 9, 10, 11, 12, 13, 14, 15}
    BY <1>2, <2>1 DEF Register
  <2> QED
    BY <2>1, <2>2 DEF SeabirdReg, XReg, SeabirdRegs
<1> QED
  BY <1>1, <1>2 DEF Register, Names

(* The stack word at RSP, and RSP a word below and above.                  *)
StackTop == <<"load", Located(GPR(7), Absent, 1, 0), 0>>
WordBelow == Located(GPR(7), Absent, 1, -8)
WordAbove == Located(GPR(7), Absent, 1, 8)

LEMMA StackMoves ==
  /\ IsState(Start) /\ Start.regs = Untouched /\ Start.stored = <<>>
  /\ Start.flags = Absent /\ Start.goes = Following
  /\ Stacked(Start, -8) = State(Put(Untouched, 7, WordBelow), <<>>, Absent)
  /\ Stacked(Start, 8) = State(Put(Untouched, 7, WordAbove), <<>>, Absent)
  /\ Top(Start) = StackTop
  /\ \A v : StoredOnTop(Stacked(Start, -8), v) =
             State(Put(Untouched, 7, WordBelow), << <<WordBelow, v>> >>, Absent)
<1>1. /\ IsState(Start) /\ Start.regs = Untouched /\ Start.stored = <<>>
      /\ Start.flags = Absent /\ Start.goes = Following
  BY StartState, StateParts
<1>2. Untouched[7] = GPR(7)
  BY StartState, StackRegister
<1>3. Moved(GPR(7), -8) = WordBelow /\ Moved(GPR(7), 8) = WordAbove
  BY StackRegister, Addresses DEF WordBelow, WordAbove
<1>4. AsAddress(GPR(7)) = Located(GPR(7), Absent, 1, 0) /\ AsAddress(WordBelow) = WordBelow
  BY <1>3, StackRegister, Addresses DEF WordBelow
<1>5. ASSUME NEW disp, NEW w, w = Moved(GPR(7), disp)
      PROVE Stacked(Start, disp) = State(Put(Untouched, 7, w), <<>>, Absent)
  <2>1. Stacked(Start, disp) = [Start EXCEPT !.regs[7] = w]
    BY <1>1, <1>2, <1>5 DEF Stacked
  <2> QED
    BY <1>1, <2>1, SetParts DEF Sets
<1>6. Top(Start) = StackTop
  BY <1>1, <1>2, <1>4 DEF Top, StackTop
<1>7. PICK q : q = Put(Untouched, 7, WordBelow)
  OBVIOUS
<1>8. q[7] = WordBelow
  BY <1>7, RegisterSet, StartState, StackRegister DEF Renamed
<1>9. ASSUME NEW v
      PROVE StoredOnTop(State(q, <<>>, Absent), v) = State(q, << <<WordBelow, v>> >>, Absent)
  <2>1. PICK e : e = <<WordBelow, v>>
    OBVIOUS
  <2>2. StoredOnTop(State(q, <<>>, Absent), v) =
          [State(q, <<>>, Absent) EXCEPT !.stored = Append(<<>>, e)]
    BY <1>4, <1>8, <2>1, StateParts DEF StoredOnTop
  <2>3. Append(<<>>, e) = << e >>
    OBVIOUS
  <2> QED
    BY <2>1, <2>2, <2>3 DEF State
<1> QED
  BY <1>1, <1>3, <1>5, <1>6, <1>7, <1>9

\* The lines of an instruction with no operands, or one.
LEMMA OtherLines ==
  ASSUME NEW y, NEW m, m = y.mnemonic
  PROVE /\ m = "NOP" => Lower(y).lines = <<>>
        /\ m \in {"RET", "SYSCALL"} => Lower(y).lines = << AsmLine(m, <<>>) >>
        /\ m \in {"PUSH", "POP"} =>
             Lower(y).lines = << AsmLine(m, << GPR(SeabirdReg(y.ops[1])) >>) >>
        /\ m \in BranchNames => Lower(y).lines = << AsmLine(m, << y.ops[1] >>) >>
<1> USE NoBranchNames
<1>1. CASE m = "NOP"
  <2>1. m \notin {"JMP", "CALL"} \cup Range(JccName)
    BY <1>1
  <2>2. Lower(y).lines = <<>>
    BY <1>1, <2>1 DEF Lower, Lowering
  <2> QED
    BY <1>1, <2>1, <2>2 DEF BranchNames
<1>2. CASE m \in {"RET", "SYSCALL"}
  <2>1. Lower(y) = Encoded(AsmLine(m, <<>>), << SeabirdOpcode(m) >>)
    <3>1. m \notin {"JMP", "CALL"} \cup Range(JccName)
      BY <1>2
    <3> QED
      BY <1>2, <3>1 DEF Lower
  <2> QED
    BY <1>2, <2>1 DEF Encoded, Lowering, BranchNames
<1>3. CASE m \in {"PUSH", "POP"}
  <2>1. Lower(y) = OneRegister(m, y.ops[1])
    <3>1. m \notin {"JMP", "CALL"} \cup Range(JccName)
      BY <1>3
    <3> QED
      BY <1>3, <3>1 DEF Lower
  <2> QED
    BY <1>3, <2>1 DEF OneRegister, Encoded, Lowering, R64, BranchNames
<1>4. CASE m \in BranchNames
  <2>1. /\ m \notin {"NOP", "RET", "SYSCALL", "PUSH", "POP"}
        /\ m \notin {"MOV", "ADD", "SUB", "AND", "OR", "XOR", "CMP"}
        /\ m \in {"JMP", "CALL"} \cup Range(JccName)
    BY <1>4, BranchNameList DEF BranchNames
  <2>2. Lower(y) = EmitBranchImm(m, y.ops[1])
    BY <2>1, Zenon DEF Lower
  <2> QED
    BY <2>1, <2>2 DEF EmitBranchImm, Encoded, Lowering
<1> QED
  BY <1>1, <1>2, <1>3, <1>4

(* The state with a word stored below RSP, and the one with the top word   *)
(* taken.                                                                  *)
Pushed(v) == State(Put(Untouched, 7, WordBelow), << <<WordBelow, v>> >>, Absent)
Popped == State(Put(Untouched, 7, WordAbove), <<>>, Absent)

LEMMA OtherMeaning ==
  ASSUME NEW x, NEW m, m = x.mnemonic, NEW op, op = x.ops[1]
  PROVE /\ m = "PUSH" => Meaning(x) = Pushed(Value(op))
        /\ m = "POP" => Meaning(x) = [Popped EXCEPT !.regs[SeabirdReg(op)] = StackTop]
        /\ m = "CALL" => Meaning(x) = [Pushed(Following) EXCEPT !.goes = op]
        /\ m = "RET" => Meaning(x) = [Popped EXCEPT !.goes = StackTop]
        /\ m \in {"JMP", "Jcc"} => Meaning(x) = [Start EXCEPT !.goes = op]
        /\ m = "SYSCALL" => Meaning(x) = [Start EXCEPT !.goes = System]
        /\ m = "NOP" => Meaning(x) = Start
<1>1. m \in {"PUSH", "POP", "CALL", "RET", "JMP", "Jcc", "SYSCALL", "NOP"} => ~MovesData(x)
  BY BinaryNames DEF MovesData, PairNames
<1>2. ASSUME NEW v
      PROVE [Start EXCEPT !.regs[7] = WordBelow, !.stored = << <<WordBelow, v>> >>] = Pushed(v)
  <2>1. PICK e : e = << <<WordBelow, v>> >>
    OBVIOUS
  <2>2. PICK r, st, f, w : /\ r = Untouched /\ st = <<>> /\ f = Absent /\ w = WordBelow
                           /\ Start = State(r, st, f)
    BY StartState
  <2>3. [State(r, st, f) EXCEPT !.regs[7] = w, !.stored = e] = State(Put(r, 7, w), e, f)
    <3>1. PICK p : p = Put(r, 7, w)
      OBVIOUS
    <3>2. [State(r, st, f) EXCEPT !.regs[7] = w] = State(p, st, f)
      <4>1. [State(r, st, f) EXCEPT !.regs[7] = w] = Sets(State(r, st, f), 7, w)
        BY StateParts, SetParts
      <4> QED
        BY <3>1, <4>1, StateParts DEF Sets
    <3>3. [State(p, st, f) EXCEPT !.stored = e] = State(p, e, f)
      BY DEF State
    <3>4. [State(r, st, f) EXCEPT !.regs[7] = w, !.stored = e] =
            [State(p, st, f) EXCEPT !.stored = e]
      BY <3>2
    <3> QED
      BY <3>1, <3>3, <3>4
  <2>4. [Start EXCEPT !.regs[7] = WordBelow, !.stored = e] =
          [State(r, st, f) EXCEPT !.regs[7] = w, !.stored = e]
    BY <2>2
  <2>5. Pushed(v) = State(Put(r, 7, w), e, f)
    BY <2>1, <2>2 DEF Pushed
  <2> QED
    BY <2>1, <2>3, <2>4, <2>5
<1>3. [Start EXCEPT !.regs[7] = WordAbove] = Popped
  BY StartState DEF State, Put, Popped
<1>4. CASE m = "PUSH"
  <2>1. Meaning(x) = [Start EXCEPT !.regs[7] = WordBelow,
                                   !.stored = << <<WordBelow, Value(op)>> >>]
    BY <1>1, <1>4, StackRegister DEF Meaning, WordBelow
  <2> QED
    BY <1>2, <1>4, <2>1
<1>5. CASE m = "POP"
  BY <1>1, <1>3, <1>5, StackRegister DEF Meaning, WordAbove, StackTop
<1>6. CASE m = "CALL"
  <2>1. Meaning(x) = [[Start EXCEPT !.regs[7] = WordBelow,
                                    !.stored = << <<WordBelow, Following>> >>]
                        EXCEPT !.goes = op]
    BY <1>1, <1>6, StackRegister DEF Meaning, WordBelow
  <2> QED
    BY <1>2, <1>6, <2>1
<1>7. CASE m = "RET"
  BY <1>1, <1>3, <1>7, StackRegister DEF Meaning, WordAbove, StackTop
<1>8. CASE m \in {"JMP", "Jcc", "SYSCALL", "NOP"}
  BY <1>1, <1>8 DEF Meaning
<1> QED
  BY <1>4, <1>5, <1>6, <1>7, <1>8

LEMMA ControlLines ==
  ASSUME NEW s, NEW l, NEW m \in ControlNames, l.name = m, NEW a, a = l.ops[1]
  PROVE /\ m = "PUSH" => RunLine(s, l) = StoredOnTop(Stacked(s, -8), Stacked(s, -8).regs[a[2]])
        /\ m = "POP" => RunLine(s, l) = [Stacked(s, 8) EXCEPT !.regs[a[2]] = Top(s)]
        /\ m = "CALL" =>
             RunLine(s, l) = [StoredOnTop(Stacked(s, -8), Following) EXCEPT !.goes = a]
        /\ m = "RET" => RunLine(s, l) = [Stacked(s, 8) EXCEPT !.goes = Top(s)]
        /\ m = "SYSCALL" => RunLine(s, l) = [s EXCEPT !.goes = System]
        /\ m \in {"JMP"} \cup Range(JccName) => RunLine(s, l) = [s EXCEPT !.goes = a]
<1>1. m \notin {"MOVI", "MOV", "ADDI", "LEAS", "LDQ", "STQ", "CMP"}
  BY DataLines
<1>2. RunLine(s, l) = RunControl(s, m, a)
  BY <1>1 DEF RunLine
<1>3. m \in {"JMP"} \cup Range(JccName) => m \notin {"PUSH", "POP", "CALL", "RET", "SYSCALL"}
  BY BranchNameList, NoBranchNames DEF Range, JccName
<1>4. PICK moved, taken, top, pushed :
        /\ moved = StoredOnTop(Stacked(s, -8), Stacked(s, -8).regs[a[2]])
        /\ pushed = StoredOnTop(Stacked(s, -8), Following)
        /\ taken = Stacked(s, 8) /\ top = Top(s)
  OBVIOUS
<1>5. RunControl(s, m, a) =
        CASE m = "PUSH" -> moved
          [] m = "POP" -> [taken EXCEPT !.regs[a[2]] = top]
          [] m = "CALL" -> [pushed EXCEPT !.goes = a]
          [] m = "RET" -> [taken EXCEPT !.goes = top]
          [] m = "SYSCALL" -> [s EXCEPT !.goes = System]
          [] m \in {"JMP"} \cup Range(JccName) -> [s EXCEPT !.goes = a]
  BY <1>4 DEF RunControl
<1> QED
  BY <1>2, <1>3, <1>4, <1>5

LEMMA PushKept ==
  ASSUME NEW x, x.mnemonic = "PUSH", NEW a \in RegOperand, x.ops = << a >>, a # XReg(4)
  PROVE SameEffect(x, << AsmLine("PUSH", << GPR(SeabirdReg(a)) >>) >>)
<1>1. PICK n \in Register : n = SeabirdReg(a) /\ n # 7 /\ n \in Names
  BY StackRegister, Values
<1>2. PICK t : t = Stacked(Start, -8)
  OBVIOUS
<1>3. t.regs[n] = GPR(n)
  <2>1. t.regs = Put(Untouched, 7, WordBelow)
    BY <1>2, StackMoves, StateParts
  <2>2. Registers(Untouched) /\ Untouched[n] = GPR(n)
    BY <1>1, StartState DEF Renamed
  <2> QED
    BY <1>1, <2>1, <2>2, RegisterSet, StackRegister
<1>4. PICK l : l = AsmLine("PUSH", << GPR(n) >>)
  OBVIOUS
<1>5. l.name = "PUSH" /\ l.ops[1][2] = n /\ "PUSH" \in ControlNames
  BY <1>4 DEF AsmLine, GPR, ControlNames
<1>6. RunLine(Start, l) = StoredOnTop(t, t.regs[n])
  BY <1>2, <1>5, ControlLines
<1>7. RunLine(Start, l) = Pushed(GPR(n))
  BY <1>2, <1>3, <1>6, StackMoves DEF Pushed
<1>8. Value(x.ops[1]) = GPR(n)
  BY <1>1, Values
<1> QED
  BY <1>1, <1>4, <1>7, <1>8, OtherMeaning, LineMeans

LEMMA PopKept ==
  ASSUME NEW x, x.mnemonic = "POP", NEW a, x.ops = << a >>
  PROVE SameEffect(x, << AsmLine("POP", << GPR(SeabirdReg(a)) >>) >>)
<1>1. PICK n : n = SeabirdReg(a)
  OBVIOUS
<1>2. PICK l : l = AsmLine("POP", << GPR(n) >>)
  OBVIOUS
<1>3. l.name = "POP" /\ l.ops[1][2] = n /\ "POP" \in ControlNames
  BY <1>2 DEF AsmLine, GPR, ControlNames
<1>4. RunLine(Start, l) = [Stacked(Start, 8) EXCEPT !.regs[n] = Top(Start)]
  BY <1>3, ControlLines
<1>5. RunLine(Start, l) = [Popped EXCEPT !.regs[n] = StackTop]
  BY <1>4, StackMoves DEF Popped
<1>6. x.ops[1] = a
  OBVIOUS
<1> QED
  BY <1>1, <1>2, <1>5, <1>6, OtherMeaning, LineMeans

LEMMA CallKept ==
  ASSUME NEW x, x.mnemonic = "CALL", NEW a, x.ops = << a >>
  PROVE SameEffect(x, << AsmLine("CALL", << a >>) >>)
<1>1. PICK l : l = AsmLine("CALL", << a >>)
  OBVIOUS
<1>2. l.name = "CALL" /\ l.ops[1] = a /\ "CALL" \in ControlNames
  BY <1>1 DEF AsmLine, ControlNames
<1>3. RunLine(Start, l) = [StoredOnTop(Stacked(Start, -8), Following) EXCEPT !.goes = a]
  BY <1>2, ControlLines
<1>4. RunLine(Start, l) = [Pushed(Following) EXCEPT !.goes = a]
  BY <1>3, StackMoves DEF Pushed
<1>5. x.ops[1] = a
  OBVIOUS
<1> QED
  BY <1>1, <1>4, <1>5, OtherMeaning, LineMeans

LEMMA BranchKept ==
  ASSUME NEW x, x.mnemonic \in {"JMP", "Jcc"}, NEW a, x.ops = << a >>,
         NEW m \in {"JMP"} \cup Range(JccName)
  PROVE SameEffect(x, << AsmLine(m, << a >>) >>)
<1>1. PICK l : l = AsmLine(m, << a >>)
  OBVIOUS
<1>2. l.name = m /\ l.ops[1] = a
  BY <1>1 DEF AsmLine
<1>3. m \in ControlNames
  BY DEF ControlNames
<1>4. RunLine(Start, l) = [Start EXCEPT !.goes = a]
  BY <1>2, <1>3, ControlLines
<1>5. x.ops[1] = a
  OBVIOUS
<1> QED
  BY <1>1, <1>4, <1>5, OtherMeaning, LineMeans

LEMMA PlainKept ==
  ASSUME NEW x, NEW m \in {"RET", "SYSCALL"}, x.mnemonic = m
  PROVE SameEffect(x, << AsmLine(m, <<>>) >>)
<1>1. PICK l : l = AsmLine(m, <<>>)
  OBVIOUS
<1>2. l.name = m /\ m \in ControlNames
  BY <1>1 DEF AsmLine, ControlNames
<1>3. CASE m = "RET"
  <2>1. RunLine(Start, l) = [Stacked(Start, 8) EXCEPT !.goes = Top(Start)]
    BY <1>2, <1>3, ControlLines
  <2>2. RunLine(Start, l) = [Popped EXCEPT !.goes = StackTop]
    BY <2>1, StackMoves DEF Popped
  <2> QED
    BY <1>1, <1>3, <2>2, OtherMeaning, LineMeans
<1>4. CASE m = "SYSCALL"
  <2>1. RunLine(Start, l) = [Start EXCEPT !.goes = System]
    BY <1>2, <1>4, ControlLines
  <2> QED
    BY <1>1, <1>4, <2>1, OtherMeaning, LineMeans
<1> QED
  BY <1>3, <1>4

LEMMA NopKept ==
  ASSUME NEW x, x.mnemonic = "NOP"
  PROVE SameEffect(x, <<>>)
<1>1. PICK f : f = [k \in {0} |-> Start]
  OBVIOUS
<1>2. f[0] = Start /\ f[Len(<<>>)] = Start /\ \A k \in 1 .. Len(<<>>) : FALSE
  BY <1>1
<1>3. Does(Start, <<>>, Start)
  BY <1>2 DEF Does
<1> QED
  BY <1>3, EmptySequence, OtherMeaning, MeaningLeft DEF Effects

\* The instructions that do not move data do what they mean.
LEMMA OtherKept ==
  ASSUME NEW x, IsInstruction(x), ~MovesData(x), ~PushesSP(x), x.mnemonic \notin {"INT3", "UD2"},
         NEW y, y.ops = x.ops,
         IF x.mnemonic = "Jcc" THEN y.mnemonic \in Range(JccName) ELSE y.mnemonic = x.mnemonic
  PROVE SameEffect(x, Lower(y).lines)
<1>1. CASE x.mnemonic \in {"PUSH", "POP"}
  <2>1. PICK a \in RegOperand : x.ops = << a >>
    BY <1>1, BinaryNames DEF IsInstruction, PairNames
  <2>2. y.mnemonic = x.mnemonic /\ y.ops[1] = a
    BY <1>1, <2>1
  <2>3. Lower(y).lines = << AsmLine(x.mnemonic, << GPR(SeabirdReg(a)) >>) >>
    BY <1>1, <2>2, OtherLines
  <2>4. x.mnemonic = "PUSH" => a # XReg(4)
    BY <2>1 DEF PushesSP
  <2> QED
    BY <1>1, <2>1, <2>3, <2>4, PushKept, PopKept
<1>2. CASE x.mnemonic \in {"CALL", "JMP", "Jcc"}
  <2>1. PICK a : x.ops = << a >>
    BY <1>2, BinaryNames DEF IsInstruction, PairNames
  <2>2. PICK m : m = y.mnemonic
    OBVIOUS
  <2>3. m \in BranchNames /\ y.ops[1] = a
    BY <1>2, <2>1, <2>2 DEF BranchNames
  <2>4. Lower(y).lines = << AsmLine(m, << a >>) >>
    BY <2>2, <2>3, OtherLines
  <2>5. CASE x.mnemonic = "CALL"
    BY <2>1, <2>2, <2>4, <2>5, CallKept
  <2>6. CASE x.mnemonic # "CALL"
    <3>1. m \in {"JMP"} \cup Range(JccName)
      BY <1>2, <2>2, <2>6
    <3>2. x.mnemonic \in {"JMP", "Jcc"}
      BY <1>2, <2>6
    <3> QED
      BY <2>1, <2>4, <3>1, <3>2, BranchKept
  <2> QED
    BY <2>5, <2>6
<1>3. CASE x.mnemonic \in {"RET", "SYSCALL"}
  <2>1. y.mnemonic = x.mnemonic
    BY <1>3
  <2>2. Lower(y).lines = << AsmLine(x.mnemonic, <<>>) >>
    BY <1>3, <2>1, OtherLines
  <2> QED
    BY <1>3, <2>2, PlainKept
<1>4. CASE x.mnemonic = "NOP"
  <2>1. y.mnemonic = "NOP"
    BY <1>4
  <2>2. Lower(y).lines = <<>>
    BY <2>1, OtherLines
  <2> QED
    BY <1>4, <2>2, NopKept
<1>5. x.mnemonic \in {"PUSH", "POP", "CALL", "JMP", "Jcc", "RET", "SYSCALL", "NOP"}
  BY BinaryNames DEF IsInstruction, MovesData, PairNames
<1> QED
  BY <1>1, <1>2, <1>3, <1>4, <1>5

\* The jumps that have a counterpart are taken on the same flags.
LEMMA JumpTable ==
  /\ JccName[1] = "JO" /\ JccName[2] = "JNO" /\ JccName[3] = "JC" /\ JccName[4] = "JNC"
  /\ JccName[5] = "JE" /\ JccName[6] = "JNE" /\ JccName[9] = "JS" /\ JccName[10] = "JNS"
  /\ JccName[13] = "JL" /\ JccName[14] = "JGE" /\ JccName[15] = "JLE" /\ JccName[16] = "JG"
BY DEF JccName

LEMMA OddNegates ==
  ASSUME NEW f \in XFlags, NEW cc \in {0, 2, 4, 8, 12, 14}
  PROVE /\ ConditionHolds(cc, f) <=> EvenCondition(cc, f)
        /\ ConditionHolds(cc + 1, f) <=> ~EvenCondition(cc, f)
<1>1. /\ cc - (cc % 2) = cc /\ ~(cc % 2 = 1)
      /\ (cc + 1) - ((cc + 1) % 2) = cc /\ (cc + 1) % 2 = 1
  OBVIOUS
<1>2. EvenCondition(cc, f) \in BOOLEAN
  <2>1. f.cf \in BOOLEAN /\ f.zf \in BOOLEAN /\ f.sf \in BOOLEAN /\ f.of \in BOOLEAN
    BY DEF XFlags
  <2>2. CASE cc = 0
    BY <2>1, <2>2 DEF EvenCondition
  <2>3. CASE cc = 2
    BY <2>1, <2>3 DEF EvenCondition
  <2>4. CASE cc = 4
    BY <2>1, <2>4 DEF EvenCondition
  <2>5. CASE cc = 8
    BY <2>1, <2>5 DEF EvenCondition
  <2>6. CASE cc = 12
    BY <2>1, <2>6 DEF EvenCondition
  <2>7. CASE cc = 14
    BY <2>1, <2>7 DEF EvenCondition
  <2> QED
    BY <2>2, <2>3, <2>4, <2>5, <2>6, <2>7
<1>3. ConditionHolds(cc, f) <=> EvenCondition(cc, f)
  BY <1>1, <1>2 DEF ConditionHolds
<1>4. ConditionHolds(cc + 1, f) <=> ~EvenCondition(cc, f)
  BY <1>1, <1>2 DEF ConditionHolds
<1> QED
  BY <1>3, <1>4

LEMMA SameJump ==
  ASSUME NEW cc \in (0 .. 15) \ Unmatched, NEW f \in XFlags
  PROVE JumpTaken(JccName[cc + 1], f) <=> ConditionHolds(cc, f)
<1>1. cc \in {0, 2, 4, 8, 12, 14} \/ cc \in {1, 3, 5, 9, 13, 15}
  BY DEF Unmatched
<1>2. CASE cc \in {0, 2, 4, 8, 12, 14}
  <2>1. ConditionHolds(cc, f) <=> EvenCondition(cc, f)
    BY <1>2, OddNegates
  <2>2. JumpTaken(JccName[cc + 1], f) <=> EvenCondition(cc, f)
    <3>1. CASE cc = 0
      <4>1. JumpTaken("JO", f) <=> EvenCondition(0, f)
        BY DEF JumpTaken, EvenCondition
      <4>2. JccName[cc + 1] = "JO"
        BY <3>1, JumpTable
      <4> QED
        BY <3>1, <4>1, <4>2
    <3>2. CASE cc = 2
      <4>1. JumpTaken("JC", f) <=> EvenCondition(2, f)
        BY DEF JumpTaken, EvenCondition
      <4>2. JccName[cc + 1] = "JC"
        BY <3>2, JumpTable
      <4> QED
        BY <3>2, <4>1, <4>2
    <3>3. CASE cc = 4
      <4>1. JumpTaken("JE", f) <=> EvenCondition(4, f)
        BY DEF JumpTaken, EvenCondition
      <4>2. JccName[cc + 1] = "JE"
        BY <3>3, JumpTable
      <4> QED
        BY <3>3, <4>1, <4>2
    <3>4. CASE cc = 8
      <4>1. JumpTaken("JS", f) <=> EvenCondition(8, f)
        BY DEF JumpTaken, EvenCondition
      <4>2. JccName[cc + 1] = "JS"
        BY <3>4, JumpTable
      <4> QED
        BY <3>4, <4>1, <4>2
    <3>5. CASE cc = 12
      <4>1. JumpTaken("JL", f) <=> EvenCondition(12, f)
        BY DEF JumpTaken, EvenCondition
      <4>2. JccName[cc + 1] = "JL"
        BY <3>5, JumpTable
      <4> QED
        BY <3>5, <4>1, <4>2
    <3>6. CASE cc = 14
      <4>1. JumpTaken("JLE", f) <=> EvenCondition(14, f)
        BY DEF JumpTaken, EvenCondition
      <4>2. JccName[cc + 1] = "JLE"
        BY <3>6, JumpTable
      <4> QED
        BY <3>6, <4>1, <4>2
    <3> QED
      BY <1>2, <3>1, <3>2, <3>3, <3>4, <3>5, <3>6
  <2> QED
    BY <2>1, <2>2
<1>3. CASE cc \in {1, 3, 5, 9, 13, 15}
  <2>1. PICK e \in {0, 2, 4, 8, 12, 14} : cc = e + 1
    BY <1>3
  <2>2. ConditionHolds(cc, f) <=> ~EvenCondition(e, f)
    BY <2>1, OddNegates
  <2>3. JumpTaken(JccName[e + 2], f) <=> ~EvenCondition(e, f)
    <3>1. CASE e = 0
      <4>1. JumpTaken("JNO", f) <=> ~EvenCondition(0, f)
        BY DEF JumpTaken, EvenCondition
      <4>2. JccName[e + 2] = "JNO"
        BY <3>1, JumpTable
      <4> QED
        BY <3>1, <4>1, <4>2
    <3>2. CASE e = 2
      <4>1. JumpTaken("JNC", f) <=> ~EvenCondition(2, f)
        BY DEF JumpTaken, EvenCondition
      <4>2. JccName[e + 2] = "JNC"
        BY <3>2, JumpTable
      <4> QED
        BY <3>2, <4>1, <4>2
    <3>3. CASE e = 4
      <4>1. JumpTaken("JNE", f) <=> ~EvenCondition(4, f)
        BY DEF JumpTaken, EvenCondition
      <4>2. JccName[e + 2] = "JNE"
        BY <3>3, JumpTable
      <4> QED
        BY <3>3, <4>1, <4>2
    <3>4. CASE e = 8
      <4>1. JumpTaken("JNS", f) <=> ~EvenCondition(8, f)
        BY DEF JumpTaken, EvenCondition
      <4>2. JccName[e + 2] = "JNS"
        BY <3>4, JumpTable
      <4> QED
        BY <3>4, <4>1, <4>2
    <3>5. CASE e = 12
      <4>1. JumpTaken("JGE", f) <=> ~EvenCondition(12, f)
        BY DEF JumpTaken, EvenCondition
      <4>2. JccName[e + 2] = "JGE"
        BY <3>5, JumpTable
      <4> QED
        BY <3>5, <4>1, <4>2
    <3>6. CASE e = 14
      <4>1. JumpTaken("JG", f) <=> ~EvenCondition(14, f)
        BY DEF JumpTaken, EvenCondition
      <4>2. JccName[e + 2] = "JG"
        BY <3>6, JumpTable
      <4> QED
        BY <3>6, <4>1, <4>2
    <3> QED
      BY <2>1, <3>1, <3>2, <3>3, <3>4, <3>5, <3>6
  <2>4. cc + 1 = e + 2
    BY <2>1
  <2> QED
    BY <2>2, <2>3, <2>4
<1> QED
  BY <1>1, <1>2, <1>3

LEMMA JumpName ==
  ASSUME NEW cc \in 0 .. 15, NEW y, y.mnemonic = JccName[cc + 1]
  PROVE Lower(y).lines[1].name = JccName[cc + 1]
<1>1. PICK m : m = JccName[cc + 1] /\ m = y.mnemonic
  OBVIOUS
<1>2. m \in Range(JccName)
  BY <1>1 DEF Range, JccName
<1>3. /\ m \notin {"NOP", "RET", "SYSCALL", "PUSH", "POP"}
      /\ m \in {"JMP", "CALL"} \cup Range(JccName)
      /\ m \notin {"MOV", "ADD", "SUB", "AND", "OR", "XOR", "CMP"}
  BY <1>2, BranchNameList DEF BranchNames
<1>4. Lower(y) = EmitBranchImm(m, y.ops[1])
  BY <1>1, <1>3, Zenon DEF Lower
<1> QED
  BY <1>1, <1>4 DEF EmitBranchImm, Encoded, Lowering, AsmLine

\* In every program the lines of an instruction do what the instruction means.
THEOREM TextIsTheProgram == TransSpec => []TextKeepsMeaning
<1>1. OutputInv => TextKeepsMeaning
  <2> SUFFICES ASSUME OutputInv, NEW k \in 1 .. Len(lowered), NEW x, x = written[k].inst
               PROVE /\ ReadsOperands(x) /\ (\A m \in MemoryOf(x) : InFull(m)) /\ ~PushesSP(x) =>
                          SameEffect(x, lowered[k].lines)
                     /\ x.mnemonic = "Jcc" /\ x.cc \notin Unmatched =>
                          \A f \in XFlags :
                            JumpTaken(lowered[k].lines[1].name, f) <=> ConditionHolds(x.cc, f)
    BY DEF TextKeepsMeaning, SameEffect
  <2>1. /\ k \in 1 .. Len(insts) /\ k \in 1 .. Len(written)
        /\ lowered[k] = Lower(insts[k])
    BY DEF OutputInv, LoweredInv, DecodeInv, ReadInv, WrittenInv, IsSequence
  <2>2. PICK y : y = insts[k]
    OBVIOUS
  <2>3. DecodedAs(y, written[k]) /\ IsInstruction(x)
    BY <2>1, <2>2 DEF OutputInv, DecodeInv, ReadInv, WrittenInv, StandsInInput
  <2>4. ASSUME ReadsOperands(x), \A m \in MemoryOf(x) : InFull(m), ~PushesSP(x)
        PROVE SameEffect(x, lowered[k].lines)
    <3>1. y.ops = x.ops
      BY <2>3, <2>4 DEF DecodedAs
    <3>2. CASE MovesData(x)
      <4>1. x.mnemonic # "Jcc"
        BY <3>2, BinaryNames DEF MovesData, PairNames
      <4>2. y.mnemonic = x.mnemonic
        BY <2>3, <4>1 DEF DecodedAs
      <4> QED
        BY <2>1, <2>2, <2>3, <2>4, <3>1, <3>2, <4>2, EffectKept
    <3>3. CASE ~MovesData(x)
      <4>1. IF x.mnemonic = "Jcc" THEN y.mnemonic \in Range(JccName)
                                  ELSE y.mnemonic = x.mnemonic
        <5>1. CASE x.mnemonic = "Jcc"
          <6>1. PICK cc \in 0 .. 15 : cc = x.cc
            BY <2>3, <3>3, <5>1 DEF IsInstruction, MovesData
          <6>2. y.mnemonic = JccName[cc + 1]
            BY <2>3, <5>1, <6>1 DEF DecodedAs
          <6> QED
            BY <5>1, <6>2 DEF Range, JccName
        <5>2. CASE x.mnemonic # "Jcc"
          BY <2>3, <5>2 DEF DecodedAs
        <5> QED
          BY <5>1, <5>2
      <4>2. x.mnemonic \notin {"INT3", "UD2"}
        <5>1. IsDecoded(y)
          BY <2>1, <2>2 DEF OutputInv, InstsInv
        <5>2. y.mnemonic \notin {"INT3", "UD2"}
          BY <5>1, BranchNameList, BinaryNames DEF IsDecoded, PairNames
        <5> QED
          BY <4>1, <5>2
      <4> QED
        BY <2>1, <2>2, <2>3, <2>4, <3>1, <3>3, <4>1, <4>2, OtherKept
    <3> QED
      BY <3>2, <3>3
  <2>5. ASSUME x.mnemonic = "Jcc", x.cc \notin Unmatched, NEW f \in XFlags
        PROVE JumpTaken(lowered[k].lines[1].name, f) <=> ConditionHolds(x.cc, f)
    <3>1. PICK cc \in 0 .. 15 : cc = x.cc
      <4>1. "Jcc" \notin DOMAIN BinaryOpcode
        BY BinaryNames DEF PairNames
      <4> QED
        BY <2>3, <2>5, <4>1 DEF IsInstruction
    <3>2. y.mnemonic = JccName[cc + 1]
      BY <2>3, <2>5, <3>1 DEF DecodedAs
    <3>3. lowered[k].lines[1].name = JccName[cc + 1]
      BY <2>1, <2>2, <3>1, <3>2, JumpName
    <3> QED
      BY <2>5, <3>1, <3>3, SameJump
  <2> QED
    BY <2>4, <2>5
<1> QED
  BY <1>1, OutputCorrect, PTL
=============================================================================
