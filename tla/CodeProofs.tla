----------------------------- MODULE CodeProofs -----------------------------
(***************************************************************************)
(* Lemmas about the code format: numbers and their bytes, byte strings one *)
(* after the other, how far the decoders read, and what the emitter emits  *)
(* for each class of instructions.                                         *)
(***************************************************************************)
EXTENDS CodeEmitter, ReferenceDecoder, SequenceTheorems, WellFoundedInduction, TLAPS

Byte == 0 .. 255

\* The bytes of c from offset at on are s.
Has(c, at, s) ==
  /\ at + Len(s) <= Len(c)
  /\ \A k \in 1 .. Len(s) : At(c, at + k - 1) = s[k]

-----------------------------------------------------------------------------
(* Numbers and their bytes. *)
LEMMA PowersOf256 ==
  256 ^ 0 = 1 /\ 256 ^ 1 = 256 /\ 256 ^ 2 = 65536 /\ 256 ^ 3 = 16777216
BY SMT

\* Powers of two the scale of an index takes.
LEMMA PowersOf2 == 2 ^ 0 = 1 /\ 2 ^ 1 = 2 /\ 2 ^ 2 = 4 /\ 2 ^ 3 = 8
BY SMT

\* Signed32 gives back the number whose four bytes it reads.
LEMMA WordFromBytes ==
  ASSUME NEW v \in Word32
  PROVE (v % 256) + 256 * ((v \div 256) % 256) + 65536 * ((v \div 65536) % 256)
          + 16777216 * Signed8((v \div 16777216) % 256) = v
<1> DEFINE a == v \div 256
           b == a \div 256
           c == b \div 256
<1>1. v \in Int /\ a \in Int /\ b \in Int /\ c \in Int
  BY SMT DEF Word32
<1>2. v \div 65536 = b
  BY <1>1, SMT
<1>3. v \div 16777216 = c
  BY <1>1, SMT
<1>4. c \in -128 .. 127
  BY <1>1, SMT DEF Word32
<1>5. Signed8(c % 256) = c
  BY <1>4, SMT DEF Signed8
<1>6. v = 256 * a + (v % 256) /\ a = 256 * b + (a % 256) /\ b = 256 * c + (b % 256)
  BY <1>1, SMT
<1>7. v % 256 \in Int /\ a % 256 \in Int /\ b % 256 \in Int
  BY <1>1, SMT
<1> HIDE DEF a, b, c
<1> QED
  BY <1>1, <1>2, <1>3, <1>5, <1>6, <1>7, SMT

\* Signed8 gives back the signed number its byte stands for.
LEMMA ByteFromByte == ASSUME NEW v, SInt8(v) PROVE Signed8(v % 256) = v
BY SMT DEF SInt8, Signed8

\* A signed byte fits a word.
LEMMA SmallIsWord == ASSUME NEW v, SInt8(v) PROVE v \in Word32
BY SMT DEF SInt8, Word32

\* A word is an integer.
LEMMA WordIsInteger == ASSUME NEW v \in Word32 PROVE v \in Int
BY DEF Word32

\* LittleEndian yields as many bytes as it is asked for.
LEMMA LittleEndianBytes ==
  ASSUME NEW v \in Int, NEW k \in {0, 1, 2, 4}
  PROVE LittleEndian(v, k) \in Seq(Byte) /\ Len(LittleEndian(v, k)) = k
<1>1. ASSUME NEW i \in 1 .. k PROVE (v \div (256 ^ (i - 1))) % 256 \in Byte
  <2> DEFINE e == i - 1
             p == 256 ^ e
  <2>1. e \in {0, 1, 2, 3}
    BY SMT
  <2> HIDE DEF e
  <2>2. p \in Int /\ p > 0
    <3>1. CASE e = 0
      BY <3>1, PowersOf256, SMT
    <3>2. CASE e = 1
      BY <3>2, PowersOf256, SMT
    <3>3. CASE e = 2
      BY <3>3, PowersOf256, SMT
    <3>4. CASE e = 3
      BY <3>4, PowersOf256, SMT
    <3> QED
      BY <2>1, <3>1, <3>2, <3>3, <3>4
  <2> HIDE DEF p
  <2>3. (v \div p) % 256 \in Byte
    BY <2>2, SMT DEF Byte
  <2> QED
    BY <2>3 DEF p, e
<1>2. LittleEndian(v, k) \in [1 .. k -> Byte]
  BY <1>1 DEF LittleEndian
<1>3. k \in Nat
  OBVIOUS
<1> QED
  BY <1>2, <1>3, SeqDef, LenProperties

\* The fourth power is out of the way: the bytes of a word one by one.
LEMMA WordBytes ==
  ASSUME NEW v \in Int
  PROVE /\ LittleEndian(v, 4)[1] = v % 256
        /\ LittleEndian(v, 4)[2] = (v \div 256) % 256
        /\ LittleEndian(v, 4)[3] = (v \div 65536) % 256
        /\ LittleEndian(v, 4)[4] = (v \div 16777216) % 256
<1>1. v \div 1 = v
  BY SMT
<1>2. 1 - 1 = 0 /\ 2 - 1 = 1 /\ 3 - 1 = 2 /\ 4 - 1 = 3
  BY SMT
<1>3. 1 \in 1 .. 4 /\ 2 \in 1 .. 4 /\ 3 \in 1 .. 4 /\ 4 \in 1 .. 4
  BY SMT
<1> QED
  BY <1>1, <1>2, <1>3, PowersOf256, SMT DEF LittleEndian

\* The only byte of a one-byte number.
LEMMA OneByte == ASSUME NEW v \in Int PROVE LittleEndian(v, 1)[1] = v % 256
<1>1. v \div 1 = v
  BY SMT
<1>2. 1 - 1 = 0 /\ 1 \in 1 .. 1
  BY SMT
<1>3. LittleEndian(v, 1)[1] = (v \div (256 ^ 0)) % 256
  BY <1>2, SMT DEF LittleEndian
<1> QED
  BY <1>1, <1>3, PowersOf256, SMT

\* Where the bytes of a word are, Signed32 reads the word.
LEMMA ReadsWord ==
  ASSUME NEW c, NEW p \in Nat, NEW v \in Word32, Has(c, p, LittleEndian(v, 4))
  PROVE Signed32(c, p) = v /\ p + 4 <= Len(c)
<1>1. v \in Int
  BY WordIsInteger
<1>2. Len(LittleEndian(v, 4)) = 4
  BY <1>1, LittleEndianBytes
<1>3. /\ p + 4 <= Len(c)
      /\ At(c, p + 1 - 1) = LittleEndian(v, 4)[1] /\ At(c, p + 2 - 1) = LittleEndian(v, 4)[2]
      /\ At(c, p + 3 - 1) = LittleEndian(v, 4)[3] /\ At(c, p + 4 - 1) = LittleEndian(v, 4)[4]
  BY <1>2, SMT DEF Has
<1>4. p + 1 - 1 = p /\ p + 2 - 1 = p + 1 /\ p + 3 - 1 = p + 2 /\ p + 4 - 1 = p + 3
  BY SMT
<1>5. /\ At(c, p) = LittleEndian(v, 4)[1] /\ At(c, p + 1) = LittleEndian(v, 4)[2]
      /\ At(c, p + 2) = LittleEndian(v, 4)[3] /\ At(c, p + 3) = LittleEndian(v, 4)[4]
  BY <1>3, <1>4
<1>6. /\ At(c, p) = v % 256 /\ At(c, p + 1) = (v \div 256) % 256
      /\ At(c, p + 2) = (v \div 65536) % 256 /\ At(c, p + 3) = (v \div 16777216) % 256
  BY ONLY <1>1, <1>5, WordBytes, SMT
<1>7. Signed32(c, p) = At(c, p) + 256 * At(c, p + 1) + 65536 * At(c, p + 2)
                         + 16777216 * Signed8(At(c, p + 3))
  BY SMT DEF Signed32, Unsigned16
<1> QED
  BY <1>3, <1>6, <1>7, WordFromBytes, SMT

\* Where the byte of a small number is, Signed8 reads the number.
LEMMA ReadsByte ==
  ASSUME NEW c, NEW p \in Nat, NEW v, SInt8(v), Has(c, p, LittleEndian(v, 1))
  PROVE Signed8(At(c, p)) = v /\ p + 1 <= Len(c)
<1>1. v \in Int
  BY SMT DEF SInt8
<1>2. Len(LittleEndian(v, 1)) = 1
  BY <1>1, LittleEndianBytes
<1>3. p + 1 <= Len(c) /\ At(c, p + 1 - 1) = LittleEndian(v, 1)[1]
  <2>1. 1 \in 1 .. 1
    BY SMT
  <2> QED
    BY <1>2, <2>1 DEF Has
<1>4. p + 1 - 1 = p
  BY SMT
<1>5. At(c, p) = LittleEndian(v, 1)[1]
  BY <1>3, <1>4
<1>6. At(c, p) = v % 256
  BY <1>1, <1>5, OneByte
<1> QED
  BY <1>3, <1>6, ByteFromByte

-----------------------------------------------------------------------------
(* Bytes one after the other. *)
LEMMA BytesAreIntegers == Byte \subseteq Int
BY DEF Byte

\* What At reads is a byte, past the end too.
LEMMA AtIsByte ==
  ASSUME NEW c \in Seq(Byte), NEW k \in Nat
  PROVE At(c, k) \in Byte
<1>1. CASE k < Len(c)
  <2>1. k + 1 \in 1 .. Len(c)
    BY <1>1, LenProperties, SMT
  <2>2. c[k + 1] \in Byte
    BY <2>1, ElementOfSeq
  <2> QED
    BY <1>1, <2>2 DEF At
<1>2. CASE ~(k < Len(c))
  BY <1>2, SMT DEF At, Byte
<1> QED
  BY <1>1, <1>2

\* Bytes that hold a concatenation hold its two parts, one after the other.
LEMMA HasConcat ==
  ASSUME NEW c \in Seq(Byte), NEW p \in Nat, NEW s \in Seq(Byte), NEW t \in Seq(Byte),
         Has(c, p, s \o t)
  PROVE Has(c, p, s) /\ Has(c, p + Len(s), t)
<1>1. /\ Len(s) \in Nat /\ Len(t) \in Nat /\ Len(c) \in Nat
      /\ Len(s \o t) = Len(s) + Len(t)
      /\ \A k \in 1 .. Len(s) : (s \o t)[k] = s[k]
      /\ \A k \in 1 .. Len(t) : (s \o t)[Len(s) + k] = t[k]
  <2>1. Len(s) \in Nat /\ Len(t) \in Nat /\ Len(c) \in Nat
    BY LenProperties
  <2>2. Len(s \o t) = Len(s) + Len(t)
    BY ConcatProperties
  <2>3. \A i \in 1 .. Len(s) + Len(t) :
          (s \o t)[i] = IF i <= Len(s) THEN s[i] ELSE t[i - Len(s)]
    BY ConcatProperties
  <2>4. \A k \in 1 .. Len(s) : (s \o t)[k] = s[k]
    BY <2>1, <2>3
  <2>5. ASSUME NEW k \in 1 .. Len(t) PROVE (s \o t)[Len(s) + k] = t[k]
    <3>1. /\ Len(s) + k \in 1 .. Len(s) + Len(t) /\ ~(Len(s) + k <= Len(s))
          /\ (Len(s) + k) - Len(s) = k
      BY <2>1, SMT
    <3> QED
      BY <2>3, <3>1
  <2> QED
    BY <2>1, <2>2, <2>4, <2>5
<1>2. p + (Len(s) + Len(t)) <= Len(c)
  BY <1>1 DEF Has
<1>3. ASSUME NEW k \in 1 .. Len(s) PROVE At(c, p + k - 1) = s[k]
  <2>1. k \in 1 .. Len(s) + Len(t)
    BY <1>1
  <2> QED
    BY <1>1, <2>1 DEF Has
<1>4. ASSUME NEW k \in 1 .. Len(t) PROVE At(c, (p + Len(s)) + k - 1) = t[k]
  <2>1. Len(s) + k \in 1 .. Len(s) + Len(t)
    BY <1>1
  <2>2. At(c, p + (Len(s) + k) - 1) = t[k]
    BY <1>1, <2>1 DEF Has
  <2>3. p + (Len(s) + k) - 1 = (p + Len(s)) + k - 1
    BY <1>1
  <2> QED
    BY <2>2, <2>3
<1>5. p + Len(s) <= Len(c) /\ (p + Len(s)) + Len(t) <= Len(c)
  BY <1>1, <1>2
<1> QED
  BY <1>3, <1>4, <1>5 DEF Has

\* The length of a concatenation.
LEMMA ConcatLen ==
  ASSUME NEW s \in Seq(Byte), NEW t \in Seq(Byte), NEW n, Len(t) = n
  PROVE s \o t \in Seq(Byte) /\ Len(s \o t) = Len(s) + n
BY ConcatProperties

\* Where a one-byte string is, its byte is.
LEMMA HasOne ==
  ASSUME NEW c \in Seq(Byte), NEW p \in Nat, NEW b, Has(c, p, <<b>>)
  PROVE At(c, p) = b /\ p + 1 <= Len(c)
<1>1. Len(<<b>>) = 1 /\ 1 \in 1 .. 1 /\ <<b>>[1] = b
  OBVIOUS
<1>2. At(c, p + 1 - 1) = b /\ p + 1 <= Len(c)
  BY <1>1 DEF Has
<1>3. p + 1 - 1 = p
  OBVIOUS
<1> QED
  BY <1>2, <1>3

\* A string with bytes is not empty.
LEMMA NotEmpty == ASSUME NEW s, Len(s) # 0 PROVE s # <<>>
BY Len(<<>>) = 0, Zenon

\* Where a two-byte string is, its bytes are.
LEMMA HasTwo ==
  ASSUME NEW c \in Seq(Byte), NEW p \in Nat, NEW a, NEW b, Has(c, p, <<a, b>>)
  PROVE At(c, p) = a /\ At(c, p + 1) = b /\ p + 2 <= Len(c)
<1>1. /\ Len(<<a, b>>) = 2 /\ 1 \in 1 .. 2 /\ 2 \in 1 .. 2
      /\ <<a, b>>[1] = a /\ <<a, b>>[2] = b
  OBVIOUS
<1>2. At(c, p + 1 - 1) = a /\ At(c, p + 2 - 1) = b /\ p + 2 <= Len(c)
  BY <1>1 DEF Has
<1>3. p + 1 - 1 = p /\ p + 2 - 1 = p + 1
  OBVIOUS
<1> QED
  BY <1>2, <1>3

\* The first of some numbers.
LEMMA FirstNumber ==
  ASSUME NEW S \in SUBSET Nat, S # {}
  PROVE \E x \in S : \A y \in S : x <= y
<1> DEFINE Before == OpToRel(<, Nat)
<1>1. PICK x \in S : \A y \in S : ~(<<y, x>> \in Before)
  <2>1. IsWellFoundedOn(Before, Nat)
    BY NatLessThanWellFounded
  <2> HIDE DEF Before
  <2> QED
    BY <2>1, WFMin
<1>2. \A y \in S : ~(y < x)
  <2>1. ASSUME NEW y \in S, y < x PROVE <<y, x>> \in Before
    <3>1. <<y, x>> \in Nat \X Nat
      OBVIOUS
    <3> QED
      BY <2>1, <3>1 DEF OpToRel
  <2> QED
    BY <1>1, <2>1
<1> QED
  BY <1>2

-----------------------------------------------------------------------------
(* decode_at: what has been read is inside the code.                       *)
Fields == DOMAIN Decoded

\* The fields of the record decode_at fills in.
LEMMA FieldNames ==
  /\ Decoded.ok = TRUE /\ Decoded.memory = FALSE /\ Decoded.group = 0 /\ Decoded.p = 0
  /\ {"ok", "marker", "reg", "rm", "index", "scale", "disp", "memory", "vector",
      "vector_memory", "int_to_fp", "fp_to_int", "scalar_fp", "scalar_fp_bytes", "third",
      "immediate", "system_register", "group", "sub", "opcode", "size", "has_orex",
      "has_vector", "width", "mod", "p"} = Fields
BY DEF Fields, Decoded

\* A stage of decode_at threw, or has read up to d.p, which is not beyond the code.
Within(c, d) ==
  d = Throws \/ (DOMAIN d = Fields /\ d.ok = TRUE /\ d.p \in Nat /\ d.p <= Len(c))

\* What decode_at throws is no instruction.
LEMMA ThrowsNothing == Throws.ok = FALSE
BY DEF Throws

\* The marker and the prefix end before the opcode.
LEMMA MarkerWithin ==
  ASSUME NEW c \in Seq(Byte), NEW start \in Nat
  PROVE Within(c, ReadMarkerAndControl(c, start))
<1> DEFINE marked == At(c, start) = 253
           from == IF marked THEN start + 2 ELSE start
           prefixed == At(c, from) = 254
           p == IF prefixed THEN from + 2 ELSE from
           d == ReadMarkerAndControl(c, start)
<1>1. from \in Nat /\ p \in Nat /\ Len(c) \in Nat
  BY LenProperties
<1>2. \/ d = Throws
      \/ p < Len(c) /\ DOMAIN d = Fields /\ d.ok = TRUE /\ d.p = p + 1
  <2> DEFINE control == IF prefixed THEN At(c, from + 1) ELSE 0
             bad == \/ marked /\ (~Holds(c, start, 2) \/ At(c, start + 1) \notin 1 .. 10)
                    \/ prefixed /\ ~Holds(c, from, 2)
                    \/ p >= Len(c)
             opened == [Decoded EXCEPT !.marker = IF marked THEN At(c, start + 1) ELSE 0,
                          !.p = p + 1, !.opcode = At(c, p), !.has_orex = control >= 128,
                          !.has_vector = (control \div 64) % 2 = 1,
                          !.width = (control \div 8) % 8]
  <2>1. d = IF bad THEN Throws ELSE opened
    BY DEF ReadMarkerAndControl
  <2>2. DOMAIN opened = Fields /\ opened.ok = TRUE /\ opened.p = p + 1
    <3> HIDE DEF p, from, prefixed, marked, control
    <3> QED
      BY FieldNames DEF Fields
  <2>3. ~(p >= Len(c)) => p < Len(c)
    BY <1>1
  <2> HIDE DEF p, d, opened
  <2> QED
    BY <2>1, <2>2, <2>3
<1> HIDE DEF p, d
<1> QED
  BY <1>1, <1>2 DEF Within, d

\* The group and the sub-opcode are inside the code.
LEMMA ExtensionWithin ==
  ASSUME NEW c \in Seq(Byte), NEW d, Within(c, d)
  PROVE Within(c, ReadExtension(c, d))
<1>1. CASE ReadExtension(c, d) \in {d, Throws}
  BY <1>1 DEF Within
<1>2. CASE ~(ReadExtension(c, d) \in {d, Throws})
  <2>1. /\ d.ok /\ Holds(c, d.p, 2)
        /\ DOMAIN ReadExtension(c, d) = DOMAIN d
        /\ d # Throws /\ DOMAIN d = Fields
        /\ ReadExtension(c, d).ok = d.ok /\ ReadExtension(c, d).p = d.p + 2
    BY <1>2, FieldNames, ThrowsNothing DEF ReadExtension, Within
  <2> QED
    BY <2>1, LenProperties DEF Within, Holds
<1> QED
  BY <1>1, <1>2

\* The displacement of a direct branch is inside the code.
LEMMA DirectWithin ==
  ASSUME NEW c \in Seq(Byte), NEW d, Within(c, d), d.ok
  PROVE Within(c, ReadDirect(c, d))
<1>1. DOMAIN d = Fields /\ d.ok = TRUE /\ d.p \in Nat /\ d.p <= Len(c)
  BY ThrowsNothing DEF Within
<1>2. CASE d.opcode \in DirectOps /\ Holds(c, d.p, 4)
  BY <1>1, <1>2, FieldNames, LenProperties DEF Within, ReadDirect, Holds
<1> QED
  BY <1>2 DEF ReadDirect, Within

\* ModR/M, SIB and OREX are inside the code.
LEMMA FieldsWithin ==
  ASSUME NEW c \in Seq(Byte), NEW d, Within(c, d), d.ok
  PROVE Within(c, ReadFields(c, d))
<1> DEFINE modrm == At(c, d.p)
           memory == modrm \div 64 # 3
           sib == memory /\ modrm % 8 = 4
           after == d.p + (IF sib THEN 2 ELSE 1)
           f == ReadFields(c, d)
<1>1. DOMAIN d = Fields /\ d.ok = TRUE /\ d.p \in Nat /\ d.p <= Len(c) /\ Len(c) \in Nat
  BY ThrowsNothing, LenProperties DEF Within
<1>2. \/ f = Throws
      \/ /\ d.p < Len(c) /\ (sib => Holds(c, d.p, 2)) /\ (d.has_orex => after < Len(c))
         /\ DOMAIN f = Fields /\ f.ok = TRUE
         /\ f.p = after + (IF d.has_orex THEN 1 ELSE 0)
  BY <1>1, FieldNames DEF ReadFields
<1> HIDE DEF sib, f
<1>3. CASE f = Throws
  BY <1>3 DEF Within, f
<1>4. CASE f # Throws
  <2>1. after \in Nat /\ after <= Len(c)
    BY <1>1, <1>2, <1>4 DEF Holds
  <2>2. f.p \in Nat /\ f.p <= Len(c)
    BY <1>1, <1>2, <1>4, <2>1
  <2> QED
    BY <1>2, <1>4, <2>2 DEF Within, f
<1> QED
  BY <1>3, <1>4

\* The bytes of a system register or a register branch are inside the code.
LEMMA OperandBytesWithin ==
  ASSUME NEW c \in Seq(Byte), NEW d, Within(c, d)
  PROVE Within(c, ReadOperandBytes(c, d))
<1>1. CASE ReadOperandBytes(c, d) \in {d, Throws}
  BY <1>1 DEF Within
<1>2. CASE ~(ReadOperandBytes(c, d) \in {d, Throws})
  <2>1. d # Throws /\ DOMAIN d = Fields /\ d.ok = TRUE /\ d.p \in Nat
    BY <1>2, ThrowsNothing DEF ReadOperandBytes, Within
  <2>2. PICK n \in {2, 4} :
          /\ Holds(c, d.p, n)
          /\ DOMAIN ReadOperandBytes(c, d) = DOMAIN d
          /\ ReadOperandBytes(c, d).ok = d.ok /\ ReadOperandBytes(c, d).p = d.p + n
    BY <1>2, <2>1, FieldNames DEF ReadOperandBytes
  <2> QED
    BY <2>1, <2>2, LenProperties DEF Within, Holds
<1> QED
  BY <1>1, <1>2

\* VectorCtl and XOP are inside the code.
LEMMA VectorControlWithin ==
  ASSUME NEW c \in Seq(Byte), NEW d, Within(c, d)
  PROVE Within(c, ReadVectorControl(c, d))
<1> DEFINE f == ReadVectorControl(c, d)
<1>1. CASE f \in {d, Throws}
  BY <1>1 DEF Within
<1>2. CASE ~(f \in {d, Throws})
  <2>1. d # Throws /\ DOMAIN d = Fields /\ d.ok = TRUE /\ d.p \in Nat /\ Len(c) \in Nat
    BY <1>2, ThrowsNothing, LenProperties DEF ReadVectorControl, Within
  <2>2. /\ DOMAIN f = DOMAIN d /\ f.ok = d.ok
        /\ \/ f.p = d.p + 1 /\ ~(d.p >= Len(c))
           \/ f.p = (d.p + 1) + 1 /\ Holds(c, d.p, 2)
    BY <1>2, <2>1, FieldNames DEF ReadVectorControl
  <2> QED
    BY <2>1, <2>2 DEF Within, Holds
<1> QED
  BY <1>1, <1>2

\* The immediate of a move is inside the code.
LEMMA ImmediateWithin ==
  ASSUME NEW c \in Seq(Byte), NEW d, Within(c, d)
  PROVE Within(c, ReadImmediate(c, d))
<1>1. CASE ReadImmediate(c, d) \in {d, Throws}
  BY <1>1 DEF Within
<1>2. CASE ~(ReadImmediate(c, d) \in {d, Throws})
  <2>1. /\ d # Throws /\ DOMAIN d = Fields /\ d.ok = TRUE /\ d.p \in Nat
        /\ Holds(c, d.p, 8)
    BY <1>2, ThrowsNothing DEF ReadImmediate, Within
  <2>2. /\ DOMAIN ReadImmediate(c, d) = DOMAIN d
        /\ ReadImmediate(c, d).ok = d.ok /\ ReadImmediate(c, d).p = d.p + 8
    BY <1>2, <2>1, FieldNames DEF ReadImmediate
  <2> QED
    BY <2>1, <2>2, LenProperties DEF Within, Holds
<1> QED
  BY <1>1, <1>2

\* The displacement of an address is inside the code.
LEMMA OffsetWithin ==
  ASSUME NEW c \in Seq(Byte), NEW d, Within(c, d)
  PROVE Within(c, ReadOffset(c, d))
<1>1. CASE ReadOffset(c, d) \in {d, Throws}
  BY <1>1 DEF Within
<1>2. CASE ~(ReadOffset(c, d) \in {d, Throws})
  <2>1. d # Throws /\ DOMAIN d = Fields /\ d.ok = TRUE /\ d.p \in Nat
    BY <1>2, ThrowsNothing DEF ReadOffset, Within
  <2>2. PICK n \in {1, 4} :
          /\ Holds(c, d.p, n)
          /\ DOMAIN ReadOffset(c, d) = DOMAIN d
          /\ ReadOffset(c, d).ok = d.ok /\ ReadOffset(c, d).p = d.p + n
    BY <1>2, <2>1, FieldNames DEF ReadOffset
  <2> QED
    BY <2>1, <2>2, LenProperties DEF Within, Holds
<1> QED
  BY <1>1, <1>2

\* decode_at reads nothing beyond the code: an instruction it accepts ends inside.
LEMMA DecodeStaysInside ==
  ASSUME NEW c \in Seq(Byte), NEW start \in Nat, DecodeAt(c, start).ok
  PROVE start + DecodeAt(c, start).size <= Len(c) /\ start + DecodeAt(c, start).size \in Nat
<1>1. PICK d : d = ReadExtension(c, ReadMarkerAndControl(c, start))
  OBVIOUS
<1>2. Within(c, d)
  BY <1>1, MarkerWithin, ExtensionWithin
<1>3. PICK r : r = ReadRest(c, d) /\ DecodeAt(c, start) = Sized(r, start)
  BY <1>1 DEF DecodeAt
<1>4. Within(c, r)
  <2>1. CASE ~d.ok
    BY <1>2, <1>3, <2>1 DEF ReadRest
  <2>2. CASE d.ok /\ HasNoModRM(d)
    BY <1>2, <1>3, <2>2, DirectWithin DEF ReadRest
  <2>3. CASE d.ok /\ ~HasNoModRM(d)
    BY <1>2, <1>3, <2>3, FieldsWithin, OperandBytesWithin, VectorControlWithin,
       ImmediateWithin, OffsetWithin DEF ReadRest, ReadForms
  <2> QED
    BY <2>1, <2>2, <2>3
<1>5. r.ok
  BY <1>3 DEF Sized
<1>6. DOMAIN r = Fields /\ r.p \in Nat /\ r.p <= Len(c)
  BY <1>4, <1>5, ThrowsNothing DEF Within
<1>7. DecodeAt(c, start).size = r.p - start
  BY <1>3, <1>5, <1>6, FieldNames DEF Sized
<1> QED
  BY <1>6, <1>7

-----------------------------------------------------------------------------
(* The instruction table.                                                  *)
LEMMA OpcodeRange == \A n \in DOMAIN Opcodes : Opcodes[n][1] \in Byte
BY SMTT(60) DEF Opcodes, Byte

\* Every instruction of the opcode map has a class with operand kinds.
LEMMA OpcodeClass == \A n \in DOMAIN Opcodes : Opcodes[n][2] \in DOMAIN OperandKinds
BY SMTT(60) DEF Opcodes, OperandKinds

\* The opcodes of the scalar variants are bytes, their widths ScalarWidth's.
LEMMA VariantRange == \A n \in DOMAIN Variants : Variants[n][1] \in Byte /\ Variants[n][3] \in {0, 3, 5}
BY SMT DEF Variants, Byte

\* Every scalar variant has a class with operand kinds.
LEMMA VariantClass == \A n \in DOMAIN Variants : Variants[n][2] \in DOMAIN OperandKinds
BY SMT DEF Variants, OperandKinds

\* The classes with a form are those with operand kinds.
LEMMA SameClasses == DOMAIN Class = DOMAIN OperandKinds
BY SMT DEF Class, OperandKinds

\* There are five extension groups and the base map.
LEMMA ClassGroup == \A c \in DOMAIN Class : Class[c][1] \in 0 .. 5
BY SMT DEF Class

\* The record of an instruction.
LEMMA RecordFields ==
  ASSUME NEW n \in DOMAIN Records
  PROVE /\ n \in DOMAIN Opcodes => /\ OpcodeOf(n) = Opcodes[n][1] /\ ClassOf(n) = Opcodes[n][2]
                                   /\ WidthOf(n) = 0
        /\ n \notin DOMAIN Opcodes =>
             /\ n \in DOMAIN Variants
             /\ OpcodeOf(n) = Variants[n][1] /\ ClassOf(n) = Variants[n][2]
             /\ WidthOf(n) = Variants[n][3]
<1>1. DOMAIN Records = DOMAIN Opcodes \cup DOMAIN Variants
  BY Zenon DEF Records
<1>2. Records[n] = IF n \in DOMAIN Opcodes THEN <<Opcodes[n][1], Opcodes[n][2], 0>> ELSE Variants[n]
  BY <1>1, Zenon DEF Records
<1> QED
  BY <1>1, <1>2 DEF OpcodeOf, ClassOf, WidthOf

\* Opcode, width, group and class of a record.
LEMMA RecordRange ==
  ASSUME NEW n \in DOMAIN Records
  PROVE /\ OpcodeOf(n) \in Byte /\ WidthOf(n) \in {0, 3, 5} /\ GroupOf(n) \in 0 .. 5
        /\ ClassOf(n) \in DOMAIN Class
<1>1. OpcodeOf(n) \in Byte /\ WidthOf(n) \in {0, 3, 5} /\ ClassOf(n) \in DOMAIN Class
  BY RecordFields, OpcodeRange, OpcodeClass, VariantRange, VariantClass, SameClasses
<1> QED
  BY <1>1, ClassGroup DEF GroupOf

-----------------------------------------------------------------------------
(* Byte strings of the emitter.                                            *)
LEMMA NoBytes == <<>> \in Seq(Byte) /\ Len(<<>>) = 0
OBVIOUS

\* One byte is a byte string.
LEMMA SingleByte == ASSUME NEW b \in Byte PROVE <<b>> \in Seq(Byte) /\ Len(<<b>>) = 1
OBVIOUS

\* Two bytes are a byte string.
LEMMA TwoBytes ==
  ASSUME NEW a \in Byte, NEW b \in Byte PROVE <<a, b>> \in Seq(Byte) /\ Len(<<a, b>>) = 2
OBVIOUS

\* Three bytes are a byte string.
LEMMA ThreeBytes ==
  ASSUME NEW a \in Byte, NEW b \in Byte, NEW c \in Byte
  PROVE <<a, b, c>> \in Seq(Byte) /\ Len(<<a, b, c>>) = 3
OBVIOUS

\* Byte strings one after the other are a byte string.
LEMMA Concat ==
  ASSUME NEW s \in Seq(Byte), NEW t \in Seq(Byte)
  PROVE s \o t \in Seq(Byte) /\ Len(s \o t) = Len(s) + Len(t) /\ Len(s) \in Nat /\ Len(t) \in Nat
BY ConcatProperties, LenProperties

\* The opcode of an instruction, with its group if it has one, is one byte or more.
LEMMA OpcodeString ==
  ASSUME NEW i, i.name \in DOMAIN Records
  PROVE OpcodeBytes(i) \in Seq(Byte) /\ Len(OpcodeBytes(i)) > 0
<1>1. OpcodeOf(i.name) \in Byte /\ GroupOf(i.name) \in Byte /\ 255 \in Byte
  BY RecordRange DEF Byte
<1> QED
  BY <1>1, SingleByte, ThreeBytes DEF OpcodeBytes

\* The FE prefix is bytes.
LEMMA PrefixString ==
  ASSUME NEW extended \in BOOLEAN, NEW control \in 0 .. 127
  PROVE Prefix(extended, control) \in Seq(Byte)
<1>1. 254 \in Byte /\ control + Bit(extended, 128) \in Byte
  BY DEF Byte, Bit
<1> QED
  BY <1>1, NoBytes, TwoBytes DEF Prefix

\* A register number is the three bits of its field and the two of OREX.
LEMMA RegisterParts ==
  ASSUME NEW r \in 0 .. 31
  PROVE Low3(r) \in 0 .. 7 /\ High2(r) \in 0 .. 3 /\ r = 8 * High2(r) + Low3(r)
BY DEF Low3, High2

\* The bytes of ModR/M, SIB and OREX.
LEMMA FieldBytes ==
  ASSUME NEW a \in 0 .. 31, NEW b \in 0 .. 31, NEW c \in 0 .. 31, NEW k \in 0 .. 3
  PROVE /\ 64 * k + 8 * Low3(a) + Low3(b) \in Byte /\ 64 * k + 8 * Low3(a) + 4 \in Byte
        /\ 192 + 8 * Low3(a) + Low3(b) \in Byte
        /\ High2(a) + 4 * High2(b) \in Byte
        /\ High2(a) + (16 * High2(b) + 64 * High2(c)) \in Byte
<1>1. /\ Low3(a) \in 0 .. 7 /\ Low3(b) \in 0 .. 7 /\ High2(a) \in 0 .. 3
      /\ High2(b) \in 0 .. 3 /\ High2(c) \in 0 .. 3
  BY RegisterParts
<1> QED
  BY <1>1 DEF Byte

\* An instruction between registers is bytes.
LEMMA RegFormString ==
  ASSUME NEW control \in 0 .. 127, NEW opcode \in Seq(Byte), Len(opcode) > 0,
         NEW reg \in 0 .. 31, NEW rm \in 0 .. 31, NEW tail \in Seq(Byte)
  PROVE RegForm(control, opcode, reg, rm, tail) \in Seq(Byte)
        /\ Len(RegForm(control, opcode, reg, rm, tail)) > 0
<1> DEFINE extended == reg > 7 \/ rm > 7
           orex == IF extended THEN <<High2(reg) + 4 * High2(rm)>> ELSE <<>>
           modrm == <<192 + 8 * Low3(reg) + Low3(rm)>>
<1>1. Prefix(extended, control) \in Seq(Byte)
  BY PrefixString
<1>2. modrm \in Seq(Byte) /\ orex \in Seq(Byte)
  <2>1. 0 \in 0 .. 3
    OBVIOUS
  <2>2. 192 + 8 * Low3(reg) + Low3(rm) \in Byte /\ High2(reg) + 4 * High2(rm) \in Byte
    BY <2>1, FieldBytes
  <2> HIDE DEF extended
  <2> QED
    BY <2>2, SingleByte, NoBytes
<1>3. RegForm(control, opcode, reg, rm, tail)
        = (((Prefix(extended, control) \o opcode) \o modrm) \o orex) \o tail
  BY Zenon DEF RegForm
<1> HIDE DEF extended, orex, modrm
<1> QED
  BY <1>1, <1>2, <1>3, Concat

\* What an emitter returns that leaves no fixup: an error, or bytes.
Solid(r) == r.ok => r.bytes \in Seq(Byte) /\ Len(r.bytes) > 0 /\ r.fixups = <<>>

\* Bytes without fixups, tested or not, are an instruction without label.
LEMMA SolidBytes ==
  ASSUME NEW bytes \in Seq(Byte), Len(bytes) > 0
  PROVE Solid(Bytes(bytes)) /\ \A fits : Solid(EmitIf(fits, bytes))
BY DEF Solid, Bytes, Emitted, EmitIf, Rejected

\* A rejected instruction emits nothing.
LEMMA SolidRejected == Solid(Rejected) /\ ~Rejected.ok
BY DEF Solid, Rejected

\* A tested instruction is emitted only if the test holds.
LEMMA EmitIfFits ==
  ASSUME NEW bytes, NEW fits \in BOOLEAN PROVE EmitIf(fits, bytes).ok => fits
BY DEF EmitIf, Rejected

\* A register form with its opcode emits bytes and no fixup.
LEMMA SolidRegForm ==
  ASSUME NEW i, i.name \in DOMAIN Records, NEW control \in 0 .. 127,
         NEW reg \in 0 .. 31, NEW rm \in 0 .. 31, NEW tail \in Seq(Byte)
  PROVE /\ Solid(Bytes(RegForm(control, OpcodeBytes(i), reg, rm, tail)))
        /\ \A fits : Solid(EmitIf(fits, RegForm(control, OpcodeBytes(i), reg, rm, tail)))
<1>1. PICK s : s = RegForm(control, OpcodeBytes(i), reg, rm, tail)
  OBVIOUS
<1>2. s \in Seq(Byte) /\ Len(s) > 0
  BY <1>1, RegFormString, OpcodeString
<1> QED
  BY <1>1, <1>2, SolidBytes

\* A memory form emits bytes and no fixup, whatever base, index and displacement.
LEMMA SolidMemForm ==
  ASSUME NEW i, i.name \in DOMAIN Records, NEW control \in 0 .. 127,
         NEW reg \in 0 .. 31, NEW mem, mem[1][2] \in 0 .. 31, mem[2][2] \in 0 .. 31,
         NEW middle \in Seq(Byte)
  PROVE Solid(MemForm(control, OpcodeBytes(i), reg, mem, middle))
<1> DEFINE base == mem[1][2]
           indexed == HasIndex(mem[2])
           index == IF indexed THEN mem[2][2] ELSE 4
           disp == mem[4][2]
           sib == indexed \/ Low3(base) = 4
           mod == IF disp = 0 /\ Low3(base) # 5 THEN 0 ELSE IF SInt8(disp) THEN 1 ELSE 2
           extended == reg > 7 \/ base > 7 \/ (indexed /\ index > 7)
           orex == High2(reg) + (IF sib THEN 16 * High2(index) + 64 * High2(base)
                                   ELSE 4 * High2(base))
           modrm == <<64 * mod + 8 * Low3(reg) + (IF sib THEN 4 ELSE Low3(base))>>
           sibs == IF sib THEN <<64 * ScaleBits(mem[3][2]) + 8 * Low3(index) + Low3(base)>>
                       ELSE <<>>
           orexes == IF extended THEN <<orex>> ELSE <<>>
           tail == CASE mod = 0 -> <<>>
                  [] mod = 1 -> LittleEndian(disp, 1)
                  [] mod = 2 -> LittleEndian(disp, 4)
           bytes == (((((Prefix(extended, control) \o OpcodeBytes(i)) \o modrm) \o sibs)
                      \o orexes) \o middle) \o tail
<1>1. MemForm(control, OpcodeBytes(i), reg, mem, middle)
        = IF ~SInt32(mem[4]) THEN Rejected ELSE Bytes(bytes)
  BY Zenon DEF MemForm
<1>2. CASE ~SInt32(mem[4])
  BY <1>1, <1>2, SolidRejected
<1>3. CASE SInt32(mem[4])
  <2>1. disp \in Int
    BY <1>3 DEF SInt32, Word32
  <2>2. mod \in {0, 1, 2} /\ index \in 0 .. 31
    OBVIOUS
  <2>3. ScaleBits(mem[3][2]) \in 0 .. 3
    BY DEF ScaleBits
  <2>4. modrm \in Seq(Byte)
    <3>1. mod \in 0 .. 3
      BY <2>2
    <3> HIDE DEF mod, sib
    <3> QED
      BY <3>1, FieldBytes, SingleByte
  <2>5. sibs \in Seq(Byte)
    <3>1. 64 * ScaleBits(mem[3][2]) + 8 * Low3(index) + Low3(base) \in Byte
      <4> HIDE DEF index
      <4> QED
        BY <2>2, <2>3, FieldBytes
    <3> HIDE DEF sib, index, base
    <3> QED
      BY <3>1, SingleByte, NoBytes
  <2>6. orexes \in Seq(Byte)
    <3>1. 0 \in 0 .. 3
      OBVIOUS
    <3>2. orex \in Byte
      <4> HIDE DEF sib, index
      <4> QED
        BY <2>2, <3>1, FieldBytes
    <3> HIDE DEF orex, extended
    <3> QED
      BY <3>2, SingleByte, NoBytes
  <2>7. tail \in Seq(Byte)
    <3> HIDE DEF mod, disp
    <3> QED
      BY <2>1, <2>2, LittleEndianBytes, NoBytes
  <2>8. Prefix(extended, control) \in Seq(Byte)
    BY PrefixString
  <2>9. OpcodeBytes(i) \in Seq(Byte) /\ Len(OpcodeBytes(i)) > 0
    BY OpcodeString
  <2> HIDE DEF modrm, sibs, orexes, tail, extended
  <2>10. bytes \in Seq(Byte) /\ Len(bytes) > 0
    BY <2>4, <2>5, <2>6, <2>7, <2>8, <2>9, Concat
  <2> HIDE DEF bytes
  <2> QED
    BY <1>1, <1>3, <2>10, SolidBytes
<1> QED
  BY <1>2, <1>3

-----------------------------------------------------------------------------
(* The operands of a matched instruction: what an emitter finds at a       *)
(* place.                                                                  *)
HoldsReg(ops, k) == ops[k][1] \in {"r", "v"} /\ ops[k][2] \in 0 .. 31
HoldsValue(ops, k) ==
  ops[k][1] = "x" \/ (ops[k][1] = "i" /\ ops[k][2] \in Word32 /\ ops[k][3] \in Word32)
HoldsMem(ops, k) == HoldsReg(ops, k) /\ HoldsReg(ops, k + 1)

\* The four operands of an address.
LEMMA MemParts ==
  ASSUME NEW i, NEW k \in Nat \ {0}
  PROVE /\ Mem(i, k)[1] = i.ops[k] /\ Mem(i, k)[2] = i.ops[k + 1]
        /\ Mem(i, k)[3] = i.ops[k + 2] /\ Mem(i, k)[4] = i.ops[k + 3]
BY DEF Mem

\* A memory form of an instruction's own operands emits bytes and no fixup.
LEMMA SolidMemory ==
  ASSUME NEW i, i.name \in DOMAIN Records, NEW control \in 0 .. 127,
         NEW reg \in 0 .. 31, NEW k \in Nat \ {0}, HoldsMem(i.ops, k), NEW middle \in Seq(Byte)
  PROVE Solid(MemForm(control, OpcodeBytes(i), reg, Mem(i, k), middle))
<1>1. Mem(i, k)[1][2] \in 0 .. 31 /\ Mem(i, k)[2][2] \in 0 .. 31
  BY MemParts DEF HoldsMem, HoldsReg
<1> QED
  BY <1>1, SolidMemForm

\* The control bytes of the scalar floating-point instructions.
LEMMA Controls ==
  ASSUME NEW i, i.name \in DOMAIN Records
  PROVE /\ ScalarVectorCtl(i) \in 0 .. 127 /\ ScalarOperandControl(i) \in 0 .. 127
        /\ ScalarVectorCtl(i) \in Byte
        /\ 0 \in 0 .. 127 /\ 64 \in 0 .. 127 /\ 24 \in Byte /\ <<24>> \in Seq(Byte)
        /\ <<ScalarVectorCtl(i)>> \in Seq(Byte)
BY RecordRange DEF ScalarVectorCtl, ScalarOperandControl, Byte

\* The number of a register operand is a byte, with the XOP tag too.
LEMMA XopByte ==
  ASSUME NEW i, NEW k, HoldsReg(i.ops, k)
  PROVE /\ Num(i, k) \in 0 .. 31 /\ Num(i, k) \in Byte /\ Num(i, k) + 32 \in Byte
        /\ Xop(Num(i, k)) \in Byte /\ ~IsImm(i.ops[k]) /\ i.ops[k][1] # "x"
BY DEF Num, HoldsReg, Byte, Xop, IsImm

\* The bytes of a value the emitter tests first.
LEMMA ValueBytes1 ==
  ASSUME NEW op
  PROVE /\ UInt(op, 8) => /\ <<op[2] % 256>> \in Seq(Byte) /\ LittleEndian(op[2], 1) \in Seq(Byte)
                          /\ op[2] \in Byte /\ IsImm(op)
        /\ UInt(op, 16) => LittleEndian(op[2], 2) \in Seq(Byte) /\ IsImm(op)
<1>1. UInt(op, 8) => op[2] \in Int /\ op[2] >= 0 /\ IsImm(op) /\ op[2] <= 255
  <2>1. 2 ^ 8 = 256
    BY SMT
  <2> QED
    BY <2>1 DEF UInt
<1>2. UInt(op, 16) => op[2] \in Int /\ IsImm(op)
  BY DEF UInt
<1>3. \A v \in Int : v % 256 \in Byte
  BY DEF Byte
<1>4. \A v \in Int : <<v % 256>> \in Seq(Byte)
  BY <1>3
<1>5. \A v \in Int : LittleEndian(v, 1) \in Seq(Byte) /\ LittleEndian(v, 2) \in Seq(Byte)
  BY LittleEndianBytes
<1>6. UInt(op, 8) => op[2] \in Byte
  BY <1>1 DEF Byte
<1>7. UInt(op, 8) => <<op[2] % 256>> \in Seq(Byte) /\ LittleEndian(op[2], 1) \in Seq(Byte)
  BY <1>1, <1>4, <1>5
<1> QED
  BY <1>1, <1>2, <1>5, <1>6, <1>7

\* An immediate of the width of an address is four bytes or eight.
LEMMA AddressString ==
  ASSUME NEW op, op[2] \in Int, op[3] \in Int, NEW is64 \in BOOLEAN
  PROVE /\ AddressBytes(op, is64) \in Seq(Byte)
        /\ Len(AddressBytes(op, is64)) = IF is64 THEN 8 ELSE 4
<1>1. /\ LittleEndian(op[2], 4) \in Seq(Byte) /\ Len(LittleEndian(op[2], 4)) = 4
      /\ LittleEndian(op[3], 4) \in Seq(Byte) /\ Len(LittleEndian(op[3], 4)) = 4
  BY LittleEndianBytes
<1>2. CASE is64
  <2>1. AddressBytes(op, is64) = LittleEndian(op[2], 4) \o LittleEndian(op[3], 4)
    BY <1>2 DEF AddressBytes
  <2>2. PICK s, t : s = LittleEndian(op[2], 4) /\ t = LittleEndian(op[3], 4)
    OBVIOUS
  <2>3. s \o t \in Seq(Byte) /\ Len(s \o t) = 4 + 4
    BY <1>1, <2>2, Concat
  <2>4. AddressBytes(op, is64) = s \o t
    BY <2>1, <2>2
  <2>5. (IF is64 THEN 8 ELSE 4) = 8
    BY <1>2, Zenon
  <2>6. 4 + 4 = 8
    OBVIOUS
  <2> QED
    BY <2>3, <2>4, <2>5, <2>6
<1>3. CASE ~is64
  <2>1. AddressBytes(op, is64) = LittleEndian(op[2], 4) \o <<>>
    BY <1>3 DEF AddressBytes
  <2> QED
    BY <2>1, <1>1, <1>3, Concat, NoBytes
<1> QED
  BY <1>2, <1>3

-----------------------------------------------------------------------------
(* The emitters that leave no fixup: their bytes, and that a label is not  *)
(* taken where they want a number.                                         *)
LEMMA NoOperandEmits ==
  ASSUME NEW i, i.name \in DOMAIN Records
  PROVE Solid(Bytes(OpcodeBytes(i)))
BY OpcodeString, SolidBytes

\* Gather and scatter emit bytes, and the mask they accept is a number.
LEMMA AVXMemoryEmits ==
  ASSUME NEW i, i.name \in DOMAIN Records,
         IF FormOf(i.name) = "VectorLoad" THEN HoldsReg(i.ops, 1) /\ HoldsMem(i.ops, 2)
                                          ELSE HoldsMem(i.ops, 1) /\ HoldsReg(i.ops, 5)
  PROVE Solid(EmitAVXMemory(i)) /\ (EmitAVXMemory(i).ok => IsImm(i.ops[6]))
<1>1. ASSUME UInt(i.ops[6], 8) PROVE <<24, Num(i, 6)>> \in Seq(Byte) /\ IsImm(i.ops[6])
  BY <1>1, ValueBytes1, Controls, TwoBytes DEF Num
<1>2. PICK k, reg : k \in {1, 2} /\ reg \in 0 .. 31 /\ HoldsMem(i.ops, k)
                    /\ (EmitAVXMemory(i) = Rejected
                        \/ /\ UInt(i.ops[6], 8)
                           /\ EmitAVXMemory(i) = MemForm(64, OpcodeBytes(i), reg, Mem(i, k), <<24, Num(i, 6)>>))
  <2>1. CASE FormOf(i.name) = "VectorLoad"
    <3>1. Num(i, 1) \in 0 .. 31
      BY <2>1, XopByte
    <3> QED
      BY <2>1, <3>1 DEF EmitAVXMemory
  <2>2. CASE FormOf(i.name) # "VectorLoad"
    <3>1. Num(i, 5) \in 0 .. 31
      BY <2>2, XopByte
    <3> QED
      BY <2>2, <3>1 DEF EmitAVXMemory
  <2> QED
    BY <2>1, <2>2
<1>3. k \in Nat \ {0} /\ 64 \in 0 .. 127
  BY <1>2
<1> QED
  BY <1>1, <1>2, <1>3, SolidMemory, SolidRejected

\* The AVX register forms emit bytes; the immediate they accept is a number.
LEMMA AVXRegisterEmits ==
  ASSUME NEW i, i.name \in DOMAIN Records, HoldsReg(i.ops, 1), HoldsReg(i.ops, 2),
         FormOf(i.name) \in {"VBinary", "FPBinary"} => HoldsReg(i.ops, 3)
  PROVE /\ Solid(EmitAVXRegister(i))
        /\ FormOf(i.name) \in {"TernaryByte", "FPBinary"} /\ EmitAVXRegister(i).ok => IsImm(LastOp(i))
<1> DEFINE xop == IF FormOf(i.name) \in {"VBinary", "FPBinary"} THEN <<Xop(Num(i, 3))>> ELSE <<>>
           tail(imm) == <<24>> \o xop \o imm
           body(imm) == RegForm(64, OpcodeBytes(i), Num(i, 1), Num(i, 2), tail(imm))
<1>1. Num(i, 1) \in 0 .. 31 /\ Num(i, 2) \in 0 .. 31 /\ 64 \in 0 .. 127 /\ <<24>> \in Seq(Byte)
  BY XopByte, Controls
<1>2. xop \in Seq(Byte)
  BY XopByte, SingleByte, NoBytes
<1>3. EmitAVXRegister(i) = IF FormOf(i.name) \in {"TernaryByte", "FPBinary"}
                           THEN EmitIf(UInt(LastOp(i), 8), body(<<LastOp(i)[2] % 256>>))
                           ELSE Bytes(body(<<>>))
  BY Zenon DEF EmitAVXRegister
<1>4. ASSUME NEW imm \in Seq(Byte)
      PROVE Solid(Bytes(body(imm))) /\ \A fits : Solid(EmitIf(fits, body(imm)))
  <2>1. tail(imm) \in Seq(Byte)
    <3> HIDE DEF xop
    <3> QED
      BY <1>1, <1>2, Concat
  <2> HIDE DEF tail
  <2> QED
    BY <1>1, <2>1, SolidRegForm
<1> HIDE DEF body
<1>5. CASE ~UInt(LastOp(i), 8) /\ FormOf(i.name) \in {"TernaryByte", "FPBinary"}
  BY <1>3, <1>5, SolidRejected DEF EmitIf
<1>6. CASE UInt(LastOp(i), 8) /\ FormOf(i.name) \in {"TernaryByte", "FPBinary"}
  BY <1>3, <1>4, <1>6, ValueBytes1
<1>7. CASE FormOf(i.name) \notin {"TernaryByte", "FPBinary"}
  BY <1>3, <1>4, <1>7, NoBytes
<1> QED
  BY <1>5, <1>6, <1>7

\* Every AVX instruction emits bytes and no fixup.
LEMMA AVXEmits ==
  ASSUME NEW i, i.name \in DOMAIN Records,
         FormOf(i.name) = "VectorLoad" => HoldsReg(i.ops, 1) /\ HoldsMem(i.ops, 2),
         FormOf(i.name) = "VectorStore" => HoldsMem(i.ops, 1) /\ HoldsReg(i.ops, 5),
         FormOf(i.name) \notin {"VectorLoad", "VectorStore", "NoOperand"} =>
           HoldsReg(i.ops, 1) /\ HoldsReg(i.ops, 2),
         FormOf(i.name) \in {"VBinary", "FPBinary"} => HoldsReg(i.ops, 3)
  PROVE /\ Solid(EmitAVX(i))
        /\ FormOf(i.name) \in {"VectorLoad", "VectorStore"} /\ EmitAVX(i).ok => IsImm(i.ops[6])
        /\ FormOf(i.name) \in {"TernaryByte", "FPBinary"} /\ EmitAVX(i).ok => IsImm(LastOp(i))
<1>1. CASE FormOf(i.name) = "NoOperand"
  BY <1>1, NoOperandEmits DEF EmitAVX
<1>2. CASE FormOf(i.name) \in {"VectorLoad", "VectorStore"}
  <2>1. EmitAVX(i) = EmitAVXMemory(i)
    BY <1>2 DEF EmitAVX
  <2> QED
    BY <1>2, <2>1, AVXMemoryEmits
<1>3. CASE FormOf(i.name) \notin {"VectorLoad", "VectorStore", "NoOperand"}
  <2>1. EmitAVX(i) = EmitAVXRegister(i)
    BY <1>3 DEF EmitAVX
  <2> QED
    BY <1>3, <2>1, AVXRegisterEmits
<1> QED
  BY <1>1, <1>2, <1>3

\* The bytes of the registers after the second.
LEMMA ExtraRegisters ==
  ASSUME NEW i, Len(i.ops) \in Nat, Len(i.ops) >= 2, \A k \in 3 .. Len(i.ops) : HoldsReg(i.ops, k)
  PROVE /\ [k \in 1 .. Len(i.ops) - 2 |-> Num(i, k + 2)] \in Seq(Byte)
        /\ [k \in 1 .. Len(i.ops) - 2 |-> Num(i, k + 2) + 32] \in Seq(Byte)
        /\ [k \in 1 .. Len(i.ops) - 2 |-> Xop(Num(i, k + 2))] \in Seq(Byte)
<1>1. Len(i.ops) - 2 \in Nat
  OBVIOUS
<1>2. ASSUME NEW k \in 1 .. Len(i.ops) - 2
      PROVE Num(i, k + 2) \in Byte /\ Num(i, k + 2) + 32 \in Byte /\ Xop(Num(i, k + 2)) \in Byte
  <2>1. k + 2 \in 3 .. Len(i.ops)
    OBVIOUS
  <2> QED
    BY <2>1, XopByte
<1>3. \A n \in Nat : \A f \in [1 .. n -> Byte] : f \in Seq(Byte)
  BY SeqDef
<1> QED
  BY <1>1, <1>2, <1>3

\* Every DSP instruction emits bytes and no fixup.
LEMMA DSPEmits ==
  ASSUME NEW i, i.name \in DOMAIN Records, HoldsReg(i.ops, 1), HoldsReg(i.ops, 2),
         Len(i.ops) \in Nat, Len(i.ops) >= 2,
         FormOf(i.name) # "TernaryByte" => \A k \in 3 .. Len(i.ops) : HoldsReg(i.ops, k)
  PROVE /\ Solid(EmitDSP(i))
        /\ FormOf(i.name) = "TernaryByte" /\ EmitDSP(i).ok => IsImm(i.ops[3])
<1> DEFINE vector == i.name \in {"DOTP", "SUMDOTP"}
           extras == [k \in 1 .. Len(i.ops) - 2 |-> Num(i, k + 2) + Bit(vector, 32)]
           start == IF vector THEN <<24>> ELSE <<>>
           body(tail) == RegForm(Bit(vector, 64), OpcodeBytes(i), Num(i, 1), Num(i, 2), start \o tail)
<1>1. /\ Num(i, 1) \in 0 .. 31 /\ Num(i, 2) \in 0 .. 31 /\ Bit(vector, 64) \in 0 .. 127
      /\ start \in Seq(Byte)
  BY XopByte, Controls, NoBytes DEF Bit
<1>2. EmitDSP(i) = IF FormOf(i.name) = "TernaryByte"
                   THEN EmitIf(UInt(i.ops[3], 8), body(<<Num(i, 3) % 256>>))
                   ELSE Bytes(body(extras))
  BY Zenon DEF EmitDSP
<1>3. ASSUME NEW tail \in Seq(Byte)
      PROVE Solid(Bytes(body(tail))) /\ \A fits : Solid(EmitIf(fits, body(tail)))
  <2>1. PICK s : s = start \o tail
    OBVIOUS
  <2>2. s \in Seq(Byte)
    <3> HIDE DEF start
    <3> QED
      BY <1>1, <2>1, Concat
  <2> HIDE DEF vector, start
  <2> QED
    BY <1>1, <2>1, <2>2, SolidRegForm
<1>4. CASE FormOf(i.name) = "TernaryByte"
  <2> HIDE DEF body, extras
  <2>1. CASE ~UInt(i.ops[3], 8)
    BY <1>2, <1>4, <2>1, SolidRejected DEF EmitIf
  <2>2. CASE UInt(i.ops[3], 8)
    <3>1. <<Num(i, 3) % 256>> \in Seq(Byte) /\ IsImm(i.ops[3])
      BY <2>2, ValueBytes1 DEF Num
    <3> QED
      BY <1>2, <1>3, <1>4, <3>1
  <2> QED
    BY <2>1, <2>2
<1>5. CASE FormOf(i.name) # "TernaryByte"
  <2>1. extras \in Seq(Byte)
    <3>1. CASE vector
      <4>1. Bit(vector, 32) = 32
        BY <3>1 DEF Bit
      <4> QED
        BY <1>5, <4>1, ExtraRegisters
    <3>2. CASE ~vector
      <4>1. Bit(vector, 32) = 0
        BY <3>2 DEF Bit
      <4>2. \A k \in 1 .. Len(i.ops) - 2 : Num(i, k + 2) + 0 = Num(i, k + 2)
        <5>1. ASSUME NEW k \in 1 .. Len(i.ops) - 2 PROVE Num(i, k + 2) \in Int
          <6>1. PICK j : j = k + 2
            OBVIOUS
          <6>2. j \in 3 .. Len(i.ops)
            BY <6>1
          <6>3. HoldsReg(i.ops, j)
            BY <1>5, <6>2
          <6>4. Num(i, j) \in Int
            <7>1. Num(i, j) \in 0 .. 31
              BY <6>3, XopByte, Zenon
            <7> QED
              BY ONLY <7>1
          <6> QED
            BY <6>1, <6>4
        <5> QED
          BY <5>1
      <4>3. extras = [k \in 1 .. Len(i.ops) - 2 |-> Num(i, k + 2)]
        BY <4>1, <4>2
      <4> QED
        BY <1>5, <4>3, ExtraRegisters
    <3> QED
      BY <3>1, <3>2
  <2> HIDE DEF body, extras
  <2> QED
    BY <1>2, <1>3, <1>5, <2>1
<1> QED
  BY <1>4, <1>5

\* Every crypto instruction emits bytes and no fixup.
LEMMA CryptoEmits ==
  ASSUME NEW i, i.name \in DOMAIN Records, HoldsReg(i.ops, 1), HoldsReg(i.ops, 2),
         Len(i.ops) \in Nat, Len(i.ops) >= 2, \A k \in 3 .. Len(i.ops) : HoldsReg(i.ops, k)
  PROVE Solid(EmitCrypto(i))
<1>1. PICK extras : extras = [k \in 1 .. Len(i.ops) - 2 |-> Xop(Num(i, k + 2))]
  OBVIOUS
<1>2. <<24>> \o extras \in Seq(Byte)
  BY <1>1, ExtraRegisters, Controls, Concat
<1>3. Num(i, 1) \in 0 .. 31 /\ Num(i, 2) \in 0 .. 31 /\ 64 \in 0 .. 127
  BY XopByte
<1>4. EmitCrypto(i) = Bytes(RegForm(64, OpcodeBytes(i), Num(i, 1), Num(i, 2), <<24>> \o extras))
  BY <1>1 DEF EmitCrypto
<1> QED
  BY <1>2, <1>3, <1>4, SolidRegForm

\* The scalar operations of the FPX group emit bytes and no fixup.
LEMMA FPXRegisterEmits ==
  ASSUME NEW i, i.name \in DOMAIN Records, HoldsReg(i.ops, 1), HoldsReg(i.ops, 2),
         Len(i.ops) \in Nat, Len(i.ops) >= 2, \A k \in 3 .. Len(i.ops) : HoldsReg(i.ops, k)
  PROVE Solid(EmitFPXRegister(i))
<1>1. PICK extras : extras = [k \in 1 .. Len(i.ops) - 2 |-> Xop(Num(i, k + 2))]
  OBVIOUS
<1>2. <<ScalarVectorCtl(i)>> \o extras \in Seq(Byte)
  BY <1>1, ExtraRegisters, Controls, Concat
<1>3. Num(i, 1) \in 0 .. 31 /\ Num(i, 2) \in 0 .. 31 /\ 64 \in 0 .. 127
  BY XopByte
<1>4. EmitFPXRegister(i) = Bytes(RegForm(64, OpcodeBytes(i), Num(i, 1), Num(i, 2),
                                        <<ScalarVectorCtl(i)>> \o extras))
  BY <1>1 DEF EmitFPXRegister
<1> QED
  BY <1>2, <1>3, <1>4, SolidRegForm

\* Every FPX instruction emits bytes and no fixup.
LEMMA FPXEmits ==
  ASSUME NEW i, i.name \in DOMAIN Records,
         FormOf(i.name) = "ScalarFPLoad" => HoldsReg(i.ops, 1) /\ HoldsMem(i.ops, 2),
         FormOf(i.name) = "ScalarFPStore" => HoldsMem(i.ops, 1) /\ HoldsReg(i.ops, 5),
         FormOf(i.name) \notin {"ScalarFPLoad", "ScalarFPStore"} =>
           /\ HoldsReg(i.ops, 1) /\ HoldsReg(i.ops, 2)
           /\ Len(i.ops) \in Nat /\ Len(i.ops) >= 2 /\ \A k \in 3 .. Len(i.ops) : HoldsReg(i.ops, k)
  PROVE Solid(EmitFPX(i))
<1>1. CASE FormOf(i.name) = "ScalarFPLoad"
  <2>1. EmitFPX(i) = MemForm(ScalarOperandControl(i), OpcodeBytes(i), Num(i, 1), Mem(i, 2), <<>>)
    BY <1>1 DEF EmitFPX, EmitFPXMemory
  <2>2. Num(i, 1) \in 0 .. 31 /\ 2 \in Nat \ {0}
    BY <1>1, XopByte
  <2>3. ScalarOperandControl(i) \in 0 .. 127 /\ <<>> \in Seq(Byte)
    BY Controls
  <2>4. HoldsMem(i.ops, 2)
    BY <1>1
  <2> QED
    BY <2>1, <2>2, <2>3, <2>4, SolidMemory
<1>2. CASE FormOf(i.name) = "ScalarFPStore"
  <2>1. EmitFPX(i) = MemForm(ScalarOperandControl(i), OpcodeBytes(i), Num(i, 5), Mem(i, 1), <<>>)
    BY <1>2 DEF EmitFPX, EmitFPXMemory
  <2>2. Num(i, 5) \in 0 .. 31 /\ 1 \in Nat \ {0}
    BY <1>2, XopByte
  <2>3. ScalarOperandControl(i) \in 0 .. 127 /\ <<>> \in Seq(Byte)
    BY Controls
  <2>4. HoldsMem(i.ops, 1)
    BY <1>2
  <2> QED
    BY <2>1, <2>2, <2>3, <2>4, SolidMemory
<1>3. CASE FormOf(i.name) \notin {"ScalarFPLoad", "ScalarFPStore"}
  BY <1>3, FPXRegisterEmits DEF EmitFPX
<1> QED
  BY <1>1, <1>2, <1>3

\* An emitter that tests a value and writes it after the registers, or the opcode.
LEMMA TestedRegForm ==
  ASSUME NEW i, i.name \in DOMAIN Records, NEW control \in 0 .. 127, NEW reg \in 0 .. 31,
         NEW rm \in 0 .. 31, NEW tail, NEW fits \in BOOLEAN, NEW op,
         fits => tail \in Seq(Byte) /\ IsImm(op),
         NEW r, r = EmitIf(fits, RegForm(control, OpcodeBytes(i), reg, rm, tail))
  PROVE Solid(r) /\ (r.ok => IsImm(op))
<1>1. CASE fits
  BY <1>1, SolidRegForm
<1>2. CASE ~fits
  BY <1>2, SolidRejected DEF EmitIf
<1> QED
  BY <1>1, <1>2

\* An opcode with a tested immediate takes no label.
LEMMA TestedString ==
  ASSUME NEW i, i.name \in DOMAIN Records, NEW tail, NEW fits \in BOOLEAN, NEW op,
         fits => tail \in Seq(Byte) /\ IsImm(op),
         NEW r, r = EmitIf(fits, OpcodeBytes(i) \o tail)
  PROVE Solid(r) /\ (r.ok => IsImm(op))
<1>1. CASE fits
  <2>1. PICK s : s = OpcodeBytes(i) \o tail
    OBVIOUS
  <2>2. s \in Seq(Byte) /\ Len(s) > 0
    BY <1>1, <2>1, OpcodeString, Concat
  <2> QED
    BY <1>1, <2>1, <2>2, SolidBytes
<1>2. CASE ~fits
  BY <1>2, SolidRejected DEF EmitIf
<1> QED
  BY <1>1, <1>2

\* The tests of an immediate are true or false.
LEMMA TestsAreBoolean ==
  \A op, bits : UInt(op, bits) \in BOOLEAN /\ IsImm(op) \in BOOLEAN
BY DEF UInt, IsImm

\* SETMODE takes a number.
LEMMA SetModeEmits ==
  ASSUME NEW i, i.name \in DOMAIN Records
  PROVE Solid(EmitSetMode(i)) /\ (EmitSetMode(i).ok => IsImm(i.ops[1]))
<1>1. UInt(i.ops[1], 8) => <<Num(i, 1) % 256>> \in Seq(Byte) /\ IsImm(i.ops[1])
  BY ValueBytes1 DEF Num
<1>2. EmitSetMode(i) = EmitIf(UInt(i.ops[1], 8), OpcodeBytes(i) \o <<Num(i, 1) % 256>>)
  BY DEF EmitSetMode
<1>3. PICK fits, tail : fits = UInt(i.ops[1], 8) /\ tail = <<Num(i, 1) % 256>>
  OBVIOUS
<1>4. /\ fits \in BOOLEAN /\ (fits => tail \in Seq(Byte) /\ IsImm(i.ops[1]))
      /\ EmitSetMode(i) = EmitIf(fits, OpcodeBytes(i) \o tail)
  BY <1>1, <1>2, <1>3, TestsAreBoolean
<1> QED
  BY <1>4, TestedString

\* A read of a numbered system register takes a number.
LEMMA SelectorReadEmits ==
  ASSUME NEW i, i.name \in DOMAIN Records, HoldsReg(i.ops, 1)
  PROVE Solid(EmitSelectorRead(i)) /\ (EmitSelectorRead(i).ok => IsImm(i.ops[2]))
<1>1. UInt(i.ops[2], 16) => LittleEndian(Num(i, 2), 2) \in Seq(Byte) /\ IsImm(i.ops[2])
  BY ValueBytes1 DEF Num
<1>2. EmitSelectorRead(i) = EmitIf(UInt(i.ops[2], 16),
        RegForm(0, OpcodeBytes(i), 0, Num(i, 1), LittleEndian(Num(i, 2), 2)))
  BY DEF EmitSelectorRead
<1>3. Num(i, 1) \in 0 .. 31 /\ 0 \in 0 .. 31 /\ 0 \in 0 .. 127
  BY XopByte
<1>4. PICK fits, tail : fits = UInt(i.ops[2], 16) /\ tail = LittleEndian(Num(i, 2), 2)
  OBVIOUS
<1>5. /\ fits \in BOOLEAN /\ (fits => tail \in Seq(Byte) /\ IsImm(i.ops[2]))
      /\ EmitSelectorRead(i) = EmitIf(fits, RegForm(0, OpcodeBytes(i), 0, Num(i, 1), tail))
  BY <1>1, <1>2, <1>4, TestsAreBoolean
<1> QED
  BY <1>3, <1>5, TestedRegForm

\* A write of a numbered system register takes a number.
LEMMA SelectorWriteEmits ==
  ASSUME NEW i, i.name \in DOMAIN Records, HoldsReg(i.ops, 2)
  PROVE Solid(EmitSelectorWrite(i)) /\ (EmitSelectorWrite(i).ok => IsImm(i.ops[1]))
<1>1. UInt(i.ops[1], 16) => LittleEndian(Num(i, 1), 2) \in Seq(Byte) /\ IsImm(i.ops[1])
  BY ValueBytes1 DEF Num
<1>2. EmitSelectorWrite(i) = EmitIf(UInt(i.ops[1], 16),
        RegForm(0, OpcodeBytes(i), 0, Num(i, 2), LittleEndian(Num(i, 1), 2)))
  BY DEF EmitSelectorWrite
<1>3. Num(i, 2) \in 0 .. 31 /\ 0 \in 0 .. 31 /\ 0 \in 0 .. 127
  BY XopByte
<1>4. PICK fits, tail : fits = UInt(i.ops[1], 16) /\ tail = LittleEndian(Num(i, 1), 2)
  OBVIOUS
<1>5. /\ fits \in BOOLEAN /\ (fits => tail \in Seq(Byte) /\ IsImm(i.ops[1]))
      /\ EmitSelectorWrite(i) = EmitIf(fits, RegForm(0, OpcodeBytes(i), 0, Num(i, 2), tail))
  BY <1>1, <1>2, <1>4, TestsAreBoolean
<1> QED
  BY <1>3, <1>5, TestedRegForm

\* A system instruction with two registers emits bytes and no fixup.
LEMMA PairEmits ==
  ASSUME NEW i, i.name \in DOMAIN Records, HoldsReg(i.ops, 1), HoldsReg(i.ops, 2)
  PROVE Solid(EmitSysXPair(i))
<1>1. Num(i, 1) \in 0 .. 31 /\ Num(i, 2) \in 0 .. 31 /\ 0 \in 0 .. 127
  BY XopByte
<1> QED
  BY <1>1, SolidRegForm, NoBytes DEF EmitSysXPair

\* An instruction with one register emits bytes and no fixup.
LEMMA SingleEmits ==
  ASSUME NEW i, i.name \in DOMAIN Records, HoldsReg(i.ops, 1)
  PROVE /\ Solid(Bytes(RegForm(0, OpcodeBytes(i), 0, Num(i, 1), <<>>)))
        /\ \A fits : Solid(EmitIf(fits, RegForm(0, OpcodeBytes(i), 0, Num(i, 1), <<>>)))
<1>1. Num(i, 1) \in 0 .. 31 /\ 0 \in 0 .. 127 /\ 0 \in 0 .. 31
  BY XopByte
<1> QED
  BY <1>1, SolidRegForm, NoBytes

\* An instruction with three registers emits bytes and no fixup.
LEMMA ThirdRegisterEmits ==
  ASSUME NEW i, i.name \in DOMAIN Records, HoldsReg(i.ops, 1), HoldsReg(i.ops, 2), HoldsReg(i.ops, 3)
  PROVE /\ Solid(Bytes(RegForm(0, OpcodeBytes(i), Num(i, 1), Num(i, 2), <<Num(i, 3)>>)))
        /\ \A fits : Solid(EmitIf(fits, RegForm(0, OpcodeBytes(i), Num(i, 1), Num(i, 2), <<Num(i, 3)>>)))
<1>1. Num(i, 1) \in 0 .. 31 /\ Num(i, 2) \in 0 .. 31 /\ 0 \in 0 .. 127 /\ Num(i, 3) \in Byte
  BY XopByte
<1>2. <<Num(i, 3)>> \in Seq(Byte)
  BY <1>1, SingleByte
<1> QED
  BY <1>1, <1>2, SolidRegForm

\* A system instruction with an address emits bytes and no fixup.
LEMMA SysXMemoryEmits ==
  ASSUME NEW i, i.name \in DOMAIN Records, HoldsMem(i.ops, 1),
         i.name \in {"XSAVE", "XRSTOR", "WRSS"} => HoldsReg(i.ops, 5)
  PROVE Solid(EmitSysXMemory(i))
<1>1. PICK reg : reg = IF i.name \in {"XSAVE", "XRSTOR", "WRSS"} THEN Num(i, 5) ELSE 0
  OBVIOUS
<1>2. reg \in 0 .. 31 /\ 0 \in 0 .. 127 /\ 1 \in Nat \ {0}
  BY <1>1, XopByte
<1>3. EmitSysXMemory(i) = MemForm(0, OpcodeBytes(i), reg, Mem(i, 1), <<>>)
  BY <1>1 DEF EmitSysXMemory
<1> QED
  BY <1>2, <1>3, SolidMemory, NoBytes

\* Every system instruction emits bytes, and the selector it accepts is a number.
LEMMA SysXEmits ==
  ASSUME NEW i, i.name \in DOMAIN Records, NEW form, form = FormOf(i.name), NEW n, n = i.name,
         form = "NoOperand" => n \notin {"SETMODE", "IN", "VMREAD", "RDPMC", "OUT", "VMWRITE", "QUERY",
                "INVTLB", "EOI", "GETCPL", "INVTLBASID", "RNGGET", "SENDIPI"},
         n \in {"IN", "VMREAD", "RDPMC", "QUERY", "INVTLB", "EOI", "GETCPL", "INVTLBASID",
                "RNGGET", "SENDIPI"} => HoldsReg(i.ops, 1),
         n \in {"OUT", "VMWRITE", "QUERY", "INVTLB", "SENDIPI"} => HoldsReg(i.ops, 2),
         n = "SENDIPI" => HoldsReg(i.ops, 3),
         form # "NoOperand" /\ n \notin {"SETMODE", "IN", "VMREAD", "RDPMC", "OUT", "VMWRITE", "QUERY",
                "INVTLB", "EOI", "GETCPL", "INVTLBASID", "RNGGET", "SENDIPI"} => HoldsMem(i.ops, 1),
         n \in {"XSAVE", "XRSTOR", "WRSS"} => HoldsReg(i.ops, 5)
  PROVE /\ Solid(EmitSysX(i))
        /\ form # "NoOperand" /\ EmitSysX(i).ok =>
             /\ n \in {"SETMODE", "OUT", "VMWRITE"} => IsImm(i.ops[1])
             /\ n \in {"IN", "VMREAD", "RDPMC"} => IsImm(i.ops[2])
<1>1. CASE form = "NoOperand"
  <2>1. EmitSysX(i) = Bytes(OpcodeBytes(i))
    BY <1>1 DEF EmitSysX
  <2> QED
    BY <1>1, <2>1, NoOperandEmits
<1>2. CASE form # "NoOperand" /\ n = "SETMODE"
  <2>1. EmitSysX(i) = EmitSetMode(i)
    BY <1>2 DEF EmitSysX
  <2> QED
    BY <1>2, <2>1, SetModeEmits
<1>3. CASE form # "NoOperand" /\ n \in {"IN", "VMREAD", "RDPMC"}
  <2>1. EmitSysX(i) = EmitSelectorRead(i)
    BY <1>3 DEF EmitSysX
  <2> QED
    BY <1>3, <2>1, SelectorReadEmits
<1>4. CASE form # "NoOperand" /\ n \in {"OUT", "VMWRITE"}
  <2>1. EmitSysX(i) = EmitSelectorWrite(i)
    BY <1>4 DEF EmitSysX
  <2> QED
    BY <1>4, <2>1, SelectorWriteEmits
<1>5. CASE form # "NoOperand" /\ n \in {"QUERY", "INVTLB"}
  <2>1. EmitSysX(i) = EmitSysXPair(i)
    BY <1>5 DEF EmitSysX
  <2> QED
    BY <1>5, <2>1, PairEmits
<1>6. CASE form # "NoOperand" /\ n \in {"EOI", "GETCPL", "INVTLBASID", "RNGGET"}
  <2>1. EmitSysX(i) = Bytes(RegForm(0, OpcodeBytes(i), 0, Num(i, 1), <<>>))
    BY <1>6 DEF EmitSysX, EmitSysXReg
  <2> QED
    BY <1>6, <2>1, SingleEmits
<1>7. CASE form # "NoOperand" /\ n = "SENDIPI"
  <2>1. EmitSysX(i) = Bytes(RegForm(0, OpcodeBytes(i), Num(i, 1), Num(i, 2), <<Num(i, 3)>>))
    BY <1>7 DEF EmitSysX, EmitSendIPI
  <2> QED
    BY <1>7, <2>1, ThirdRegisterEmits
<1>8. CASE form # "NoOperand" /\ n \notin {"SETMODE", "IN", "VMREAD", "RDPMC", "OUT", "VMWRITE",
               "QUERY", "INVTLB", "EOI", "GETCPL", "INVTLBASID", "RNGGET", "SENDIPI"}
  <2>1. EmitSysX(i) = EmitSysXMemory(i)
    BY <1>8 DEF EmitSysX
  <2> QED
    BY <1>8, <2>1, SysXMemoryEmits
<1> QED
  BY <1>1, <1>2, <1>3, <1>4, <1>5, <1>6, <1>7, <1>8

-----------------------------------------------------------------------------
(* Group 0 without fixups.                                                 *)
LEMMA TrapEmits ==
  ASSUME NEW i, i.name \in DOMAIN Records
  PROVE Solid(EmitTrapImm(i)) /\ (EmitTrapImm(i).ok => IsImm(i.ops[1]))
<1>1. EmitTrapImm(i) = EmitSetMode(i)
  BY DEF EmitTrapImm, EmitSetMode
<1> QED
  BY <1>1, SetModeEmits

\* Words are integers.
LEMMA WordInt == \A v \in Word32 : v \in Int
BY DEF Word32

\* ENTER and SLEEP take a number.
LEMMA FrameEmits ==
  ASSUME NEW i, i.name \in DOMAIN Records, HoldsValue(i.ops, 1), NEW is64 \in BOOLEAN
  PROVE Solid(EmitFrameImm(i, is64)) /\ (EmitFrameImm(i, is64).ok => IsImm(i.ops[1]))
<1>1. PICK fits, tail : /\ fits = (IsImm(i.ops[1]) /\ i.ops[1][3] >= 0 /\ (is64 \/ i.ops[1][3] = 0))
                        /\ tail = AddressBytes(i.ops[1], is64)
  OBVIOUS
<1>2. fits \in BOOLEAN
  BY <1>1
<1>3. fits => IsImm(i.ops[1])
  BY <1>1
<1>4. IsImm(i.ops[1]) => i.ops[1][2] \in Int /\ i.ops[1][3] \in Int
  BY WordInt DEF HoldsValue, IsImm
<1>5. fits => tail \in Seq(Byte)
  BY <1>1, <1>3, <1>4, AddressString
<1>6. EmitFrameImm(i, is64) = EmitIf(fits, OpcodeBytes(i) \o tail)
  BY <1>1 DEF EmitFrameImm
<1> QED
  BY <1>2, <1>3, <1>5, <1>6, TestedString

\* Instructions on one register emit bytes and no fixup.
LEMMA OneRegisterEmits ==
  ASSUME NEW i, i.name \in DOMAIN Records, HoldsReg(i.ops, 1)
  PROVE Solid(EmitOneRegister(i)) /\ Solid(EmitIndirectCall(i))
BY SingleEmits DEF EmitOneRegister, EmitIndirectCall

\* RDCR and WRCR take the number of the control register.
LEMMA ControlRegEmits ==
  ASSUME NEW i, i.name \in DOMAIN Records,
         IF i.name = "WRCR" THEN HoldsReg(i.ops, 2) ELSE HoldsReg(i.ops, 1)
  PROVE /\ Solid(EmitControlReg(i))
        /\ EmitControlReg(i).ok => IsImm(i.ops[IF i.name = "WRCR" THEN 1 ELSE 2])
<1>1. CASE i.name = "WRCR"
  <2>1. EmitControlReg(i) = EmitSelectorWrite(i)
    BY <1>1 DEF EmitControlReg, EmitSelectorWrite, Num
  <2> QED
    BY <1>1, <2>1, SelectorWriteEmits
<1>2. CASE i.name # "WRCR"
  <2>1. EmitControlReg(i) = EmitSelectorRead(i)
    BY <1>2 DEF EmitControlReg, EmitSelectorRead, Num
  <2> QED
    BY <1>2, <2>1, SelectorReadEmits
<1> QED
  BY <1>1, <1>2

\* The immediate of a shift or a rotate is a number.
LEMMA TernaryImmEmits ==
  ASSUME NEW i, i.name \in DOMAIN Records, HoldsReg(i.ops, 1), HoldsReg(i.ops, 2),
         HoldsValue(i.ops, 3), NEW is64 \in BOOLEAN
  PROVE Solid(EmitTernaryImm(i, is64)) /\ (EmitTernaryImm(i, is64).ok => IsImm(i.ops[3]))
<1>1. PICK shift, byte, imm :
        /\ shift = (i.name \in {"VSHL128", "VSHR128"}) /\ byte = (FormOf(i.name) = "TernaryByte")
        /\ imm = i.ops[3]
  OBVIOUS
<1>2. PICK fits, tail :
        /\ fits = (IsImm(imm) /\ (byte => UInt(imm, 8)))
        /\ tail = (IF shift THEN <<24>> ELSE <<>>)
                    \o (IF byte THEN LittleEndian(imm[2], 1) ELSE AddressBytes(imm, is64))
  OBVIOUS
<1>3. fits \in BOOLEAN /\ (fits => IsImm(i.ops[3]))
  BY <1>1, <1>2
<1>4. IsImm(imm) => imm[2] \in Int /\ imm[3] \in Int
  BY <1>1, WordInt DEF HoldsValue, IsImm
<1>5. fits => tail \in Seq(Byte)
  <2>1. PICK a, b : /\ a = (IF shift THEN <<24>> ELSE <<>>)
                    /\ b = (IF byte THEN LittleEndian(imm[2], 1) ELSE AddressBytes(imm, is64))
    OBVIOUS
  <2>2. a \in Seq(Byte)
    BY <2>1, Controls, NoBytes
  <2>3. fits => b \in Seq(Byte)
    <3>1. CASE byte
      BY <1>2, <2>1, <3>1, ValueBytes1
    <3>2. CASE ~byte
      BY <1>2, <1>4, <2>1, <3>2, AddressString
    <3> QED
      BY <3>1, <3>2
  <2>4. tail = a \o b
    BY <1>2, <2>1
  <2> QED
    BY <2>2, <2>3, <2>4, Concat
<1>6. EmitTernaryImm(i, is64) = EmitIf(fits,
        RegForm(Bit(shift, 64), OpcodeBytes(i), Num(i, 1), Num(i, 2), tail))
  BY <1>1, <1>2 DEF EmitTernaryImm
<1>7. Num(i, 1) \in 0 .. 31 /\ Num(i, 2) \in 0 .. 31 /\ Bit(shift, 64) \in 0 .. 127
  BY XopByte DEF Bit
<1> QED
  BY <1>3, <1>5, <1>6, <1>7, TestedRegForm

\* Three registers, general or vector, emit bytes and no fixup.
LEMMA RegisterTernaryEmits ==
  ASSUME NEW i, i.name \in DOMAIN Records, HoldsReg(i.ops, 1), HoldsReg(i.ops, 2), HoldsReg(i.ops, 3)
  PROVE Solid(EmitTernaryRegister(i)) /\ Solid(EmitPairLoad(i)) /\ Solid(EmitVectorBinary(i))
<1>1. Solid(EmitTernaryRegister(i)) /\ Solid(EmitPairLoad(i))
  BY ThirdRegisterEmits DEF EmitTernaryRegister, EmitPairLoad
<1>2. <<ScalarVectorCtl(i), Xop(Num(i, 3))>> \in Seq(Byte)
  BY Controls, XopByte, TwoBytes
<1>3. Num(i, 1) \in 0 .. 31 /\ Num(i, 2) \in 0 .. 31 /\ 64 \in 0 .. 127
  BY XopByte
<1> QED
  BY <1>1, <1>2, <1>3, SolidRegForm DEF EmitVectorBinary

\* Vector moves and conversions emit bytes and no fixup.
LEMMA VectorPairEmits ==
  ASSUME NEW i, i.name \in DOMAIN Records, HoldsReg(i.ops, 1), HoldsReg(i.ops, 2)
  PROVE Solid(EmitVectorUnary(i)) /\ Solid(EmitConversion(i))
<1>1. Num(i, 1) \in 0 .. 31 /\ Num(i, 2) \in 0 .. 31 /\ 64 \in 0 .. 127
      /\ <<ScalarVectorCtl(i)>> \in Seq(Byte)
  BY XopByte, Controls
<1> QED
  BY <1>1, SolidRegForm DEF EmitVectorUnary, EmitConversion

\* Vector loads, stores and exchanges emit bytes and no fixup.
LEMMA VectorMemoryEmits ==
  ASSUME NEW i, i.name \in DOMAIN Records,
         FormOf(i.name) = "VectorLoad" => HoldsReg(i.ops, 1),
         FormOf(i.name) # "VectorLoad" => HoldsReg(i.ops, 5),
         HoldsMem(i.ops, IF i.name = "XCHG128" THEN 3 ELSE IF FormOf(i.name) = "VectorLoad" THEN 2 ELSE 1)
  PROVE Solid(EmitVectorMemory(i))
<1>1. PICK k : k = IF i.name = "XCHG128" THEN 3 ELSE IF FormOf(i.name) = "VectorLoad" THEN 2 ELSE 1
  OBVIOUS
<1>2. PICK reg : reg = IF FormOf(i.name) = "VectorLoad" THEN Num(i, 1) ELSE Num(i, 5)
  OBVIOUS
<1>3. reg \in 0 .. 31 /\ k \in Nat \ {0} /\ HoldsMem(i.ops, k) /\ 64 \in 0 .. 127
  BY <1>1, <1>2, XopByte
<1>4. EmitVectorMemory(i) = MemForm(64, OpcodeBytes(i), reg, Mem(i, k), <<ScalarVectorCtl(i)>>)
  BY <1>1, <1>2 DEF EmitVectorMemory
<1> QED
  BY <1>3, <1>4, Controls, SolidMemory

\* The places of the operands of a scalar memory instruction.
Atomics == {"ATADD", "ATSUB", "ATAND", "ATOR", "ATXOR", "SC", "XCHGmem"}
MemoryOnlys == {"PREFETCH", "FLUSH", "INVIC", "INVDC"}
MemPlace(i) ==
  IF i.name \in MemoryOnlys THEN 1 ELSE IF i.name = "CMPXCHG" THEN 4
  ELSE IF i.name \in Atomics THEN 3 ELSE IF FormOf(i.name) # "StoreQ" THEN 2 ELSE 1

\* Loads, stores and atomics emit bytes and no fixup.
LEMMA MemoryEmits ==
  ASSUME NEW i, i.name \in DOMAIN Records, HoldsMem(i.ops, MemPlace(i)),
         i.name \notin MemoryOnlys /\ FormOf(i.name) # "StoreQ" => HoldsReg(i.ops, 1),
         i.name \notin MemoryOnlys /\ FormOf(i.name) = "StoreQ" => HoldsReg(i.ops, 5),
         i.name = "STP" => HoldsReg(i.ops, 6), i.name = "CMPXCHG" => HoldsReg(i.ops, 3)
  PROVE Solid(EmitMemory(i))
<1>1. PICK k : k = MemPlace(i)
  OBVIOUS
<1>2. PICK reg : reg = IF i.name \in MemoryOnlys THEN 0
                       ELSE IF FormOf(i.name) # "StoreQ" THEN Num(i, 1) ELSE Num(i, 5)
  OBVIOUS
<1>3. PICK extra : extra = CASE i.name = "STP" -> <<Num(i, 6)>>
                             [] i.name = "CMPXCHG" -> <<Num(i, 3)>>
                             [] OTHER -> <<>>
  OBVIOUS
<1>4. k \in Nat \ {0} /\ HoldsMem(i.ops, k) /\ 0 \in 0 .. 127
  BY <1>1 DEF MemPlace
<1>5. reg \in 0 .. 31
  BY <1>2, XopByte
<1>6. extra \in Seq(Byte)
  <2>1. CASE i.name = "STP"
    <3>1. Num(i, 6) \in Byte /\ extra = <<Num(i, 6)>>
      BY <1>3, <2>1, XopByte
    <3> QED
      BY <3>1, SingleByte
  <2>2. CASE i.name = "CMPXCHG"
    <3>1. Num(i, 3) \in Byte /\ extra = <<Num(i, 3)>>
      BY <1>3, <2>2, XopByte
    <3> QED
      BY <3>1, SingleByte
  <2>3. CASE i.name # "STP" /\ i.name # "CMPXCHG"
    BY <1>3, <2>3, NoBytes
  <2> QED
    BY <2>1, <2>2, <2>3
<1>7. EmitMemory(i) = MemForm(0, OpcodeBytes(i), reg, Mem(i, k), extra)
  <2>1. CASE i.name \in MemoryOnlys
    BY <1>1, <1>2, <1>3, <2>1 DEF EmitMemory, MemPlace, MemoryOnlys, Atomics
  <2>2. CASE i.name = "CMPXCHG"
    BY <1>1, <1>2, <1>3, <2>2 DEF EmitMemory, MemPlace, MemoryOnlys, Atomics
  <2>3. CASE i.name \in Atomics
    BY <1>1, <1>2, <1>3, <2>3 DEF EmitMemory, MemPlace, MemoryOnlys, Atomics
  <2>4. CASE i.name \notin MemoryOnlys \cup Atomics \cup {"CMPXCHG"}
    BY <1>1, <1>2, <1>3, <2>4 DEF EmitMemory, MemPlace, MemoryOnlys, Atomics
  <2> QED
    BY <2>1, <2>2, <2>3, <2>4
<1> QED
  BY <1>4, <1>5, <1>6, <1>7, SolidMemory

\* Two registers emit bytes and no fixup.
LEMMA RegisterPairEmits ==
  ASSUME NEW i, i.name \in DOMAIN Records, HoldsReg(i.ops, 1), HoldsReg(i.ops, Len(i.ops))
  PROVE Solid(EmitRegisterPair(i))
<1>1. Num(i, 1) \in 0 .. 31 /\ LastOp(i)[2] \in 0 .. 31 /\ 0 \in 0 .. 127
  BY XopByte DEF LastOp, HoldsReg
<1> QED
  BY <1>1, SolidRegForm, NoBytes DEF EmitRegisterPair

-----------------------------------------------------------------------------
(* The operands of a matched instruction are those of the statement, a     *)
(* memory operand as four, after the tied one.                             *)
Addressed(ops, p) ==
  /\ ops[p] = GPR(ops[p][2]) /\ ops[p + 1] = GPR(ops[p + 1][2])
  /\ ops[p + 2][2] \in {1, 2, 4, 8} /\ ops[p + 2] = Imm(ops[p + 2][2])
  /\ ops[p + 3] = Imm(ops[p + 3][2])

Spelled(kind, ops, p) ==
  /\ kind = "r" => ops[p] = GPR(ops[p][2])
  /\ kind = "v" => ops[p] = Vec(ops[p][2])
  /\ kind = "i" => ops[p][1] = "x" \/ ops[p] = Wide(ops[p][2], ops[p][3])
  /\ kind = "m" => Addressed(ops, p)

HoldsKind(kind, ops, p) ==
  /\ kind \in {"r", "v"} => HoldsReg(ops, p)
  /\ kind = "i" => HoldsValue(ops, p)
  /\ kind = "m" => HoldsMem(ops, p)
  /\ Spelled(kind, ops, p)

Size(kinds, j) == IF kinds[j] = "m" THEN 4 ELSE 1

\* How many operands come of those before the k-th of a statement (of at most four).
Place(kinds, k) ==
  (IF k > 1 THEN Size(kinds, 1) ELSE 0) + (IF k > 2 THEN Size(kinds, 2) ELSE 0)
    + (IF k > 3 THEN Size(kinds, 3) ELSE 0) + (IF k > 4 THEN Size(kinds, 4) ELSE 0)

Fills(ops, source, kinds, tied) ==
  /\ Len(ops) = tied + Place(kinds, Len(kinds) + 1)
  /\ tied = 1 => HoldsReg(ops, 1) /\ ops[1] = ops[2]
  /\ DOMAIN source = 1 .. Len(kinds)
  /\ \A k \in 1 .. Len(kinds) :
       /\ HoldsKind(kinds[k], ops, tied + 1 + Place(kinds, k))
       /\ kinds[k] = "i" => ops[tied + 1 + Place(kinds, k)] = source[k]
       /\ kinds[k] # "i" => source[k][1] # "x"

Filled(i, source) ==
  Fills(i.ops, source, OperandKinds[ClassOf(i.name)], IF ClassOf(i.name) \in Tied THEN 1 ELSE 0)

\* The operands of the classes with one register.
LEMMA OneShape ==
  ASSUME NEW i, NEW source, Filled(i, source),
         ClassOf(i.name) \in
          {"IndirectCall", "IndirectBranch", "TxnBeginAbs", "PushReg", "PopReg",
           "TxnAbortReg", "ReadReg", "TxnReadReg", "SysXReg", "SysXReadReg"}
  PROVE  /\ Len(i.ops) = 1 /\ HoldsReg(i.ops, 1)
         /\ \A k \in DOMAIN source : source[k][1] # "x"
<1>1. PICK kinds : kinds = OperandKinds[ClassOf(i.name)]
  OBVIOUS
<1>2. kinds = <<"r">>
  BY <1>1, SMT DEF OperandKinds
<1>3. ClassOf(i.name) \notin Tied
  BY SMT DEF Tied
<1>4. Fills(i.ops, source, kinds, 0)
  BY <1>1, <1>3 DEF Filled
<1> QED
  BY <1>2, <1>4 DEF Fills, Place, Size, HoldsKind

\* The operands of the class with one register tied to the result.
LEMMA OneTiedShape ==
  ASSUME NEW i, NEW source, Filled(i, source),
         ClassOf(i.name) \in
          {"UnaryInPlace"}
  PROVE  /\ Len(i.ops) = 2 /\ HoldsReg(i.ops, 1) /\ HoldsReg(i.ops, 2)
         /\ \A k \in DOMAIN source : source[k][1] # "x"
<1>1. PICK kinds : kinds = OperandKinds[ClassOf(i.name)]
  OBVIOUS
<1>2. kinds = <<"r">>
  BY <1>1, SMT DEF OperandKinds
<1>3. ClassOf(i.name) \in Tied
  BY SMT DEF Tied
<1>4. Fills(i.ops, source, kinds, 1)
  BY <1>1, <1>3 DEF Filled
<1> QED
  BY <1>2, <1>4 DEF Fills, Place, Size, HoldsKind

\* The operands of the classes with two registers.
LEMMA PairShape ==
  ASSUME NEW i, NEW source, Filled(i, source),
         ClassOf(i.name) \in
          {"CopyRR", "CopyVV", "UnaryRR", "CompareRR", "FPUnary", "FPCompare", "VUnary",
           "IntToFP", "FPToInt", "AVXUnary", "CryptoUnary", "DSPUnary", "DSPSumDot",
           "SysXQuery", "SysXPair", "FPXUnary"}
  PROVE  /\ Len(i.ops) = 2 /\ HoldsReg(i.ops, 1) /\ HoldsReg(i.ops, 2)
         /\ \A k \in DOMAIN source : source[k][1] # "x"
<1>1. PICK kinds : kinds = OperandKinds[ClassOf(i.name)]
  OBVIOUS
<1>2. Len(kinds) = 2 /\ kinds[1] \in {"r", "v"} /\ kinds[2] \in {"r", "v"}
  BY <1>1, SMT DEF OperandKinds
<1>3. ClassOf(i.name) \notin Tied
  BY SMT DEF Tied
<1>4. Fills(i.ops, source, kinds, 0)
  BY <1>1, <1>3 DEF Filled
<1> QED
  BY <1>2, <1>4 DEF Fills, Place, Size, HoldsKind

\* The operands of the classes with two registers, the first tied.
LEMMA PairTiedShape ==
  ASSUME NEW i, NEW source, Filled(i, source),
         ClassOf(i.name) \in
          {"ALURR", "CarryALURR"}
  PROVE  /\ Len(i.ops) = 3 /\ HoldsReg(i.ops, 1) /\ HoldsReg(i.ops, 2)
         /\ HoldsReg(i.ops, 3) /\ \A k \in DOMAIN source : source[k][1] # "x"
<1>1. PICK kinds : kinds = OperandKinds[ClassOf(i.name)]
  OBVIOUS
<1>2. kinds = <<"r", "r">>
  BY <1>1, SMT DEF OperandKinds
<1>3. ClassOf(i.name) \in Tied
  BY SMT DEF Tied
<1>4. Fills(i.ops, source, kinds, 1)
  BY <1>1, <1>3 DEF Filled
<1> QED
  BY <1>2, <1>4 DEF Fills, Place, Size, HoldsKind

\* The operands of the classes with three registers.
LEMMA TripleShape ==
  ASSUME NEW i, NEW source, Filled(i, source),
         ClassOf(i.name) \in
          {"TernaryRR", "StringCopy", "StringFill", "FPBinary", "VBinary", "AVXBinary",
           "CryptoBinary", "DSPTernary", "DSPDot", "SysXTernary", "FPXBinary"}
  PROVE  /\ Len(i.ops) = 3 /\ HoldsReg(i.ops, 1) /\ HoldsReg(i.ops, 2)
         /\ HoldsReg(i.ops, 3) /\ \A k \in DOMAIN source : source[k][1] # "x"
<1>1. PICK kinds : kinds = OperandKinds[ClassOf(i.name)]
  OBVIOUS
<1>2. Len(kinds) = 3 /\ kinds[1] \in {"r", "v"} /\ kinds[2] \in {"r", "v"} /\ kinds[3] \in {"r", "v"}
  BY <1>1, SMT DEF OperandKinds
<1>3. ClassOf(i.name) \notin Tied
  BY SMT DEF Tied
<1>4. Fills(i.ops, source, kinds, 0)
  BY <1>1, <1>3 DEF Filled
<1> QED
  BY <1>2, <1>4 DEF Fills, Place, Size, HoldsKind

\* The operands of the classes with four registers.
LEMMA QuadrupleShape ==
  ASSUME NEW i, NEW source, Filled(i, source),
         ClassOf(i.name) \in
          {"DSPQuaternary", "DSPPairOut", "FPXFused"}
  PROVE  /\ Len(i.ops) = 4 /\ HoldsReg(i.ops, 1) /\ HoldsReg(i.ops, 2)
         /\ HoldsReg(i.ops, 3) /\ HoldsReg(i.ops, 4)
         /\ \A k \in DOMAIN source : source[k][1] # "x"
<1>1. PICK kinds : kinds = OperandKinds[ClassOf(i.name)]
  OBVIOUS
<1>2. Len(kinds) = 4 /\ kinds[1] \in {"r", "v"} /\ kinds[2] \in {"r", "v"} /\ kinds[3] \in {"r", "v"} /\ kinds[4] \in {"r", "v"}
  BY <1>1, SMT DEF OperandKinds
<1>3. ClassOf(i.name) \notin Tied
  BY SMT DEF Tied
<1>4. Fills(i.ops, source, kinds, 0)
  BY <1>1, <1>3 DEF Filled
<1> QED
  BY <1>2, <1>4 DEF Fills, Place, Size, HoldsKind

\* The operand of the classes with a value alone.
LEMMA ValueShape ==
  ASSUME NEW i, NEW source, Filled(i, source),
         ClassOf(i.name) \in
          {"UncondBranch", "CondBranch", "Call", "TxnBeginRel", "TrapImm",
           "TxnAbortImm", "FrameImm", "SleepImm", "SysXImm"}
  PROVE  /\ Len(i.ops) = 1 /\ HoldsValue(i.ops, 1) /\ i.ops[1] = source[1]
         /\ \A k \in DOMAIN source : source[k][1] = "x" => k = 1
<1>1. PICK kinds : kinds = OperandKinds[ClassOf(i.name)]
  OBVIOUS
<1>2. kinds = <<"i">>
  BY <1>1, SMT DEF OperandKinds
<1>3. ClassOf(i.name) \notin Tied
  BY SMT DEF Tied
<1>4. Fills(i.ops, source, kinds, 0)
  BY <1>1, <1>3 DEF Filled
<1> QED
  BY <1>2, <1>4 DEF Fills, Place, Size, HoldsKind

\* The operands of the classes with a register and a value.
LEMMA RegValueShape ==
  ASSUME NEW i, NEW source, Filled(i, source),
         ClassOf(i.name) \in
          {"RI64", "CompareRI", "RegCondBranch", "ReadControl", "SysXReadImm"}
  PROVE  /\ Len(i.ops) = 2 /\ HoldsReg(i.ops, 1) /\ HoldsValue(i.ops, 2)
         /\ i.ops[2] = source[2] /\ \A k \in DOMAIN source : source[k][1] = "x" => k = 2
<1>1. PICK kinds : kinds = OperandKinds[ClassOf(i.name)]
  OBVIOUS
<1>2. kinds = <<"r", "i">>
  BY <1>1, SMT DEF OperandKinds
<1>3. ClassOf(i.name) \notin Tied
  BY SMT DEF Tied
<1>4. Fills(i.ops, source, kinds, 0)
  BY <1>1, <1>3 DEF Filled
<1> QED
  BY <1>2, <1>4 DEF Fills, Place, Size, HoldsKind

\* The operands of the class with a tied register and a value.
LEMMA RegValueTiedShape ==
  ASSUME NEW i, NEW source, Filled(i, source),
         ClassOf(i.name) \in
          {"ALURI"}
  PROVE  /\ Len(i.ops) = 3 /\ HoldsReg(i.ops, 1) /\ HoldsReg(i.ops, 2)
         /\ HoldsValue(i.ops, 3) /\ i.ops[3] = source[2]
         /\ \A k \in DOMAIN source : source[k][1] = "x" => k = 2
<1>1. PICK kinds : kinds = OperandKinds[ClassOf(i.name)]
  OBVIOUS
<1>2. kinds = <<"r", "i">>
  BY <1>1, SMT DEF OperandKinds
<1>3. ClassOf(i.name) \in Tied
  BY SMT DEF Tied
<1>4. Fills(i.ops, source, kinds, 1)
  BY <1>1, <1>3 DEF Filled
<1> QED
  BY <1>2, <1>4 DEF Fills, Place, Size, HoldsKind

\* The operands of the classes with a value and a register.
LEMMA ValueRegShape ==
  ASSUME NEW i, NEW source, Filled(i, source),
         ClassOf(i.name) \in
          {"WriteControl", "SysXWriteImm"}
  PROVE  /\ Len(i.ops) = 2 /\ HoldsValue(i.ops, 1) /\ i.ops[1] = source[1]
         /\ HoldsReg(i.ops, 2) /\ \A k \in DOMAIN source : source[k][1] = "x" => k = 1
<1>1. PICK kinds : kinds = OperandKinds[ClassOf(i.name)]
  OBVIOUS
<1>2. kinds = <<"i", "r">>
  BY <1>1, SMT DEF OperandKinds
<1>3. ClassOf(i.name) \notin Tied
  BY SMT DEF Tied
<1>4. Fills(i.ops, source, kinds, 0)
  BY <1>1, <1>3 DEF Filled
<1> QED
  BY <1>2, <1>4 DEF Fills, Place, Size, HoldsKind

\* The operands of the classes with two registers and a value.
LEMMA PairValueShape ==
  ASSUME NEW i, NEW source, Filled(i, source),
         ClassOf(i.name) \in
          {"TernaryRI", "TernaryByte", "VShiftImm", "AVXRegImm", "DSPRegImm"}
  PROVE  /\ Len(i.ops) = 3 /\ HoldsReg(i.ops, 1) /\ HoldsReg(i.ops, 2)
         /\ HoldsValue(i.ops, 3) /\ i.ops[3] = source[3]
         /\ \A k \in DOMAIN source : source[k][1] = "x" => k = 3
<1>1. PICK kinds : kinds = OperandKinds[ClassOf(i.name)]
  OBVIOUS
<1>2. Len(kinds) = 3 /\ kinds[1] \in {"r", "v"} /\ kinds[2] \in {"r", "v"} /\ kinds[3] = "i"
  BY <1>1, SMT DEF OperandKinds
<1>3. ClassOf(i.name) \notin Tied
  BY SMT DEF Tied
<1>4. Fills(i.ops, source, kinds, 0)
  BY <1>1, <1>3 DEF Filled
<1> QED
  BY <1>2, <1>4 DEF Fills, Place, Size, HoldsKind

\* The operands of the class with three registers and a value.
LEMMA TripleValueShape ==
  ASSUME NEW i, NEW source, Filled(i, source),
         ClassOf(i.name) \in
          {"AVXBinaryImm"}
  PROVE  /\ Len(i.ops) = 4 /\ HoldsReg(i.ops, 1) /\ HoldsReg(i.ops, 2)
         /\ HoldsReg(i.ops, 3) /\ HoldsValue(i.ops, 4) /\ i.ops[4] = source[4]
         /\ \A k \in DOMAIN source : source[k][1] = "x" => k = 4
<1>1. PICK kinds : kinds = OperandKinds[ClassOf(i.name)]
  OBVIOUS
<1>2. Len(kinds) = 4 /\ kinds[1] \in {"r", "v"} /\ kinds[2] \in {"r", "v"} /\ kinds[3] \in {"r", "v"} /\ kinds[4] = "i"
  BY <1>1, SMT DEF OperandKinds
<1>3. ClassOf(i.name) \notin Tied
  BY SMT DEF Tied
<1>4. Fills(i.ops, source, kinds, 0)
  BY <1>1, <1>3 DEF Filled
<1> QED
  BY <1>2, <1>4 DEF Fills, Place, Size, HoldsKind

\* The operands of the classes with a register and an address.
LEMMA LoadShape ==
  ASSUME NEW i, NEW source, Filled(i, source),
         ClassOf(i.name) \in
          {"LoadQ", "AddressCalc", "VectorLoad", "AtomicLoad", "FPXLoad"}
  PROVE  /\ Len(i.ops) = 5 /\ HoldsReg(i.ops, 1) /\ HoldsMem(i.ops, 2)
         /\ \A k \in DOMAIN source : source[k][1] # "x"
<1>1. PICK kinds : kinds = OperandKinds[ClassOf(i.name)]
  OBVIOUS
<1>2. Len(kinds) = 2 /\ kinds[1] \in {"r", "v"} /\ kinds[2] = "m"
  BY <1>1, SMT DEF OperandKinds
<1>3. ClassOf(i.name) \notin Tied
  BY SMT DEF Tied
<1>4. Fills(i.ops, source, kinds, 0)
  BY <1>1, <1>3 DEF Filled
<1> QED
  BY <1>2, <1>4 DEF Fills, Place, Size, HoldsKind

\* The operands of the classes with a tied register and an address.
LEMMA LoadTiedShape ==
  ASSUME NEW i, NEW source, Filled(i, source),
         ClassOf(i.name) \in
          {"AtomicMem", "AtomicExchange", "AtomicExchange128"}
  PROVE  /\ Len(i.ops) = 6 /\ HoldsReg(i.ops, 1) /\ HoldsReg(i.ops, 2)
         /\ HoldsMem(i.ops, 3) /\ \A k \in DOMAIN source : source[k][1] # "x"
<1>1. PICK kinds : kinds = OperandKinds[ClassOf(i.name)]
  OBVIOUS
<1>2. Len(kinds) = 2 /\ kinds[1] \in {"r", "v"} /\ kinds[2] = "m"
  BY <1>1, SMT DEF OperandKinds
<1>3. ClassOf(i.name) \in Tied
  BY SMT DEF Tied
<1>4. Fills(i.ops, source, kinds, 1)
  BY <1>1, <1>3 DEF Filled
<1> QED
  BY <1>2, <1>4 DEF Fills, Place, Size, HoldsKind

\* The operands of the classes with an address and a register.
LEMMA StoreShape ==
  ASSUME NEW i, NEW source, Filled(i, source),
         ClassOf(i.name) \in
          {"StoreQ", "VectorStore", "SysXMaskedMemory", "SysXStoreMemory", "FPXStore"}
  PROVE  /\ Len(i.ops) = 5 /\ HoldsMem(i.ops, 1) /\ HoldsReg(i.ops, 5)
         /\ \A k \in DOMAIN source : source[k][1] # "x"
<1>1. PICK kinds : kinds = OperandKinds[ClassOf(i.name)]
  OBVIOUS
<1>2. Len(kinds) = 2 /\ kinds[1] = "m" /\ kinds[2] \in {"r", "v"}
  BY <1>1, SMT DEF OperandKinds
<1>3. ClassOf(i.name) \notin Tied
  BY SMT DEF Tied
<1>4. Fills(i.ops, source, kinds, 0)
  BY <1>1, <1>3 DEF Filled
<1> QED
  BY <1>2, <1>4 DEF Fills, Place, Size, HoldsKind

\* The operands of the classes with an address alone.
LEMMA MemoryShape ==
  ASSUME NEW i, NEW source, Filled(i, source),
         ClassOf(i.name) \in
          {"MemoryOnly", "SysXMemory"}
  PROVE  /\ Len(i.ops) = 4 /\ HoldsMem(i.ops, 1)
         /\ \A k \in DOMAIN source : source[k][1] # "x"
<1>1. PICK kinds : kinds = OperandKinds[ClassOf(i.name)]
  OBVIOUS
<1>2. kinds = <<"m">>
  BY <1>1, SMT DEF OperandKinds
<1>3. ClassOf(i.name) \notin Tied
  BY SMT DEF Tied
<1>4. Fills(i.ops, source, kinds, 0)
  BY <1>1, <1>3 DEF Filled
<1> QED
  BY <1>2, <1>4 DEF Fills, Place, Size, HoldsKind

\* The operands of the class with two registers and an address.
LEMMA PairMemoryShape ==
  ASSUME NEW i, NEW source, Filled(i, source),
         ClassOf(i.name) \in
          {"PairLoad"}
  PROVE  /\ Len(i.ops) = 6 /\ HoldsReg(i.ops, 1) /\ HoldsReg(i.ops, 2)
         /\ HoldsMem(i.ops, 3) /\ \A k \in DOMAIN source : source[k][1] # "x"
<1>1. PICK kinds : kinds = OperandKinds[ClassOf(i.name)]
  OBVIOUS
<1>2. kinds = <<"r", "r", "m">>
  BY <1>1, SMT DEF OperandKinds
<1>3. ClassOf(i.name) \notin Tied
  BY SMT DEF Tied
<1>4. Fills(i.ops, source, kinds, 0)
  BY <1>1, <1>3 DEF Filled
<1> QED
  BY <1>2, <1>4 DEF Fills, Place, Size, HoldsKind

\* The operands of the compare-and-exchange class.
LEMMA PairMemoryTiedShape ==
  ASSUME NEW i, NEW source, Filled(i, source),
         ClassOf(i.name) \in
          {"AtomicCAS"}
  PROVE  /\ Len(i.ops) = 7 /\ HoldsReg(i.ops, 1) /\ HoldsReg(i.ops, 2)
         /\ HoldsReg(i.ops, 3) /\ HoldsMem(i.ops, 4)
         /\ \A k \in DOMAIN source : source[k][1] # "x"
<1>1. PICK kinds : kinds = OperandKinds[ClassOf(i.name)]
  OBVIOUS
<1>2. kinds = <<"r", "r", "m">>
  BY <1>1, SMT DEF OperandKinds
<1>3. ClassOf(i.name) \in Tied
  BY SMT DEF Tied
<1>4. Fills(i.ops, source, kinds, 1)
  BY <1>1, <1>3 DEF Filled
<1> QED
  BY <1>2, <1>4 DEF Fills, Place, Size, HoldsKind

\* The operands of the class with an address and two registers.
LEMMA MemoryPairShape ==
  ASSUME NEW i, NEW source, Filled(i, source),
         ClassOf(i.name) \in
          {"PairStore"}
  PROVE  /\ Len(i.ops) = 6 /\ HoldsMem(i.ops, 1) /\ HoldsReg(i.ops, 5)
         /\ HoldsReg(i.ops, 6) /\ \A k \in DOMAIN source : source[k][1] # "x"
<1>1. PICK kinds : kinds = OperandKinds[ClassOf(i.name)]
  OBVIOUS
<1>2. kinds = <<"m", "r", "r">>
  BY <1>1, SMT DEF OperandKinds
<1>3. ClassOf(i.name) \notin Tied
  BY SMT DEF Tied
<1>4. Fills(i.ops, source, kinds, 0)
  BY <1>1, <1>3 DEF Filled
<1> QED
  BY <1>2, <1>4 DEF Fills, Place, Size, HoldsKind

\* The operands of the gather class.
LEMMA GatherShape ==
  ASSUME NEW i, NEW source, Filled(i, source),
         ClassOf(i.name) \in
          {"AVXGather"}
  PROVE  /\ Len(i.ops) = 6 /\ HoldsReg(i.ops, 1) /\ HoldsMem(i.ops, 2)
         /\ HoldsValue(i.ops, 6) /\ i.ops[6] = source[3]
         /\ \A k \in DOMAIN source : source[k][1] = "x" => k = 3
<1>1. PICK kinds : kinds = OperandKinds[ClassOf(i.name)]
  OBVIOUS
<1>2. kinds = <<"v", "m", "i">>
  BY <1>1, SMT DEF OperandKinds
<1>3. ClassOf(i.name) \notin Tied
  BY SMT DEF Tied
<1>4. Fills(i.ops, source, kinds, 0)
  BY <1>1, <1>3 DEF Filled
<1> QED
  BY <1>2, <1>4 DEF Fills, Place, Size, HoldsKind

\* The operands of the scatter class.
LEMMA ScatterShape ==
  ASSUME NEW i, NEW source, Filled(i, source),
         ClassOf(i.name) \in
          {"AVXScatter"}
  PROVE  /\ Len(i.ops) = 6 /\ HoldsMem(i.ops, 1) /\ HoldsReg(i.ops, 5)
         /\ HoldsValue(i.ops, 6) /\ i.ops[6] = source[3]
         /\ \A k \in DOMAIN source : source[k][1] = "x" => k = 3
<1>1. PICK kinds : kinds = OperandKinds[ClassOf(i.name)]
  OBVIOUS
<1>2. kinds = <<"m", "v", "i">>
  BY <1>1, SMT DEF OperandKinds
<1>3. ClassOf(i.name) \notin Tied
  BY SMT DEF Tied
<1>4. Fills(i.ops, source, kinds, 0)
  BY <1>1, <1>3 DEF Filled
<1> QED
  BY <1>2, <1>4 DEF Fills, Place, Size, HoldsKind

-----------------------------------------------------------------------------
(* The instructions the emitter tells apart by their name, by class.       *)
Numbers(source) == \A k \in DOMAIN source : source[k][1] # "x"

\* The instructions the emitter names one by one are those of certain classes.
LEMMA NamedClasses1 ==
  ASSUME NEW n \in DOMAIN Records
  PROVE  /\ (n \in {"PDEPrrr", "PEXTrrr", "CPYBrrr", "CPYWrrr", "MEMFILLrrr"}) <=>
              (ClassOf(n) \in {"TernaryRR", "StringCopy", "StringFill"})
         /\ (n = "LDP") <=> (ClassOf(n) = "PairLoad")
         /\ (n \in {"ATADD", "ATSUB", "ATAND", "ATOR", "ATXOR", "SC", "XCHGmem"})
              <=> (ClassOf(n) \in {"AtomicMem", "AtomicExchange"})
         /\ (n \in {"PREFETCH", "FLUSH", "INVIC", "INVDC"}) <=> (ClassOf(n) =
              "MemoryOnly")
<1>1. \A m \in DOMAIN Opcodes : m \in {"PDEPrrr", "PEXTrrr", "CPYBrrr", "CPYWrrr", "MEMFILLrrr"} =>
         Opcodes[m][2] \in {"TernaryRR", "StringCopy", "StringFill"}
  BY SMTT(60) DEF Opcodes
<1>2. \A m \in DOMAIN Opcodes : Opcodes[m][2] \in {"TernaryRR", "StringCopy", "StringFill"} =>
         m \in {"PDEPrrr", "PEXTrrr", "CPYBrrr", "CPYWrrr", "MEMFILLrrr"}
  BY SMTT(60) DEF Opcodes
<1>3. \A m \in DOMAIN Opcodes : m = "LDP" =>
         Opcodes[m][2] = "PairLoad"
  BY SMTT(60) DEF Opcodes
<1>4. \A m \in DOMAIN Opcodes : Opcodes[m][2] = "PairLoad" =>
         m = "LDP"
  BY SMTT(60) DEF Opcodes
<1>5. \A m \in DOMAIN Opcodes : m \in {"ATADD", "ATSUB", "ATAND", "ATOR", "ATXOR", "SC", "XCHGmem"} =>
         Opcodes[m][2] \in {"AtomicMem", "AtomicExchange"}
  BY SMTT(60) DEF Opcodes
<1>6. \A m \in DOMAIN Opcodes : Opcodes[m][2] \in {"AtomicMem", "AtomicExchange"} =>
         m \in {"ATADD", "ATSUB", "ATAND", "ATOR", "ATXOR", "SC", "XCHGmem"}
  BY SMTT(60) DEF Opcodes
<1>7. \A m \in DOMAIN Opcodes : m \in {"PREFETCH", "FLUSH", "INVIC", "INVDC"} =>
         Opcodes[m][2] = "MemoryOnly"
  BY SMTT(60) DEF Opcodes
<1>8. \A m \in DOMAIN Opcodes : Opcodes[m][2] = "MemoryOnly" =>
         m \in {"PREFETCH", "FLUSH", "INVIC", "INVDC"}
  BY SMTT(60) DEF Opcodes
<1>9. \A m \in DOMAIN Variants :
         Variants[m][2] \notin {"TernaryRR", "StringCopy", "StringFill", "PairLoad", "AtomicMem",
           "AtomicExchange", "MemoryOnly"}
  BY SMT DEF Variants
<1>10. \A m \in DOMAIN Variants :
         m \notin {"PDEPrrr", "PEXTrrr", "CPYBrrr", "CPYWrrr", "MEMFILLrrr", "LDP",
           "ATADD", "ATSUB", "ATAND", "ATOR", "ATXOR", "SC", "XCHGmem",
           "PREFETCH", "FLUSH", "INVIC", "INVDC"}
  BY SMT DEF Variants
<1> QED
  BY <1>1, <1>2, <1>3, <1>4, <1>5, <1>6, <1>7, <1>8, <1>9, <1>10, RecordFields

\* The instructions with an emitter of their own, by class.
LEMMA NamedClasses2 ==
  ASSUME NEW n \in DOMAIN Records
  PROVE  /\ (n = "CMPXCHG") <=> (ClassOf(n) = "AtomicCAS")
         /\ (n = "STP") <=> (ClassOf(n) = "PairStore")
         /\ (n = "XCHG128") <=> (ClassOf(n) = "AtomicExchange128")
         /\ (n = "WRCR") <=> (ClassOf(n) = "WriteControl")
<1>1. \A m \in DOMAIN Opcodes : m = "CMPXCHG" =>
         Opcodes[m][2] = "AtomicCAS"
  BY SMTT(60) DEF Opcodes
<1>2. \A m \in DOMAIN Opcodes : Opcodes[m][2] = "AtomicCAS" =>
         m = "CMPXCHG"
  BY SMTT(60) DEF Opcodes
<1>3. \A m \in DOMAIN Opcodes : m = "STP" =>
         Opcodes[m][2] = "PairStore"
  BY SMTT(60) DEF Opcodes
<1>4. \A m \in DOMAIN Opcodes : Opcodes[m][2] = "PairStore" =>
         m = "STP"
  BY SMTT(60) DEF Opcodes
<1>5. \A m \in DOMAIN Opcodes : m = "XCHG128" =>
         Opcodes[m][2] = "AtomicExchange128"
  BY SMTT(60) DEF Opcodes
<1>6. \A m \in DOMAIN Opcodes : Opcodes[m][2] = "AtomicExchange128" =>
         m = "XCHG128"
  BY SMTT(60) DEF Opcodes
<1>7. \A m \in DOMAIN Opcodes : m = "WRCR" =>
         Opcodes[m][2] = "WriteControl"
  BY SMTT(60) DEF Opcodes
<1>8. \A m \in DOMAIN Opcodes : Opcodes[m][2] = "WriteControl" =>
         m = "WRCR"
  BY SMTT(60) DEF Opcodes
<1>9. \A m \in DOMAIN Variants :
         Variants[m][2] \notin {"AtomicCAS", "PairStore", "AtomicExchange128", "WriteControl"}
  BY SMT DEF Variants
<1>10. \A m \in DOMAIN Variants :
         m \notin {"CMPXCHG", "STP", "XCHG128", "WRCR"}
  BY SMT DEF Variants
<1> QED
  BY <1>1, <1>2, <1>3, <1>4, <1>5, <1>6, <1>7, <1>8, <1>9, <1>10, RecordFields

\* The system instructions the emitter names, by class.
LEMMA NamedClasses3 ==
  ASSUME NEW n \in DOMAIN Records
  PROVE  /\ (n = "SETMODE") <=> (ClassOf(n) = "SysXImm")
         /\ (n \in {"IN", "VMREAD", "RDPMC"}) <=> (ClassOf(n) = "SysXReadImm")
         /\ (n \in {"OUT", "VMWRITE"}) <=> (ClassOf(n) = "SysXWriteImm")
         /\ (n \in {"QUERY", "INVTLB"}) <=> (ClassOf(n) \in {"SysXQuery",
              "SysXPair"})
<1>1. \A m \in DOMAIN Opcodes : m = "SETMODE" =>
         Opcodes[m][2] = "SysXImm"
  BY SMTT(60) DEF Opcodes
<1>2. \A m \in DOMAIN Opcodes : Opcodes[m][2] = "SysXImm" =>
         m = "SETMODE"
  BY SMTT(60) DEF Opcodes
<1>3. \A m \in DOMAIN Opcodes : m \in {"IN", "VMREAD", "RDPMC"} =>
         Opcodes[m][2] = "SysXReadImm"
  BY SMTT(60) DEF Opcodes
<1>4. \A m \in DOMAIN Opcodes : Opcodes[m][2] = "SysXReadImm" =>
         m \in {"IN", "VMREAD", "RDPMC"}
  BY SMTT(60) DEF Opcodes
<1>5. \A m \in DOMAIN Opcodes : m \in {"OUT", "VMWRITE"} =>
         Opcodes[m][2] = "SysXWriteImm"
  BY SMTT(60) DEF Opcodes
<1>6. \A m \in DOMAIN Opcodes : Opcodes[m][2] = "SysXWriteImm" =>
         m \in {"OUT", "VMWRITE"}
  BY SMTT(60) DEF Opcodes
<1>7. \A m \in DOMAIN Opcodes : m \in {"QUERY", "INVTLB"} =>
         Opcodes[m][2] \in {"SysXQuery", "SysXPair"}
  BY SMTT(60) DEF Opcodes
<1>8. \A m \in DOMAIN Opcodes : Opcodes[m][2] \in {"SysXQuery", "SysXPair"} =>
         m \in {"QUERY", "INVTLB"}
  BY SMTT(60) DEF Opcodes
<1>9. \A m \in DOMAIN Variants :
         Variants[m][2] \notin {"SysXImm", "SysXReadImm", "SysXWriteImm", "SysXQuery", "SysXPair"}
  BY SMT DEF Variants
<1>10. \A m \in DOMAIN Variants :
         m \notin {"SETMODE", "IN", "VMREAD", "RDPMC", "OUT", "VMWRITE", "QUERY",
           "INVTLB"}
  BY SMT DEF Variants
<1> QED
  BY <1>1, <1>2, <1>3, <1>4, <1>5, <1>6, <1>7, <1>8, <1>9, <1>10, RecordFields

\* The system instructions the emitter names, by class, continued.
LEMMA NamedClasses4 ==
  ASSUME NEW n \in DOMAIN Records
  PROVE  /\ (n \in {"EOI", "GETCPL", "INVTLBASID", "RNGGET"}) <=> (ClassOf(n) \in
              {"SysXReg", "SysXReadReg"})
         /\ (n = "SENDIPI") <=> (ClassOf(n) = "SysXTernary")
         /\ (n \in {"XSAVE", "XRSTOR", "WRSS"}) <=> (ClassOf(n) \in
              {"SysXMaskedMemory", "SysXStoreMemory"})
<1>1. \A m \in DOMAIN Opcodes : m \in {"EOI", "GETCPL", "INVTLBASID", "RNGGET"} =>
         Opcodes[m][2] \in {"SysXReg", "SysXReadReg"}
  BY SMTT(60) DEF Opcodes
<1>2. \A m \in DOMAIN Opcodes : Opcodes[m][2] \in {"SysXReg", "SysXReadReg"} =>
         m \in {"EOI", "GETCPL", "INVTLBASID", "RNGGET"}
  BY SMTT(60) DEF Opcodes
<1>3. \A m \in DOMAIN Opcodes : m = "SENDIPI" =>
         Opcodes[m][2] = "SysXTernary"
  BY SMTT(60) DEF Opcodes
<1>4. \A m \in DOMAIN Opcodes : Opcodes[m][2] = "SysXTernary" =>
         m = "SENDIPI"
  BY SMTT(60) DEF Opcodes
<1>5. \A m \in DOMAIN Opcodes : m \in {"XSAVE", "XRSTOR", "WRSS"} =>
         Opcodes[m][2] \in {"SysXMaskedMemory", "SysXStoreMemory"}
  BY SMTT(60) DEF Opcodes
<1>6. \A m \in DOMAIN Opcodes : Opcodes[m][2] \in {"SysXMaskedMemory", "SysXStoreMemory"} =>
         m \in {"XSAVE", "XRSTOR", "WRSS"}
  BY SMTT(60) DEF Opcodes
<1>7. \A m \in DOMAIN Variants :
         Variants[m][2] \notin {"SysXReg", "SysXReadReg", "SysXTernary", "SysXMaskedMemory",
           "SysXStoreMemory"}
  BY SMT DEF Variants
<1>8. \A m \in DOMAIN Variants :
         m \notin {"EOI", "GETCPL", "INVTLBASID", "RNGGET", "SENDIPI", "XSAVE", "XRSTOR",
           "WRSS"}
  BY SMT DEF Variants
<1> QED
  BY <1>1, <1>2, <1>3, <1>4, <1>5, <1>6, <1>7, <1>8, RecordFields

\* The classes of the base map.
LEMMA Group0Classes ==
  \A c \in DOMAIN Class : Class[c][1] = 0 =>
    c \in {"CopyRR", "CopyVV", "ALURR", "CarryALURR", "UnaryInPlace",
           "UnaryRR", "CompareRR", "RI64", "ALURI", "CompareRI", "TernaryRI",
           "TernaryByte", "TernaryRR", "StringCopy", "StringFill", "PairLoad",
           "PairStore", "LoadQ", "StoreQ", "AddressCalc", "FPBinary",
           "FPUnary", "FPCompare", "VBinary", "VUnary", "VShiftImm",
           "VectorLoad", "VectorStore", "IntToFP", "FPToInt", "UncondBranch",
           "CondBranch", "Call", "TxnBeginRel", "RegCondBranch",
           "IndirectCall", "IndirectBranch", "TxnBeginAbs", "TrapImm",
           "TxnAbortImm", "PushReg", "PopReg", "TxnAbortReg", "FrameImm",
           "SleepImm", "ReadReg", "TxnReadReg", "ReadControl", "WriteControl",
           "SystemNoOperand", "NoOperand", "TxnNoOperand", "Return",
           "AtomicMem", "AtomicCAS", "AtomicExchange", "AtomicLoad",
           "AtomicExchange128", "MemoryOnly"}
BY SMTT(60) DEF Class

\* The classes of the AVX group.
LEMMA Group1Classes ==
  \A c \in DOMAIN Class : Class[c][1] = 1 =>
    c \in {"AVXBinary", "AVXUnary", "AVXRegImm", "AVXBinaryImm", "AVXGather",
           "AVXScatter", "AVXNoOperand"}
BY SMTT(60) DEF Class

\* The classes of the crypto group.
LEMMA Group2Classes ==
  \A c \in DOMAIN Class : Class[c][1] = 2 =>
    c \in {"CryptoBinary", "CryptoUnary"}
BY SMTT(60) DEF Class

\* The classes of the DSP group.
LEMMA Group3Classes ==
  \A c \in DOMAIN Class : Class[c][1] = 3 =>
    c \in {"DSPTernary", "DSPQuaternary", "DSPPairOut", "DSPUnary",
           "DSPRegImm", "DSPDot", "DSPSumDot"}
BY SMTT(60) DEF Class

\* The classes of the system group.
LEMMA Group4Classes ==
  \A c \in DOMAIN Class : Class[c][1] = 4 =>
    c \in {"SysXQuery", "SysXReadImm", "SysXWriteImm", "SysXMaskedMemory",
           "SysXNoOperand", "WindowTransition", "SysXPair", "SysXTernary",
           "SysXReg", "SysXReadReg", "SysXMemory", "SysXStoreMemory", "SysXImm"}
BY SMTT(60) DEF Class

\* The classes of the FPX group.
LEMMA Group5Classes ==
  \A c \in DOMAIN Class : Class[c][1] = 5 =>
    c \in {"FPXFused", "FPXBinary", "FPXUnary", "FPXLoad", "FPXStore"}
BY SMTT(60) DEF Class

\* An immediate is no label.
LEMMA ImmIsNumber == \A op : IsImm(op) => op[1] # "x"
BY DEF IsImm

\* The classes without operands name no label.
LEMMA BareShape ==
  ASSUME NEW i, NEW source, Filled(i, source),
         ClassOf(i.name) \in {"NoOperand", "SystemNoOperand", "TxnNoOperand", "Return",
                             "AVXNoOperand", "SysXNoOperand", "WindowTransition"}
  PROVE  Numbers(source)
<1>1. PICK kinds : kinds = OperandKinds[ClassOf(i.name)]
  OBVIOUS
<1>2. kinds = <<>>
  BY <1>1, SMT DEF OperandKinds
<1>3. DOMAIN source = 1 .. Len(kinds)
  BY <1>1 DEF Filled, Fills
<1> QED
  BY <1>2, <1>3 DEF Numbers

\* A base instruction that may not name a label emits bytes, and no label is accepted.
LEMMA BaseSolid ==
  ASSUME NEW i, i.name \in DOMAIN Records, NEW source, Filled(i, source), NEW is64 \in BOOLEAN,
         GroupOf(i.name) = 0,
         ClassOf(i.name) \notin {"UncondBranch", "CondBranch", "Call", "TxnBeginRel", "RegCondBranch",
             "RI64", "ALURI", "CompareRI"}
  PROVE  Solid(EmitBase(i, is64)) /\ (EmitBase(i, is64).ok => Numbers(source))
<1>1. CASE ClassOf(i.name) \in {"NoOperand", "SystemNoOperand", "TxnNoOperand",
           "Return"}
  <2>1. FormOf(i.name) = "NoOperand"
    BY <1>1, SMT DEF FormOf, Class
  <2>2. EmitBase(i, is64) = Bytes(OpcodeBytes(i))
    BY <1>1, <2>1 DEF EmitBase
  <2> QED
    BY <1>1, <2>1, <2>2, BareShape, NoOperandEmits, ImmIsNumber DEF Numbers
<1>2. CASE ClassOf(i.name) \in {"TrapImm", "TxnAbortImm"}
  <2>1. FormOf(i.name) = "TrapImm"
    BY <1>2, SMT DEF FormOf, Class
  <2>2. EmitBase(i, is64) = EmitTrapImm(i)
    BY <1>2, <2>1 DEF EmitBase
  <2> QED
    BY <1>2, <2>1, <2>2, ValueShape, TrapEmits, ImmIsNumber DEF Numbers
<1>3. CASE ClassOf(i.name) \in {"FrameImm", "SleepImm"}
  <2>1. FormOf(i.name) = "FrameImm"
    BY <1>3, SMT DEF FormOf, Class
  <2>2. EmitBase(i, is64) = EmitFrameImm(i, is64)
    BY <1>3, <2>1 DEF EmitBase
  <2> QED
    BY <1>3, <2>1, <2>2, ValueShape, FrameEmits, ImmIsNumber DEF Numbers
<1>4. CASE ClassOf(i.name) \in {"IndirectCall", "IndirectBranch", "TxnBeginAbs"}
  <2>1. FormOf(i.name) = "IndirectCall"
    BY <1>4, SMT DEF FormOf, Class
  <2>2. EmitBase(i, is64) = EmitIndirectCall(i)
    BY <1>4, <2>1 DEF EmitBase
  <2> QED
    BY <1>4, <2>1, <2>2, OneShape, OneRegisterEmits, ImmIsNumber DEF Numbers
<1>5. CASE ClassOf(i.name) = "UnaryInPlace"
  <2>1. FormOf(i.name) = "UnaryInPlace"
    BY <1>5, SMT DEF FormOf, Class
  <2>2. EmitBase(i, is64) = EmitOneRegister(i)
    BY <1>5, <2>1 DEF EmitBase
  <2> QED
    BY <1>5, <2>1, <2>2, OneTiedShape, OneRegisterEmits, ImmIsNumber DEF Numbers
<1>6. CASE ClassOf(i.name) \in {"PushReg", "PopReg", "TxnAbortReg", "ReadReg",
           "TxnReadReg"}
  <2>1. FormOf(i.name) \in {"StackReg", "ReadReg"}
    BY <1>6, SMT DEF FormOf, Class
  <2>2. EmitBase(i, is64) = EmitOneRegister(i)
    BY <1>6, <2>1 DEF EmitBase
  <2> QED
    BY <1>6, <2>1, <2>2, OneShape, OneRegisterEmits, ImmIsNumber DEF Numbers
<1>7. CASE ClassOf(i.name) = "ReadControl"
  <2>1. FormOf(i.name) = "ControlReg"
    BY <1>7, SMT DEF FormOf, Class
  <2>2. EmitBase(i, is64) = EmitControlReg(i)
    BY <1>7, <2>1, NamedClasses2 DEF EmitBase
  <2> QED
    BY <1>7, <2>1, <2>2, RegValueShape, ControlRegEmits, ImmIsNumber, NamedClasses2 DEF Numbers
<1>8. CASE ClassOf(i.name) = "WriteControl"
  <2>1. FormOf(i.name) = "ControlReg"
    BY <1>8, SMT DEF FormOf, Class
  <2>2. EmitBase(i, is64) = EmitControlReg(i)
    BY <1>8, <2>1, NamedClasses2 DEF EmitBase
  <2> QED
    BY <1>8, <2>1, <2>2, ValueRegShape, ControlRegEmits, ImmIsNumber, NamedClasses2 DEF Numbers
<1>9. CASE ClassOf(i.name) \in {"TernaryRI", "TernaryByte", "VShiftImm"}
  <2>1. FormOf(i.name) \in {"TernaryRI", "TernaryByte"}
    BY <1>9, SMT DEF FormOf, Class
  <2>2. EmitBase(i, is64) = EmitTernaryImm(i, is64)
    BY <1>9, <2>1 DEF EmitBase
  <2> QED
    BY <1>9, <2>1, <2>2, PairValueShape, TernaryImmEmits, ImmIsNumber DEF Numbers
<1>10. CASE ClassOf(i.name) \in {"TernaryRR", "StringCopy", "StringFill"}
  <2>1. FormOf(i.name) = "FPBinary"
    BY <1>10, SMT DEF FormOf, Class
  <2>2. EmitBase(i, is64) = EmitTernaryRegister(i)
    BY <1>10, <2>1, NamedClasses1 DEF EmitBase
  <2> QED
    BY <1>10, <2>1, <2>2, TripleShape, RegisterTernaryEmits, ImmIsNumber, NamedClasses1 DEF Numbers
<1>11. CASE ClassOf(i.name) = "PairLoad"
  <2>1. FormOf(i.name) = "FPBinary"
    BY <1>11, SMT DEF FormOf, Class
  <2>2. EmitBase(i, is64) = EmitPairLoad(i)
    BY <1>11, <2>1, NamedClasses1 DEF EmitBase
  <2> QED
    BY <1>11, <2>1, <2>2, PairMemoryShape, RegisterTernaryEmits, ImmIsNumber, NamedClasses1 DEF Numbers, HoldsMem
<1>12. CASE ClassOf(i.name) \in {"FPBinary", "VBinary"}
  <2>1. FormOf(i.name) \in {"FPBinary", "VBinary"}
    BY <1>12, SMT DEF FormOf, Class
  <2>2. EmitBase(i, is64) = EmitVectorBinary(i)
    BY <1>12, <2>1, NamedClasses1 DEF EmitBase
  <2> QED
    BY <1>12, <2>1, <2>2, TripleShape, RegisterTernaryEmits, ImmIsNumber, NamedClasses1 DEF Numbers
<1>13. CASE ClassOf(i.name) \in {"CopyVV", "FPUnary", "FPCompare", "VUnary"}
  <2>1. FormOf(i.name) = "CopyVV"
    BY <1>13, SMT DEF FormOf, Class
  <2>2. EmitBase(i, is64) = EmitVectorUnary(i)
    BY <1>13, <2>1 DEF EmitBase
  <2> QED
    BY <1>13, <2>1, <2>2, PairShape, VectorPairEmits, ImmIsNumber DEF Numbers
<1>14. CASE ClassOf(i.name) \in {"IntToFP", "FPToInt"}
  <2>1. FormOf(i.name) \in {"IntToFP", "FPToInt"}
    BY <1>14, SMT DEF FormOf, Class
  <2>2. EmitBase(i, is64) = EmitConversion(i)
    BY <1>14, <2>1 DEF EmitBase
  <2> QED
    BY <1>14, <2>1, <2>2, PairShape, VectorPairEmits, ImmIsNumber DEF Numbers
<1>15. CASE ClassOf(i.name) = "VectorLoad"
  <2>1. FormOf(i.name) = "VectorLoad"
    BY <1>15, SMT DEF FormOf, Class
  <2>2. EmitBase(i, is64) = EmitVectorMemory(i)
    BY <1>15, <2>1, NamedClasses2 DEF EmitBase
  <2> QED
    BY <1>15, <2>1, <2>2, LoadShape, VectorMemoryEmits, ImmIsNumber, NamedClasses2 DEF Numbers
<1>16. CASE ClassOf(i.name) = "VectorStore"
  <2>1. FormOf(i.name) = "VectorStore"
    BY <1>16, SMT DEF FormOf, Class
  <2>2. EmitBase(i, is64) = EmitVectorMemory(i)
    BY <1>16, <2>1, NamedClasses2 DEF EmitBase
  <2> QED
    BY <1>16, <2>1, <2>2, StoreShape, VectorMemoryEmits, ImmIsNumber, NamedClasses2 DEF Numbers
<1>17. CASE ClassOf(i.name) = "AtomicExchange128"
  <2>1. FormOf(i.name) = "VectorLoad"
    BY <1>17, SMT DEF FormOf, Class
  <2>2. EmitBase(i, is64) = EmitVectorMemory(i)
    BY <1>17, <2>1, NamedClasses2 DEF EmitBase
  <2> QED
    BY <1>17, <2>1, <2>2, LoadTiedShape, VectorMemoryEmits, ImmIsNumber, NamedClasses2 DEF Numbers
<1>18. CASE ClassOf(i.name) \in {"LoadQ", "AtomicLoad", "AddressCalc"}
  <2>1. FormOf(i.name) \in {"LoadQ", "AddressCalc"}
    BY <1>18, SMT DEF FormOf, Class
  <2>2. EmitBase(i, is64) = EmitMemory(i)
    BY <1>18, <2>1, NamedClasses1, NamedClasses2 DEF EmitBase
  <2> QED
    BY <1>18, <2>1, <2>2, LoadShape, MemoryEmits, ImmIsNumber, NamedClasses1, NamedClasses2 DEF Numbers, MemPlace, Atomics, MemoryOnlys
<1>19. CASE ClassOf(i.name) \in {"AtomicMem", "AtomicExchange"}
  <2>1. FormOf(i.name) = "LoadQ"
    BY <1>19, SMT DEF FormOf, Class
  <2>2. EmitBase(i, is64) = EmitMemory(i)
    BY <1>19, <2>1, NamedClasses1, NamedClasses2 DEF EmitBase
  <2> QED
    BY <1>19, <2>1, <2>2, LoadTiedShape, MemoryEmits, ImmIsNumber, NamedClasses1, NamedClasses2 DEF Numbers, MemPlace, Atomics, MemoryOnlys
<1>20. CASE ClassOf(i.name) = "AtomicCAS"
  <2>1. FormOf(i.name) = "LoadQ"
    BY <1>20, SMT DEF FormOf, Class
  <2>2. EmitBase(i, is64) = EmitMemory(i)
    BY <1>20, <2>1, NamedClasses1, NamedClasses2 DEF EmitBase
  <2> QED
    BY <1>20, <2>1, <2>2, PairMemoryTiedShape, MemoryEmits, ImmIsNumber, NamedClasses1, NamedClasses2 DEF Numbers, MemPlace, Atomics, MemoryOnlys
<1>21. CASE ClassOf(i.name) = "MemoryOnly"
  <2>1. FormOf(i.name) = "LoadQ"
    BY <1>21, SMT DEF FormOf, Class
  <2>2. EmitBase(i, is64) = EmitMemory(i)
    BY <1>21, <2>1, NamedClasses1, NamedClasses2 DEF EmitBase
  <2> QED
    BY <1>21, <2>1, <2>2, MemoryShape, MemoryEmits, ImmIsNumber, NamedClasses1, NamedClasses2 DEF Numbers, MemPlace, Atomics, MemoryOnlys
<1>22. CASE ClassOf(i.name) = "StoreQ"
  <2>1. FormOf(i.name) = "StoreQ"
    BY <1>22, SMT DEF FormOf, Class
  <2>2. EmitBase(i, is64) = EmitMemory(i)
    BY <1>22, <2>1, NamedClasses1, NamedClasses2 DEF EmitBase
  <2> QED
    BY <1>22, <2>1, <2>2, StoreShape, MemoryEmits, ImmIsNumber, NamedClasses1, NamedClasses2 DEF Numbers, MemPlace, Atomics, MemoryOnlys
<1>23. CASE ClassOf(i.name) = "PairStore"
  <2>1. FormOf(i.name) = "StoreQ"
    BY <1>23, SMT DEF FormOf, Class
  <2>2. EmitBase(i, is64) = EmitMemory(i)
    BY <1>23, <2>1, NamedClasses1, NamedClasses2 DEF EmitBase
  <2> QED
    BY <1>23, <2>1, <2>2, MemoryPairShape, MemoryEmits, ImmIsNumber, NamedClasses1, NamedClasses2 DEF Numbers, MemPlace, Atomics, MemoryOnlys
<1>24. CASE ClassOf(i.name) \in {"CopyRR", "CompareRR", "UnaryRR"}
  <2>1. FormOf(i.name) \in {"CopyRR", "CompareRR", "UnaryRR"}
    BY <1>24, SMT DEF FormOf, Class
  <2>2. EmitBase(i, is64) = EmitRegisterPair(i)
    BY <1>24, <2>1 DEF EmitBase
  <2> QED
    BY <1>24, <2>1, <2>2, PairShape, RegisterPairEmits, ImmIsNumber DEF Numbers
<1>25. CASE ClassOf(i.name) \in {"ALURR", "CarryALURR"}
  <2>1. FormOf(i.name) = "ALURR"
    BY <1>25, SMT DEF FormOf, Class
  <2>2. EmitBase(i, is64) = EmitRegisterPair(i)
    BY <1>25, <2>1 DEF EmitBase
  <2> QED
    BY <1>25, <2>1, <2>2, PairTiedShape, RegisterPairEmits, ImmIsNumber DEF Numbers
<1> QED
  BY <1>1, <1>2, <1>3, <1>4, <1>5, <1>6, <1>7, <1>8, <1>9, <1>10, <1>11, <1>12, <1>13, <1>14, <1>15, <1>16, <1>17, <1>18, <1>19, <1>20, <1>21, <1>22, <1>23, <1>24, <1>25, RecordRange, Group0Classes DEF GroupOf

\* An AVX instruction emits bytes and accepts no label.
LEMMA AVXSolid ==
  ASSUME NEW i, i.name \in DOMAIN Records, NEW source, Filled(i, source),
         GroupOf(i.name) = 1
  PROVE  Solid(EmitAVX(i)) /\ (EmitAVX(i).ok => Numbers(source))
<1>1. CASE ClassOf(i.name) = "AVXBinary"
  <2>1. FormOf(i.name) = "VBinary"
    BY <1>1, SMT DEF FormOf, Class
  <2> QED
    BY <1>1, <2>1, TripleShape, AVXEmits, ImmIsNumber DEF Numbers, LastOp
<1>2. CASE ClassOf(i.name) = "AVXUnary"
  <2>1. FormOf(i.name) = "CopyVV"
    BY <1>2, SMT DEF FormOf, Class
  <2> QED
    BY <1>2, <2>1, PairShape, AVXEmits, ImmIsNumber DEF Numbers, LastOp
<1>3. CASE ClassOf(i.name) = "AVXRegImm"
  <2>1. FormOf(i.name) = "TernaryByte"
    BY <1>3, SMT DEF FormOf, Class
  <2> QED
    BY <1>3, <2>1, PairValueShape, AVXEmits, ImmIsNumber DEF Numbers, LastOp
<1>4. CASE ClassOf(i.name) = "AVXBinaryImm"
  <2>1. FormOf(i.name) = "FPBinary"
    BY <1>4, SMT DEF FormOf, Class
  <2> QED
    BY <1>4, <2>1, TripleValueShape, AVXEmits, ImmIsNumber DEF Numbers, LastOp
<1>5. CASE ClassOf(i.name) = "AVXGather"
  <2>1. FormOf(i.name) = "VectorLoad"
    BY <1>5, SMT DEF FormOf, Class
  <2> QED
    BY <1>5, <2>1, GatherShape, AVXEmits, ImmIsNumber DEF Numbers, LastOp
<1>6. CASE ClassOf(i.name) = "AVXScatter"
  <2>1. FormOf(i.name) = "VectorStore"
    BY <1>6, SMT DEF FormOf, Class
  <2> QED
    BY <1>6, <2>1, ScatterShape, AVXEmits, ImmIsNumber DEF Numbers, LastOp
<1>7. CASE ClassOf(i.name) = "AVXNoOperand"
  <2>1. FormOf(i.name) = "NoOperand"
    BY <1>7, SMT DEF FormOf, Class
  <2> QED
    BY <1>7, <2>1, BareShape, AVXEmits, ImmIsNumber DEF Numbers, LastOp
<1> QED
  BY <1>1, <1>2, <1>3, <1>4, <1>5, <1>6, <1>7, RecordRange, Group1Classes DEF GroupOf

\* A crypto instruction emits bytes and accepts no label.
LEMMA CryptoSolid ==
  ASSUME NEW i, i.name \in DOMAIN Records, NEW source, Filled(i, source),
         GroupOf(i.name) = 2
  PROVE  Solid(EmitCrypto(i)) /\ (EmitCrypto(i).ok => Numbers(source))
<1>1. CASE ClassOf(i.name) = "CryptoBinary"
  <2>1. FormOf(i.name) = "VBinary"
    BY <1>1, SMT DEF FormOf, Class
  <2>2. Len(i.ops) = 3
    BY <1>1, TripleShape
  <2>3. HoldsReg(i.ops, 1) /\ HoldsReg(i.ops, 2)
    BY <1>1, TripleShape
  <2>4. Numbers(source)
    BY <1>1, TripleShape DEF Numbers
  <2>5. ASSUME NEW k \in 3 .. Len(i.ops) PROVE HoldsReg(i.ops, k)
    <3>1. k = 3
      BY <2>2
    <3> QED
      BY <1>1, <3>1, TripleShape
  <2>6. Len(i.ops) \in Nat /\ Len(i.ops) >= 2
    BY <2>2
  <2> QED
    BY <2>1, <2>3, <2>4, <2>5, <2>6, CryptoEmits
<1>2. CASE ClassOf(i.name) = "CryptoUnary"
  <2>1. FormOf(i.name) = "CopyVV"
    BY <1>2, SMT DEF FormOf, Class
  <2>2. Len(i.ops) = 2
    BY <1>2, PairShape
  <2>3. HoldsReg(i.ops, 1) /\ HoldsReg(i.ops, 2)
    BY <1>2, PairShape
  <2>4. Numbers(source)
    BY <1>2, PairShape DEF Numbers
  <2>5. ASSUME NEW k \in 3 .. Len(i.ops) PROVE HoldsReg(i.ops, k)
    <3>1. FALSE
      BY <2>2
    <3> QED
      BY <1>2, <3>1, PairShape
  <2>6. Len(i.ops) \in Nat /\ Len(i.ops) >= 2
    BY <2>2
  <2> QED
    BY <2>1, <2>3, <2>4, <2>5, <2>6, CryptoEmits
<1> QED
  BY <1>1, <1>2, RecordRange, Group2Classes DEF GroupOf

\* A DSP instruction emits bytes and accepts no label.
LEMMA DSPSolid ==
  ASSUME NEW i, i.name \in DOMAIN Records, NEW source, Filled(i, source),
         GroupOf(i.name) = 3
  PROVE  Solid(EmitDSP(i)) /\ (EmitDSP(i).ok => Numbers(source))
<1>1. CASE ClassOf(i.name) \in {"DSPTernary", "DSPDot"}
  <2>1. FormOf(i.name) \in {"FPBinary", "VBinary"}
    BY <1>1, SMT DEF FormOf, Class
  <2>2. Len(i.ops) = 3
    BY <1>1, TripleShape
  <2>3. HoldsReg(i.ops, 1) /\ HoldsReg(i.ops, 2)
    BY <1>1, TripleShape
  <2>4. Numbers(source)
    BY <1>1, TripleShape DEF Numbers
  <2>5. ASSUME NEW k \in 3 .. Len(i.ops) PROVE HoldsReg(i.ops, k)
    <3>1. k = 3
      BY <2>2
    <3> QED
      BY <1>1, <3>1, TripleShape
  <2>6. Len(i.ops) \in Nat /\ Len(i.ops) >= 2
    BY <2>2
  <2> QED
    BY <2>1, <2>3, <2>4, <2>5, <2>6, DSPEmits
<1>2. CASE ClassOf(i.name) \in {"DSPQuaternary", "DSPPairOut"}
  <2>1. FormOf(i.name) = "FPBinary"
    BY <1>2, SMT DEF FormOf, Class
  <2>2. Len(i.ops) = 4
    BY <1>2, QuadrupleShape
  <2>3. HoldsReg(i.ops, 1) /\ HoldsReg(i.ops, 2)
    BY <1>2, QuadrupleShape
  <2>4. Numbers(source)
    BY <1>2, QuadrupleShape DEF Numbers
  <2>5. ASSUME NEW k \in 3 .. Len(i.ops) PROVE HoldsReg(i.ops, k)
    <3>1. k = 3 \/ k = 4
      BY <2>2
    <3> QED
      BY <1>2, <3>1, QuadrupleShape
  <2>6. Len(i.ops) \in Nat /\ Len(i.ops) >= 2
    BY <2>2
  <2> QED
    BY <2>1, <2>3, <2>4, <2>5, <2>6, DSPEmits
<1>3. CASE ClassOf(i.name) \in {"DSPUnary", "DSPSumDot"}
  <2>1. FormOf(i.name) = "CopyVV"
    BY <1>3, SMT DEF FormOf, Class
  <2>2. Len(i.ops) = 2
    BY <1>3, PairShape
  <2>3. HoldsReg(i.ops, 1) /\ HoldsReg(i.ops, 2)
    BY <1>3, PairShape
  <2>4. Numbers(source)
    BY <1>3, PairShape DEF Numbers
  <2>5. ASSUME NEW k \in 3 .. Len(i.ops) PROVE HoldsReg(i.ops, k)
    <3>1. FALSE
      BY <2>2
    <3> QED
      BY <1>3, <3>1, PairShape
  <2>6. Len(i.ops) \in Nat /\ Len(i.ops) >= 2
    BY <2>2
  <2> QED
    BY <2>1, <2>3, <2>4, <2>5, <2>6, DSPEmits
<1>4. CASE ClassOf(i.name) = "DSPRegImm"
  <2>1. FormOf(i.name) = "TernaryByte"
    BY <1>4, SMT DEF FormOf, Class
  <2> QED
    BY <1>4, <2>1, PairValueShape, DSPEmits, ImmIsNumber DEF Numbers, LastOp
<1> QED
  BY <1>1, <1>2, <1>3, <1>4, RecordRange, Group3Classes DEF GroupOf

\* A system instruction emits bytes and accepts no label.
LEMMA SysXSolid ==
  ASSUME NEW i, i.name \in DOMAIN Records, NEW source, Filled(i, source),
         GroupOf(i.name) = 4
  PROVE  Solid(EmitSysX(i)) /\ (EmitSysX(i).ok => Numbers(source))
<1>1. CASE ClassOf(i.name) \in {"SysXQuery", "SysXPair"}
  <2>1. FormOf(i.name) = "CompareRR"
    BY <1>1, SMT DEF FormOf, Class
  <2> QED
    BY <1>1, <2>1, PairShape, SysXEmits, ImmIsNumber, NamedClasses3, NamedClasses4 DEF Numbers, LastOp
<1>2. CASE ClassOf(i.name) = "SysXReadImm"
  <2>1. FormOf(i.name) = "ControlReg"
    BY <1>2, SMT DEF FormOf, Class
  <2> QED
    BY <1>2, <2>1, RegValueShape, SysXEmits, ImmIsNumber, NamedClasses3, NamedClasses4 DEF Numbers, LastOp
<1>3. CASE ClassOf(i.name) = "SysXWriteImm"
  <2>1. FormOf(i.name) = "ControlReg"
    BY <1>3, SMT DEF FormOf, Class
  <2> QED
    BY <1>3, <2>1, ValueRegShape, SysXEmits, ImmIsNumber, NamedClasses3, NamedClasses4 DEF Numbers, LastOp
<1>4. CASE ClassOf(i.name) \in {"SysXMaskedMemory", "SysXStoreMemory"}
  <2>1. FormOf(i.name) = "StoreQ"
    BY <1>4, SMT DEF FormOf, Class
  <2> QED
    BY <1>4, <2>1, StoreShape, SysXEmits, ImmIsNumber, NamedClasses3, NamedClasses4 DEF Numbers, LastOp
<1>5. CASE ClassOf(i.name) \in {"SysXNoOperand", "WindowTransition"}
  <2>1. FormOf(i.name) = "NoOperand"
    BY <1>5, SMT DEF FormOf, Class
  <2> QED
    BY <1>5, <2>1, BareShape, SysXEmits, ImmIsNumber, NamedClasses3, NamedClasses4 DEF Numbers, LastOp
<1>6. CASE ClassOf(i.name) = "SysXTernary"
  <2>1. FormOf(i.name) = "FPBinary"
    BY <1>6, SMT DEF FormOf, Class
  <2> QED
    BY <1>6, <2>1, TripleShape, SysXEmits, ImmIsNumber, NamedClasses3, NamedClasses4 DEF Numbers, LastOp
<1>7. CASE ClassOf(i.name) \in {"SysXReg", "SysXReadReg"}
  <2>1. FormOf(i.name) \in {"StackReg", "ReadReg"}
    BY <1>7, SMT DEF FormOf, Class
  <2> QED
    BY <1>7, <2>1, OneShape, SysXEmits, ImmIsNumber, NamedClasses3, NamedClasses4 DEF Numbers, LastOp
<1>8. CASE ClassOf(i.name) = "SysXMemory"
  <2>1. FormOf(i.name) = "LoadQ"
    BY <1>8, SMT DEF FormOf, Class
  <2> QED
    BY <1>8, <2>1, MemoryShape, SysXEmits, ImmIsNumber, NamedClasses3, NamedClasses4 DEF Numbers, LastOp
<1>9. CASE ClassOf(i.name) = "SysXImm"
  <2>1. FormOf(i.name) = "TrapImm"
    BY <1>9, SMT DEF FormOf, Class
  <2> QED
    BY <1>9, <2>1, ValueShape, SysXEmits, ImmIsNumber, NamedClasses3, NamedClasses4 DEF Numbers, LastOp
<1> QED
  BY <1>1, <1>2, <1>3, <1>4, <1>5, <1>6, <1>7, <1>8, <1>9, RecordRange, Group4Classes DEF GroupOf

\* An FPX instruction emits bytes and accepts no label.
LEMMA FPXSolid ==
  ASSUME NEW i, i.name \in DOMAIN Records, NEW source, Filled(i, source),
         GroupOf(i.name) = 5
  PROVE  Solid(EmitFPX(i)) /\ (EmitFPX(i).ok => Numbers(source))
<1>1. CASE ClassOf(i.name) = "FPXFused"
  <2>1. FormOf(i.name) = "FPBinary"
    BY <1>1, SMT DEF FormOf, Class
  <2>2. Len(i.ops) = 4
    BY <1>1, QuadrupleShape
  <2>3. HoldsReg(i.ops, 1) /\ HoldsReg(i.ops, 2)
    BY <1>1, QuadrupleShape
  <2>4. Numbers(source)
    BY <1>1, QuadrupleShape DEF Numbers
  <2>5. ASSUME NEW k \in 3 .. Len(i.ops) PROVE HoldsReg(i.ops, k)
    <3>1. k = 3 \/ k = 4
      BY <2>2
    <3> QED
      BY <1>1, <3>1, QuadrupleShape
  <2>6. Len(i.ops) \in Nat /\ Len(i.ops) >= 2
    BY <2>2
  <2> QED
    BY <2>1, <2>3, <2>4, <2>5, <2>6, FPXEmits
<1>2. CASE ClassOf(i.name) = "FPXBinary"
  <2>1. FormOf(i.name) = "FPBinary"
    BY <1>2, SMT DEF FormOf, Class
  <2>2. Len(i.ops) = 3
    BY <1>2, TripleShape
  <2>3. HoldsReg(i.ops, 1) /\ HoldsReg(i.ops, 2)
    BY <1>2, TripleShape
  <2>4. Numbers(source)
    BY <1>2, TripleShape DEF Numbers
  <2>5. ASSUME NEW k \in 3 .. Len(i.ops) PROVE HoldsReg(i.ops, k)
    <3>1. k = 3
      BY <2>2
    <3> QED
      BY <1>2, <3>1, TripleShape
  <2>6. Len(i.ops) \in Nat /\ Len(i.ops) >= 2
    BY <2>2
  <2> QED
    BY <2>1, <2>3, <2>4, <2>5, <2>6, FPXEmits
<1>3. CASE ClassOf(i.name) = "FPXUnary"
  <2>1. FormOf(i.name) = "CopyVV"
    BY <1>3, SMT DEF FormOf, Class
  <2>2. Len(i.ops) = 2
    BY <1>3, PairShape
  <2>3. HoldsReg(i.ops, 1) /\ HoldsReg(i.ops, 2)
    BY <1>3, PairShape
  <2>4. Numbers(source)
    BY <1>3, PairShape DEF Numbers
  <2>5. ASSUME NEW k \in 3 .. Len(i.ops) PROVE HoldsReg(i.ops, k)
    <3>1. FALSE
      BY <2>2
    <3> QED
      BY <1>3, <3>1, PairShape
  <2>6. Len(i.ops) \in Nat /\ Len(i.ops) >= 2
    BY <2>2
  <2> QED
    BY <2>1, <2>3, <2>4, <2>5, <2>6, FPXEmits
<1>4. CASE ClassOf(i.name) = "FPXLoad"
  <2>1. FormOf(i.name) = "ScalarFPLoad"
    BY <1>4, SMT DEF FormOf, Class
  <2> QED
    BY <1>4, <2>1, LoadShape, FPXEmits, ImmIsNumber DEF Numbers, LastOp
<1>5. CASE ClassOf(i.name) = "FPXStore"
  <2>1. FormOf(i.name) = "ScalarFPStore"
    BY <1>5, SMT DEF FormOf, Class
  <2> QED
    BY <1>5, <2>1, StoreShape, FPXEmits, ImmIsNumber DEF Numbers, LastOp
<1> QED
  BY <1>1, <1>2, <1>3, <1>4, <1>5, RecordRange, Group5Classes DEF GroupOf

-----------------------------------------------------------------------------
(* The instructions whose last operand may be a label.                     *)
BranchClasses == {"UncondBranch", "CondBranch", "Call", "TxnBeginRel", "RegCondBranch"}
AddressClasses == {"RI64", "ALURI", "CompareRI"}

\* What comes before the field of a label: the opcode, or the opcode and a register.
LeadBytes(i) == IF FormOf(i.name) = "BranchRel32" THEN OpcodeBytes(i)
              ELSE RegForm(0, OpcodeBytes(i), 0, Num(i, 1), <<>>)

\* What an emitter returns for a label: a zero field at the end, and one fixup on it.
Leaves(r, start, width, fixup) ==
  /\ r.ok /\ r.bytes \in Seq(Byte) /\ Len(r.bytes) = Len(start) + width
  /\ \A j \in 1 .. Len(start) : r.bytes[j] = start[j]
  /\ \A j \in Len(start) + 1 .. Len(start) + width : r.bytes[j] = 0
  /\ r.fixups = <<fixup>>

FieldFixup(at, label, branch, is64) ==
  [offset |-> at, label |-> label, addend |-> IF branch THEN -4 ELSE 0,
   kind |-> IF branch THEN "pcrel32" ELSE IF is64 THEN "data8" ELSE "data4", pcrel |-> TRUE]

\* A field of zeros after the opening is what Leaves says.
LEMMA ZeroField ==
  ASSUME NEW start \in Seq(Byte), NEW zeros \in Seq(Byte), NEW width \in Nat, Len(zeros) = width,
         \A j \in 1 .. width : zeros[j] = 0, NEW fixup
  PROVE Leaves(Emitted(start \o zeros, <<fixup>>), start, width, fixup)
<1>1. start \o zeros \in Seq(Byte) /\ Len(start \o zeros) = Len(start) + width
  BY Concat
<1>2. \A j \in 1 .. Len(start) : (start \o zeros)[j] = start[j]
  OBVIOUS
<1>3. ASSUME NEW j \in Len(start) + 1 .. Len(start) + width PROVE (start \o zeros)[j] = 0
  <2>1. (start \o zeros)[j] = zeros[j - Len(start)]
    OBVIOUS
  <2>2. j - Len(start) \in 1 .. width
    OBVIOUS
  <2> QED
    BY <2>1, <2>2
<1> QED
  BY <1>1, <1>2, <1>3 DEF Leaves, Emitted

\* The four zeros of a field.
LEMMA ZeroBytes ==
  /\ <<0, 0, 0, 0>> \in Seq(Byte) /\ Len(<<0, 0, 0, 0>>) = 4
  /\ \A j \in 1 .. 4 : << 0, 0, 0, 0>>[j] = 0
BY DEF Byte

\* Two fields of four zeros are one of eight.
LEMMA TwoZeroHalves ==
  ASSUME NEW z \in Seq(Byte), Len(z) = 4, \A j \in 1 .. 4 : z[j] = 0
  PROVE z \o z \in Seq(Byte) /\ Len(z \o z) = 8 /\ \A j \in 1 .. 8 : (z \o z)[j] = 0
<1>1. z \o z \in Seq(Byte) /\ Len(z \o z) = Len(z) + Len(z)
  BY Concat
<1>2. Len(z \o z) = 8
  BY <1>1
<1>3. ASSUME NEW j \in 1 .. 8 PROVE (z \o z)[j] = 0
  <2>1. (z \o z)[j] = IF j <= Len(z) THEN z[j] ELSE z[j - Len(z)]
    BY <1>1, <1>2, ConcatProperties
  <2>2. CASE j <= 4
    BY <2>1, <2>2
  <2>3. CASE j > 4
    <3>1. j - 4 \in 1 .. 4
      BY <2>3
    <3> QED
      BY <2>1, <2>3, <3>1
  <2>4. j <= 4 \/ j > 4
    OBVIOUS
  <2> QED
    BY <2>2, <2>3, <2>4
<1> QED
  BY <1>1, <1>2, <1>3

\* The zero the emitter writes for an address it does not know.
LEMMA ZeroAddress ==
  ASSUME NEW is64 \in BOOLEAN
  PROVE /\ AddressBytes(Imm(0), is64) \in Seq(Byte)
        /\ Len(AddressBytes(Imm(0), is64)) = IF is64 THEN 8 ELSE 4
        /\ \A j \in 1 .. (IF is64 THEN 8 ELSE 4) : AddressBytes(Imm(0), is64)[j] = 0
<1>1. Imm(0)[2] = 0 /\ Imm(0)[3] = 0
  BY DEF Imm
<1>2. PICK z : z = LittleEndian(0, 4)
  OBVIOUS
<1>3. z \in Seq(Byte) /\ Len(z) = 4
  BY <1>2, LittleEndianBytes
<1>4. \A j \in 1 .. 4 : z[j] = 0
  <2>1. z[1] = 0 % 256 /\ z[2] = (0 \div 256) % 256 /\ z[3] = (0 \div 65536) % 256
          /\ z[4] = (0 \div 16777216) % 256
    BY <1>2, WordBytes
  <2> QED
    BY <2>1
<1>5. AddressBytes(Imm(0), is64) = z \o (IF is64 THEN z ELSE <<>>)
  BY <1>1, <1>2 DEF AddressBytes
<1>6. CASE is64
  <2>1. AddressBytes(Imm(0), is64) = z \o z
    BY <1>5, <1>6
  <2>2. z \o z \in Seq(Byte) /\ Len(z \o z) = 8 /\ \A j \in 1 .. 8 : (z \o z)[j] = 0
    BY <1>3, <1>4, TwoZeroHalves
  <2>3. (IF is64 THEN 8 ELSE 4) = 8
    BY <1>6
  <2> HIDE <1>6
  <2> QED
    BY <2>1, <2>2, <2>3
<1>7. CASE ~is64
  <2>1. AddressBytes(Imm(0), is64) = z
    BY <1>3, <1>5, <1>7
  <2> QED
    BY <1>3, <1>4, <1>7, <2>1
<1> QED
  BY <1>6, <1>7

\* Rel32 after an opening: bytes for an immediate in range, a field for a label.
LEMMA Rel32Emits ==
  ASSUME NEW start \in Seq(Byte), Len(start) > 0, NEW op, NEW is64 \in BOOLEAN
  PROVE /\ IsImm(op) => Solid(Rel32(start, op))
        /\ ~IsImm(op) => Leaves(Rel32(start, op), start, 4,
                                FieldFixup(Len(start), op[2], TRUE, is64))
<1>1. CASE IsImm(op)
  <2>1. PICK fits, tail : fits = SInt32(op) /\ tail = LittleEndian(op[2], 4)
    OBVIOUS
  <2>2. Rel32(start, op) = EmitIf(fits, start \o tail)
    BY <1>1, <2>1 DEF Rel32
  <2>3. CASE SInt32(op)
    <3>1. op[2] \in Int
      BY <2>3, WordInt DEF SInt32
    <3>2. tail \in Seq(Byte)
      BY <2>1, <3>1, LittleEndianBytes
    <3>3. start \o tail \in Seq(Byte) /\ Len(start \o tail) > 0
      BY <3>2
    <3> QED
      BY <1>1, <2>2, <3>3, SolidBytes
  <2>4. CASE ~SInt32(op)
    BY <1>1, <2>1, <2>2, <2>4, SolidRejected DEF EmitIf
  <2> QED
    BY <2>3, <2>4
<1>2. CASE ~IsImm(op)
  <2>1. PICK fixup : fixup = FieldFixup(Len(start), op[2], TRUE, is64)
    OBVIOUS
  <2>2. Rel32(start, op) = Emitted(start \o <<0, 0, 0, 0>>, <<fixup>>)
    BY <1>2, <2>1 DEF Rel32, FieldFixup
  <2> QED
    BY <1>2, <2>1, <2>2, ZeroBytes, ZeroField
<1> QED
  BY <1>1, <1>2

\* The opening is a string of bytes.
LEMMA LeadString ==
  ASSUME NEW i, i.name \in DOMAIN Records, FormOf(i.name) # "BranchRel32" => HoldsReg(i.ops, 1)
  PROVE LeadBytes(i) \in Seq(Byte) /\ Len(LeadBytes(i)) > 0
<1>1. CASE FormOf(i.name) = "BranchRel32"
  BY <1>1, OpcodeString DEF LeadBytes
<1>2. CASE FormOf(i.name) # "BranchRel32"
  <2>1. Num(i, 1) \in 0 .. 31 /\ 0 \in 0 .. 31 /\ 0 \in 0 .. 127
    BY <1>2 DEF HoldsReg, Num
  <2>2. PICK opcode, rm, zero : opcode = OpcodeBytes(i) /\ rm = Num(i, 1) /\ zero = 0
    OBVIOUS
  <2>3. opcode \in Seq(Byte) /\ Len(opcode) > 0
    BY <2>2, OpcodeString
  <2>4. LeadBytes(i) = RegForm(zero, opcode, zero, rm, <<>>)
    BY <1>2, <2>2 DEF LeadBytes
  <2>5. LeadBytes(i) \in Seq(Byte) /\ Len(LeadBytes(i)) > 0
    <3>1. zero \in 0 .. 127 /\ zero \in 0 .. 31 /\ rm \in 0 .. 31 /\ <<>> \in Seq(Byte)
      BY <2>1, <2>2, NoBytes
    <3> QED
      BY <3>1, <2>3, <2>4, RegFormString
  <2> QED
    BY <2>5
<1> QED
  BY <1>1, <1>2

\* An address is the bytes of a number, or a zero field with its fixup.
LEMMA AddressEmits ==
  ASSUME NEW i, i.name \in DOMAIN Records, HoldsReg(i.ops, 1), HoldsValue(i.ops, Len(i.ops)),
         NEW is64 \in BOOLEAN, FormOf(i.name) # "BranchRel32"
  PROVE /\ IsImm(LastOp(i)) => Solid(EmitAddressImm(i, is64))
        /\ ~IsImm(LastOp(i)) =>
             Leaves(EmitAddressImm(i, is64), LeadBytes(i), IF is64 THEN 8 ELSE 4,
                    FieldFixup(Len(LeadBytes(i)), LastOp(i)[2], FALSE, is64))
<1>1. PICK start : start = LeadBytes(i)
  OBVIOUS
<1>2. start \in Seq(Byte) /\ Len(start) > 0
  BY <1>1, LeadString
<1>3. CASE IsImm(LastOp(i))
  <2>1. LastOp(i)[2] \in Int /\ LastOp(i)[3] \in Int
    BY <1>3, WordInt DEF HoldsValue, IsImm, LastOp
  <2>2. PICK tail : tail = AddressBytes(LastOp(i), is64)
    OBVIOUS
  <2>3. tail \in Seq(Byte)
    BY <2>1, <2>2, AddressString
  <2>4. EmitAddressImm(i, is64) = Bytes(start \o tail)
    BY <1>1, <1>3, <2>2 DEF EmitAddressImm, LeadBytes
  <2>5. start \o tail \in Seq(Byte) /\ Len(start \o tail) > 0
    BY <1>2, <2>3
  <2> QED
    BY <1>3, <2>4, <2>5, SolidBytes
<1>4. CASE ~IsImm(LastOp(i))
  <2>1. PICK fixup, zeros : /\ fixup = FieldFixup(Len(start), LastOp(i)[2], FALSE, is64)
                            /\ zeros = AddressBytes(Imm(0), is64)
    OBVIOUS
  <2>2. EmitAddressImm(i, is64) = Emitted(start \o zeros, <<fixup>>)
    BY <1>1, <1>4, <2>1 DEF EmitAddressImm, LeadBytes, FieldFixup
  <2>3. PICK width : width = IF is64 THEN 8 ELSE 4
    OBVIOUS
  <2>4. zeros \in Seq(Byte) /\ Len(zeros) = width /\ width \in Nat /\ \A j \in 1 .. width : zeros[j] = 0
    BY <2>1, <2>3, ZeroAddress
  <2> QED
    BY <1>1, <1>2, <1>4, <2>1, <2>2, <2>3, <2>4, ZeroField
<1> QED
  BY <1>3, <1>4

\* A label as the last operand, and what is emitted for it.
Labelled(i, source, r, is64) ==
  LET n == Len(OperandKinds[ClassOf(i.name)])
      branch == ClassOf(i.name) \in BranchClasses
  IN /\ n \in DOMAIN source /\ source[n][1] = "x"
     /\ ClassOf(i.name) \in BranchClasses \cup AddressClasses
     /\ FormOf(i.name) # "BranchRel32" => HoldsReg(i.ops, 1)
     /\ Leaves(r, LeadBytes(i), IF branch \/ ~is64 THEN 4 ELSE 8,
               FieldFixup(Len(LeadBytes(i)), source[n][2], branch, is64))

Settled(i, source, r, is64) ==
  (Solid(r) /\ (r.ok => Numbers(source))) \/ Labelled(i, source, r, is64)

\* The classes that may name a label, their forms and their operands.
LEMMA LabelClassSizes ==
  /\ \A c \in {"UncondBranch", "CondBranch", "Call", "TxnBeginRel"} :
       Class[c] = <<0, "BranchRel32">> /\ Len(OperandKinds[c]) = 1
  /\ Class["RegCondBranch"] = <<0, "RegCondBranch">> /\ Len(OperandKinds["RegCondBranch"]) = 2
  /\ \A c \in {"RI64", "ALURI", "CompareRI"} :
       Class[c][1] = 0 /\ Class[c][2] = c /\ Len(OperandKinds[c]) = 2
<1>1. \A c \in {"UncondBranch", "CondBranch", "Call", "TxnBeginRel"} :
       Class[c] = <<0, "BranchRel32">>
  BY SMTT(60) DEF Class
<1>2. \A c \in {"UncondBranch", "CondBranch", "Call", "TxnBeginRel"} : Len(OperandKinds[c]) = 1
  BY SMTT(60) DEF OperandKinds
<1>3. Class["RegCondBranch"] = <<0, "RegCondBranch">>
  BY SMTT(60) DEF Class
<1>4. Len(OperandKinds["RegCondBranch"]) = 2
  BY SMTT(60) DEF OperandKinds
<1>5. \A c \in {"RI64", "ALURI", "CompareRI"} : Class[c][1] = 0 /\ Class[c][2] = c
  BY SMTT(60) DEF Class
<1>6. \A c \in {"RI64", "ALURI", "CompareRI"} : Len(OperandKinds[c]) = 2
  BY SMTT(60) DEF OperandKinds
<1> QED
  BY <1>1, <1>2, <1>3, <1>4, <1>5, <1>6

\* The last operand of a label form: its place in the statement is the last one too.
LEMMA ShortBranchEmits ==
  ASSUME NEW i, i.name \in DOMAIN Records, NEW source, Filled(i, source), NEW is64 \in BOOLEAN,
         ClassOf(i.name) \in {"UncondBranch", "CondBranch", "Call", "TxnBeginRel"}
  PROVE Settled(i, source, EmitBase(i, is64), is64)
<1>1. PICK c : c = ClassOf(i.name)
  OBVIOUS
<1>2. FormOf(i.name) = "BranchRel32" /\ Len(OperandKinds[c]) = 1
  BY <1>1, LabelClassSizes DEF FormOf
<1>3. LeadBytes(i) = OpcodeBytes(i) /\ LeadBytes(i) \in Seq(Byte) /\ Len(LeadBytes(i)) > 0
  BY <1>2, LeadString DEF LeadBytes
<1>4. EmitBase(i, is64) = Rel32(LeadBytes(i), i.ops[1])
  BY <1>2, <1>3 DEF EmitBase, EmitBranchRel32
<1>5. PICK start, op, r : start = LeadBytes(i) /\ op = i.ops[1] /\ r = EmitBase(i, is64)
  OBVIOUS
<1>6. /\ IsImm(op) => Solid(r)
      /\ ~IsImm(op) => Leaves(r, start, 4, FieldFixup(Len(start), op[2], TRUE, is64))
  BY <1>3, <1>4, <1>5, Rel32Emits
<1>7. /\ HoldsValue(i.ops, 1) /\ i.ops[1] = source[1]
      /\ \A k \in DOMAIN source : source[k][1] = "x" => k = 1
  BY ValueShape
<1>8. CASE IsImm(op)
  <2>1. Numbers(source)
    BY <1>5, <1>7, <1>8, ImmIsNumber DEF Numbers
  <2> QED
    BY <1>5, <1>6, <1>8, <2>1 DEF Settled
<1>9. CASE ~IsImm(op)
  <2>1. source[1][1] = "x" /\ op = source[1]
    BY <1>5, <1>7, <1>9 DEF HoldsValue, IsImm
  <2>2. 1 \in DOMAIN source
    <3>1. DOMAIN source = 1 .. Len(OperandKinds[c])
      BY <1>1 DEF Filled, Fills
    <3> QED
      BY <3>1, <1>2
  <2>3. c \in BranchClasses
    BY <1>1 DEF BranchClasses
  <2>4. Leaves(r, LeadBytes(i), 4, FieldFixup(Len(LeadBytes(i)), source[1][2], TRUE, is64))
    BY <1>5, <1>6, <1>9, <2>1
  <2> QED
    BY <1>1, <1>2, <1>5, <2>1, <2>2, <2>3, <2>4 DEF Settled, Labelled
<1> QED
  BY <1>8, <1>9

\* A branch on a register ends with its displacement.
LEMMA RegisterBranchEmits ==
  ASSUME NEW i, i.name \in DOMAIN Records, NEW source, Filled(i, source), NEW is64 \in BOOLEAN,
         ClassOf(i.name) = "RegCondBranch"
  PROVE Settled(i, source, EmitBase(i, is64), is64)
<1>2. FormOf(i.name) = "RegCondBranch" /\ Len(OperandKinds[ClassOf(i.name)]) = 2
  BY LabelClassSizes DEF FormOf
<1>7. /\ HoldsReg(i.ops, 1) /\ HoldsValue(i.ops, 2) /\ i.ops[2] = source[2]
      /\ \A k \in DOMAIN source : source[k][1] = "x" => k = 2
  BY RegValueShape
<1>3. LeadBytes(i) = RegForm(0, OpcodeBytes(i), 0, Num(i, 1), <<>>)
        /\ LeadBytes(i) \in Seq(Byte) /\ Len(LeadBytes(i)) > 0
  BY <1>2, <1>7, LeadString DEF LeadBytes
<1>4. EmitBase(i, is64) = Rel32(LeadBytes(i), i.ops[2])
  BY <1>2, <1>3 DEF EmitBase, EmitRegCondBranch
<1>5. PICK start, op, r : start = LeadBytes(i) /\ op = i.ops[2] /\ r = EmitBase(i, is64)
  OBVIOUS
<1>6. /\ IsImm(op) => Solid(r)
      /\ ~IsImm(op) => Leaves(r, start, 4, FieldFixup(Len(start), op[2], TRUE, is64))
  BY <1>3, <1>4, <1>5, Rel32Emits
<1>8. CASE IsImm(op)
  <2>1. Numbers(source)
    BY <1>5, <1>7, <1>8, ImmIsNumber DEF Numbers
  <2> QED
    BY <1>5, <1>6, <1>8, <2>1 DEF Settled
<1>9. CASE ~IsImm(op)
  <2>1. source[2][1] = "x" /\ op = source[2]
    BY <1>5, <1>7, <1>9 DEF HoldsValue, IsImm
  <2>2. 2 \in DOMAIN source
    <3>1. DOMAIN source = 1 .. Len(OperandKinds[ClassOf(i.name)])
      BY DEF Filled, Fills
    <3> QED
      BY <3>1, <1>2
  <2>3. ClassOf(i.name) \in BranchClasses
    BY DEF BranchClasses
  <2>4. Leaves(r, LeadBytes(i), 4, FieldFixup(Len(LeadBytes(i)), source[2][2], TRUE, is64))
    BY <1>5, <1>6, <1>9, <2>1
  <2> QED
    BY <1>2, <1>5, <1>7, <2>1, <2>2, <2>3, <2>4 DEF Settled, Labelled
<1> QED
  BY <1>8, <1>9

\* An instruction with an address-wide immediate ends with it.
LEMMA AddressFormEmits ==
  ASSUME NEW i, i.name \in DOMAIN Records, NEW source, Filled(i, source), NEW is64 \in BOOLEAN,
         ClassOf(i.name) \in {"RI64", "ALURI", "CompareRI"}
  PROVE Settled(i, source, EmitBase(i, is64), is64)
<1>2. FormOf(i.name) = ClassOf(i.name) /\ Len(OperandKinds[ClassOf(i.name)]) = 2
  BY LabelClassSizes DEF FormOf
<1>7. /\ HoldsReg(i.ops, 1) /\ HoldsValue(i.ops, Len(i.ops)) /\ LastOp(i) = source[2]
      /\ \A k \in DOMAIN source : source[k][1] = "x" => k = 2
  <2>1. CASE ClassOf(i.name) = "ALURI"
    BY <2>1, RegValueTiedShape DEF LastOp
  <2>2. CASE ClassOf(i.name) # "ALURI"
    BY <2>2, RegValueShape DEF LastOp
  <2> QED
    BY <2>1, <2>2
<1>4. EmitBase(i, is64) = EmitAddressImm(i, is64)
  BY <1>2 DEF EmitBase
<1>5. PICK op, r, width : op = LastOp(i) /\ r = EmitBase(i, is64) /\ width = IF is64 THEN 8 ELSE 4
  OBVIOUS
<1>6. /\ IsImm(op) => Solid(r)
      /\ ~IsImm(op) => Leaves(r, LeadBytes(i), width,
                              FieldFixup(Len(LeadBytes(i)), op[2], FALSE, is64))
  BY <1>2, <1>4, <1>5, <1>7, AddressEmits
<1>8. CASE IsImm(op)
  <2>1. Numbers(source)
    BY <1>5, <1>7, <1>8, ImmIsNumber DEF Numbers
  <2> QED
    BY <1>5, <1>6, <1>8, <2>1 DEF Settled
<1>9. CASE ~IsImm(op)
  <2>1. source[2][1] = "x" /\ op = source[2]
    BY <1>5, <1>7, <1>9 DEF HoldsValue, IsImm, LastOp
  <2>2. 2 \in DOMAIN source
    <3>1. DOMAIN source = 1 .. Len(OperandKinds[ClassOf(i.name)])
      BY DEF Filled, Fills
    <3> QED
      BY <3>1, <1>2
  <2>3. ClassOf(i.name) \notin BranchClasses /\ ClassOf(i.name) \in AddressClasses
    BY DEF BranchClasses, AddressClasses
  <2>4. Leaves(r, LeadBytes(i), width, FieldFixup(Len(LeadBytes(i)), source[2][2], FALSE, is64))
    BY <1>6, <1>9, <2>1
  <2>5. width = IF FALSE \/ ~is64 THEN 4 ELSE 8
    BY <1>5
  <2>6. FormOf(i.name) # "BranchRel32" => HoldsReg(i.ops, 1)
    BY <1>7
  <2>7. \A at : FieldFixup(at, source[2][2], ClassOf(i.name) \in BranchClasses, is64)
                 = FieldFixup(at, source[2][2], FALSE, is64)
    BY <2>3 DEF FieldFixup
  <2>8. width = IF ClassOf(i.name) \in BranchClasses \/ ~is64 THEN 4 ELSE 8
    BY <1>5, <2>3
  <2>9. Leaves(r, LeadBytes(i), IF ClassOf(i.name) \in BranchClasses \/ ~is64 THEN 4 ELSE 8,
               FieldFixup(Len(LeadBytes(i)), source[2][2], ClassOf(i.name) \in BranchClasses, is64))
    BY <2>4, <2>7, <2>8
  <2>10. Labelled(i, source, r, is64)
    BY <1>2, <2>1, <2>2, <2>3, <2>6, <2>9 DEF Labelled
  <2> QED
    BY <1>5, <2>10 DEF Settled
<1> QED
  BY <1>8, <1>9

\* Every instruction: an error, bytes and no label, or a label and its field.
LEMMA BodyEmits ==
  ASSUME NEW i, i.name \in DOMAIN Records, NEW source, Filled(i, source), NEW is64 \in BOOLEAN
  PROVE Settled(i, source, EmitBody(i, is64), is64)
<1>1. GroupOf(i.name) \in 0 .. 5
  BY RecordRange
<1>2. CASE GroupOf(i.name) = 0
  <2>1. EmitBody(i, is64) = EmitBase(i, is64)
    BY <1>2 DEF EmitBody
  <2>2. CASE ClassOf(i.name) \in {"UncondBranch", "CondBranch", "Call", "TxnBeginRel"}
    BY <2>1, <2>2, ShortBranchEmits
  <2>3. CASE ClassOf(i.name) = "RegCondBranch"
    BY <2>1, <2>3, RegisterBranchEmits
  <2>4. CASE ClassOf(i.name) \in {"RI64", "ALURI", "CompareRI"}
    BY <2>1, <2>4, AddressFormEmits
  <2>5. CASE ClassOf(i.name) \notin {"UncondBranch", "CondBranch", "Call", "TxnBeginRel",
                "RegCondBranch", "RI64", "ALURI", "CompareRI"}
    BY <1>2, <2>1, <2>5, BaseSolid DEF Settled
  <2> QED
    BY <2>2, <2>3, <2>4, <2>5
<1>3. CASE GroupOf(i.name) = 1
  BY <1>3, AVXSolid DEF Settled, EmitBody
<1>4. CASE GroupOf(i.name) = 2
  BY <1>4, CryptoSolid DEF Settled, EmitBody
<1>5. CASE GroupOf(i.name) = 3
  BY <1>5, DSPSolid DEF Settled, EmitBody
<1>6. CASE GroupOf(i.name) = 4
  BY <1>6, SysXSolid DEF Settled, EmitBody
<1>7. CASE GroupOf(i.name) = 5
  BY <1>7, FPXSolid DEF Settled, EmitBody
<1> QED
  BY <1>1, <1>2, <1>3, <1>4, <1>5, <1>6, <1>7

\* The marker: none or two bytes before the instruction.
LEMMA MarkerString ==
  ASSUME NEW i, i.marker \in 0 .. 10
  PROVE MarkerBytes(i) \in Seq(Byte) /\ Len(MarkerBytes(i)) \in {0, 2}
<1>1. CASE i.marker = Marker.none
  BY <1>1, NoBytes DEF MarkerBytes
<1>2. CASE i.marker # Marker.none
  <2>1. 253 \in Byte /\ i.marker \in Byte
    BY DEF Byte
  <2>2. <<253, i.marker>> \in Seq(Byte) /\ Len(<<253, i.marker>>) = 2
    BY <2>1, TwoBytes
  <2> QED
    BY <1>2, <2>2 DEF MarkerBytes
<1> QED
  BY <1>1, <1>2

\* A fixup moved by an offset.
LEMMA MovedRecord ==
  ASSUME NEW a, NEW b, NEW c, NEW d, NEW e, NEW x,
         NEW f, f = [offset |-> a, label |-> b, addend |-> c, kind |-> d, pcrel |-> e]
  PROVE [f EXCEPT !.offset = @ + x] = [offset |-> a + x, label |-> b, addend |-> c, kind |-> d, pcrel |-> e]
<1>1. PICK y : y = a + x
  OBVIOUS
<1>2. f.offset = a
  OBVIOUS
<1>3. [f EXCEPT !.offset = y] = [offset |-> y, label |-> b, addend |-> c, kind |-> d, pcrel |-> e]
  OBVIOUS
<1>4. [f EXCEPT !.offset = @ + x] = [f EXCEPT !.offset = f.offset + x]
  OBVIOUS
<1> QED
  BY <1>1, <1>2, <1>3, <1>4

\* With the marker, the field and its fixup move by its two bytes.
LEMMA PlacedLeaves ==
  ASSUME NEW i, i.marker \in 0 .. 10, NEW body, NEW start \in Seq(Byte), NEW width \in Nat,
         NEW label, NEW branch \in BOOLEAN, NEW is64 \in BOOLEAN,
         Leaves(body, start, width, FieldFixup(Len(start), label, branch, is64))
  PROVE LET before == MarkerBytes(i) \o start IN
          /\ before \in Seq(Byte)
          /\ Leaves(WithMarker(i, body), before, width,
                    FieldFixup(Len(before), label, branch, is64))
<1>1. PICK m, before : m = MarkerBytes(i) /\ before = m \o start
  OBVIOUS
<1>2. m \in Seq(Byte) /\ Len(m) \in Nat
  BY <1>1, MarkerString
<1>3. before \in Seq(Byte) /\ Len(before) = Len(m) + Len(start)
  BY <1>1, <1>2, Concat
<1>4. PICK bytes : bytes = body.bytes
  OBVIOUS
<1>5. /\ body.ok /\ bytes \in Seq(Byte) /\ Len(bytes) = Len(start) + width
      /\ \A j \in 1 .. Len(start) : bytes[j] = start[j]
      /\ \A j \in Len(start) + 1 .. Len(start) + width : bytes[j] = 0
      /\ body.fixups = <<FieldFixup(Len(start), label, branch, is64)>>
  BY <1>4 DEF Leaves
<1>6. PICK r : r = WithMarker(i, body)
  OBVIOUS
<1>7. r = Placed(i, body)
  BY <1>5, <1>6 DEF WithMarker, Marker
<1>8. r.ok /\ r.bytes = m \o bytes
  BY <1>1, <1>4, <1>7 DEF Placed, Emitted
<1>9. r.bytes \in Seq(Byte) /\ Len(r.bytes) = Len(before) + width
  <2>1. m \o bytes \in Seq(Byte) /\ Len(m \o bytes) = Len(m) + Len(bytes)
    BY <1>2, <1>5, Concat
  <2>2. Len(start) \in Nat
    OBVIOUS
  <2> QED
    BY <1>2, <1>3, <1>5, <1>8, <2>1, <2>2
<1>10. ASSUME NEW j \in 1 .. Len(before) PROVE r.bytes[j] = before[j]
  <2>1. r.bytes[j] = IF j <= Len(m) THEN m[j] ELSE bytes[j - Len(m)]
    BY <1>2, <1>3, <1>5, <1>8, <1>9, ConcatProperties
  <2>2. before[j] = IF j <= Len(m) THEN m[j] ELSE start[j - Len(m)]
    BY <1>1, <1>2, <1>3, ConcatProperties
  <2>3. ~(j <= Len(m)) => j - Len(m) \in 1 .. Len(start)
    BY <1>2, <1>3
  <2> QED
    BY <2>1, <2>2, <2>3, <1>5
<1>11. ASSUME NEW j \in Len(before) + 1 .. Len(before) + width PROVE r.bytes[j] = 0
  <2>1. j \in 1 .. Len(r.bytes) /\ j - Len(m) \in Len(start) + 1 .. Len(start) + width
          /\ ~(j <= Len(m))
    BY <1>2, <1>3, <1>9
  <2>2. r.bytes[j] = IF j <= Len(m) THEN m[j] ELSE bytes[j - Len(m)]
    BY <1>2, <1>5, <1>8, <2>1, ConcatProperties
  <2> QED
    BY <2>1, <2>2, <1>5
<1>12. r.fixups = <<FieldFixup(Len(before), label, branch, is64)>>
  <2>1. PICK f : f = FieldFixup(Len(start), label, branch, is64)
    OBVIOUS
  <2>2. body.fixups = <<f>>
    BY <1>5, <2>1
  <2>3. r.fixups = [k \in 1 .. Len(body.fixups) |-> [body.fixups[k] EXCEPT !.offset = @ + Len(m)]]
    BY <1>1, <1>7 DEF Placed, Emitted
  <2>4. [f EXCEPT !.offset = @ + Len(m)] = FieldFixup(Len(before), label, branch, is64)
    <3>1. f.offset + Len(m) = Len(before)
      BY <2>1, <1>2, <1>3 DEF FieldFixup
    <3>2. PICK addend, kind, yes :
            \A at : FieldFixup(at, label, branch, is64)
                     = [offset |-> at, label |-> label, addend |-> addend, kind |-> kind,
                        pcrel |-> yes]
      BY DEF FieldFixup
    <3>3. f = [offset |-> Len(start), label |-> label, addend |-> addend, kind |-> kind,
               pcrel |-> yes]
      BY <2>1, <3>2
    <3>4. Len(start) + Len(m) = Len(before)
      BY <2>1, <3>1, <3>3
    <3>5. [f EXCEPT !.offset = @ + Len(m)]
            = [offset |-> Len(start) + Len(m), label |-> label, addend |-> addend,
               kind |-> kind, pcrel |-> yes]
      BY <3>3, MovedRecord
    <3> QED
      BY <3>2, <3>4, <3>5
  <2>5. r.fixups = [k \in 1 .. 1 |-> FieldFixup(Len(before), label, branch, is64)]
    BY <2>2, <2>3, <2>4
  <2> QED
    BY <2>5
<1> QED
  BY <1>1, <1>3, <1>6, <1>8, <1>9, <1>10, <1>11, <1>12 DEF Leaves

\* What encodeInstruction returns for a statement: an error; bytes, if it names no
\* label; or bytes that end in a zero field, and the fixup on that field.
EmittedAs(i, source, r, is64) ==
  LET n == Len(OperandKinds[ClassOf(i.name)])
      branch == ClassOf(i.name) \in BranchClasses
      start == MarkerBytes(i) \o LeadBytes(i)
  IN /\ r.bytes \in Seq(Byte) /\ Len(r.bytes) > 0
     /\ \/ r.fixups = <<>> /\ Numbers(source)
        \/ /\ n \in DOMAIN source /\ source[n][1] = "x"
           /\ ClassOf(i.name) \in BranchClasses \cup AddressClasses
           /\ FormOf(i.name) # "BranchRel32" => HoldsReg(i.ops, 1)
           /\ start \in Seq(Byte)
           /\ Leaves(r, start, IF branch \/ ~is64 THEN 4 ELSE 8,
                     FieldFixup(Len(start), source[n][2], branch, is64))

\* What encodeInstruction emits: bytes without a label, or a zero field at the end of the
\* instruction with the one fixup for it.
LEMMA EncodeEmits ==
  ASSUME NEW i, i.name \in DOMAIN Records, NEW source, Filled(i, source), NEW is64 \in BOOLEAN,
         i.marker \in 0 .. 10, Encode(i, is64).ok
  PROVE EmittedAs(i, source, Encode(i, is64), is64)
<1> SUFFICES
      LET r == Encode(i, is64)
            n == Len(OperandKinds[ClassOf(i.name)])
            branch == ClassOf(i.name) \in BranchClasses
            start == MarkerBytes(i) \o LeadBytes(i)
        IN /\ r.bytes \in Seq(Byte) /\ Len(r.bytes) > 0
           /\ \/ r.fixups = <<>> /\ Numbers(source)
              \/ /\ n \in DOMAIN source /\ source[n][1] = "x"
                 /\ ClassOf(i.name) \in BranchClasses \cup AddressClasses
                 /\ FormOf(i.name) # "BranchRel32" => HoldsReg(i.ops, 1)
                 /\ start \in Seq(Byte)
                 /\ Leaves(r, start, IF branch \/ ~is64 THEN 4 ELSE 8,
                           FieldFixup(Len(start), source[n][2], branch, is64))
  BY DEF EmittedAs
<1>1. PICK body, r : body = EmitBody(i, is64) /\ r = Encode(i, is64)
  OBVIOUS
<1>2. body.ok /\ r = Placed(i, body) /\ r = WithMarker(i, body)
  BY <1>1 DEF Encode, WithMarker, Rejected
<1>3. Settled(i, source, body, is64)
  BY <1>1, BodyEmits
<1>4. CASE Solid(body) /\ Numbers(source)
  <2>1. body.bytes \in Seq(Byte) /\ Len(body.bytes) > 0 /\ body.fixups = <<>>
    BY <1>2, <1>4 DEF Solid
  <2>2. r.bytes = MarkerBytes(i) \o body.bytes
          /\ r.fixups = [k \in 1 .. Len(body.fixups) |->
                           [body.fixups[k] EXCEPT !.offset = @ + Len(MarkerBytes(i))]]
    BY <1>2 DEF Placed, Emitted
  <2>3. r.fixups = <<>>
    BY <2>1, <2>2
  <2>4. PICK m, b : m = MarkerBytes(i) /\ b = body.bytes
    OBVIOUS
  <2>5. m \in Seq(Byte) /\ b \in Seq(Byte) /\ Len(b) > 0
    BY <2>1, <2>4, MarkerString
  <2>6. m \o b \in Seq(Byte) /\ Len(m \o b) > 0
    BY <2>5
  <2> QED
    BY <1>1, <1>4, <2>2, <2>3, <2>4, <2>6
<1>5. CASE Labelled(i, source, body, is64)
  <2>1. PICK n, branch, width, start, label :
          /\ n = Len(OperandKinds[ClassOf(i.name)]) /\ branch = (ClassOf(i.name) \in BranchClasses)
          /\ width = (IF branch \/ ~is64 THEN 4 ELSE 8) /\ start = LeadBytes(i)
          /\ label = source[n][2]
    OBVIOUS
  <2>2. /\ n \in DOMAIN source /\ source[n][1] = "x"
        /\ ClassOf(i.name) \in BranchClasses \cup AddressClasses
        /\ FormOf(i.name) # "BranchRel32" => HoldsReg(i.ops, 1)
        /\ Leaves(body, start, width, FieldFixup(Len(start), label, branch, is64))
    BY <1>5, <2>1 DEF Labelled
  <2>3. start \in Seq(Byte) /\ Len(start) > 0 /\ width \in Nat /\ branch \in BOOLEAN
    BY <2>1, <2>2, LeadString
  <2>4. PICK before : before = MarkerBytes(i) \o start
    OBVIOUS
  <2>5. before \in Seq(Byte) /\ Leaves(r, before, width, FieldFixup(Len(before), label, branch, is64))
    BY <1>2, <2>2, <2>3, <2>4, PlacedLeaves
  <2>6. Len(r.bytes) > 0 /\ r.bytes \in Seq(Byte)
    <3>1. Len(r.bytes) = Len(before) + width /\ r.bytes \in Seq(Byte) /\ width \in {4, 8}
      BY <2>1, <2>5 DEF Leaves
    <3>2. Len(before) \in Nat
      BY <2>5
    <3> QED
      BY <3>1, <3>2
  <2> QED
    BY <1>1, <2>1, <2>2, <2>4, <2>5, <2>6
<1> QED
  BY <1>2, <1>3, <1>4, <1>5 DEF Settled

-----------------------------------------------------------------------------
(* How far the disassembler reads.                                         *)
Forms ==
  {"CopyRR", "ALURR", "CompareRR", "RI64", "LoadQ", "StoreQ", "IndirectCall", "FPBinary", "CopyVV",
   "VBinary", "TernaryByte", "AddressCalc", "VectorLoad", "VectorStore", "IntToFP", "FPToInt",
   "UnaryInPlace", "UnaryRR", "ALURI", "CompareRI", "TrapImm", "RegCondBranch", "StackReg",
   "FrameImm", "TernaryRI", "ReadReg", "ControlReg", "NoOperand", "AtomicMem", "AtomicLoad",
   "TernaryRR", "MemoryOnly", "PairLoad", "PairStore", "AtomicCAS", "VectorAtomic", "Branch",
   "SysXWriteImm", "SysXMaskedMemory", "SysXMemory", "SysXStoreMemory", "FPXFused",
   "ScalarFPLoad", "ScalarFPStore", "DSPTernary", "DSPQuaternary", "DSPDot", "DSPSumDot",
   "AVXRegImm", "AVXBinaryImm", "AVXGather", "AVXScatter"}

\* The decoder reads an instruction by one of its forms.
LEMMA FormValues ==
  /\ \A c \in DOMAIN DecodeForm : DecodeForm[c] \in Forms
  /\ \A c \in DOMAIN AVXDecodeForm : AVXDecodeForm[c] \in Forms
  /\ \A c \in DOMAIN CryptoDecodeForm : CryptoDecodeForm[c] \in Forms
  /\ \A c \in DOMAIN DSPDecodeForm : DSPDecodeForm[c] \in Forms
  /\ \A c \in DOMAIN SysXDecodeForm : SysXDecodeForm[c] \in Forms
  /\ \A c \in DOMAIN FPXDecodeForm : FPXDecodeForm[c] \in Forms
<1>1. \A c \in DOMAIN DecodeForm : DecodeForm[c] \in Forms
  BY SMTT(60) DEF DecodeForm, Forms
<1>2. \A c \in DOMAIN AVXDecodeForm : AVXDecodeForm[c] \in Forms
  BY SMTT(60) DEF AVXDecodeForm, Forms
<1>3. \A c \in DOMAIN CryptoDecodeForm : CryptoDecodeForm[c] \in Forms
  BY SMTT(60) DEF CryptoDecodeForm, Forms
<1>4. \A c \in DOMAIN DSPDecodeForm : DSPDecodeForm[c] \in Forms
  BY SMTT(60) DEF DSPDecodeForm, Forms
<1>5. \A c \in DOMAIN SysXDecodeForm : SysXDecodeForm[c] \in Forms
  BY SMTT(60) DEF SysXDecodeForm, Forms
<1>6. \A c \in DOMAIN FPXDecodeForm : FPXDecodeForm[c] \in Forms
  BY SMTT(60) DEF FPXDecodeForm, Forms
<1> QED
  BY <1>1, <1>2, <1>3, <1>4, <1>5, <1>6

\* The classes the instructions of each group have are those the group's table knows.
LEMMA ClassesByGroup ==
  ASSUME NEW n \in DOMAIN Opcodes
  PROVE LET c == Opcodes[n][2] IN
        /\ Class[c][1] \in 0 .. 5
        /\ Class[c][1] = 0 => c \in DOMAIN DecodeForm
        /\ Class[c][1] = 1 => c \in DOMAIN AVXDecodeForm
        /\ Class[c][1] = 2 => c \in DOMAIN CryptoDecodeForm
        /\ Class[c][1] = 3 => c \in DOMAIN DSPDecodeForm
        /\ Class[c][1] = 4 => c \in DOMAIN SysXDecodeForm
        /\ Class[c][1] = 5 => c \in DOMAIN FPXDecodeForm
<1> DEFINE Known == DOMAIN DecodeForm \cup DOMAIN AVXDecodeForm \cup DOMAIN CryptoDecodeForm
                    \cup DOMAIN DSPDecodeForm \cup DOMAIN SysXDecodeForm \cup DOMAIN FPXDecodeForm
<1>1. \A m \in DOMAIN Opcodes : Opcodes[m][2] \in Known
  BY SMTT(120) DEF Opcodes, DecodeForm, AVXDecodeForm, CryptoDecodeForm, DSPDecodeForm,
     SysXDecodeForm, FPXDecodeForm
<1>2. /\ \A c \in DOMAIN DecodeForm : Class[c][1] = 0
      /\ \A c \in DOMAIN AVXDecodeForm : Class[c][1] = 1
      /\ \A c \in DOMAIN CryptoDecodeForm : Class[c][1] = 2
      /\ \A c \in DOMAIN DSPDecodeForm : Class[c][1] = 3
      /\ \A c \in DOMAIN SysXDecodeForm : Class[c][1] = 4
      /\ \A c \in DOMAIN FPXDecodeForm : Class[c][1] = 5
  <2>1. \A c \in DOMAIN DecodeForm : Class[c][1] = 0
    BY SMTT(60) DEF Class, DecodeForm
  <2>2. \A c \in DOMAIN AVXDecodeForm : Class[c][1] = 1
    BY SMTT(60) DEF Class, AVXDecodeForm
  <2>3. \A c \in DOMAIN CryptoDecodeForm : Class[c][1] = 2
    BY SMTT(60) DEF Class, CryptoDecodeForm
  <2>4. \A c \in DOMAIN DSPDecodeForm : Class[c][1] = 3
    BY SMTT(60) DEF Class, DSPDecodeForm
  <2>5. \A c \in DOMAIN SysXDecodeForm : Class[c][1] = 4
    BY SMTT(60) DEF Class, SysXDecodeForm
  <2>6. \A c \in DOMAIN FPXDecodeForm : Class[c][1] = 5
    BY SMTT(60) DEF Class, FPXDecodeForm
  <2> QED
    BY <2>1, <2>2, <2>3, <2>4, <2>5, <2>6
<1>3. Opcodes[n][2] \in Known
  BY <1>1
<1> QED
  BY <1>2, <1>3

\* The form the opcode map leads to.
LEMMA FoundForm ==
  ASSUME NEW group, NEW byte, << group, byte >> \in DOMAIN OpcodeMap
  PROVE /\ group \in 0 .. 5
        /\ OpcodeMap[<< group, byte >>] \in DOMAIN Opcodes
        /\ group = 0 => DecodeForm[ClassOf(OpcodeMap[<< group, byte >>])] \in Forms
        /\ group # 0 => FormTable[group][ClassOf(OpcodeMap[<< group, byte >>])] \in Forms
<1>1. PICK key, found : key = << group, byte >> /\ found = OpcodeMap[key]
  OBVIOUS
<1>2. \E n \in DOMAIN Opcodes : OpcodeKey(n) = key
  BY <1>1 DEF OpcodeMap
<1>3. found \in DOMAIN Opcodes /\ OpcodeKey(found) = key
  BY <1>1, <1>2 DEF OpcodeMap
<1>4. ClassOf(found) = Opcodes[found][2]
  BY <1>3 DEF ClassOf, Records
<1>5. PICK c : c = ClassOf(found)
  OBVIOUS
<1>6. Class[c][1] = group
  BY <1>1, <1>3, <1>5 DEF OpcodeKey, GroupOf
<1>7. /\ group \in 0 .. 5
      /\ group = 0 => c \in DOMAIN DecodeForm
      /\ group = 1 => c \in DOMAIN AVXDecodeForm
      /\ group = 2 => c \in DOMAIN CryptoDecodeForm
      /\ group = 3 => c \in DOMAIN DSPDecodeForm
      /\ group = 4 => c \in DOMAIN SysXDecodeForm
      /\ group = 5 => c \in DOMAIN FPXDecodeForm
  BY <1>3, <1>4, <1>5, <1>6, ClassesByGroup
<1>8. /\ FormTable[1] = AVXDecodeForm /\ FormTable[2] = CryptoDecodeForm
      /\ FormTable[3] = DSPDecodeForm /\ FormTable[4] = SysXDecodeForm
      /\ FormTable[5] = FPXDecodeForm
  BY DEF FormTable
<1>9. group = 0 => DecodeForm[c] \in Forms
  BY <1>7, FormValues
<1>10. group # 0 => FormTable[group][c] \in Forms
  <2>1. group # 0 => group = 1 \/ group = 2 \/ group = 3 \/ group = 4 \/ group = 5
    BY <1>7
  <2> QED
    BY <1>7, <1>8, <2>1, FormValues
<1> QED
  BY <1>1, <1>3, <1>5, <1>7, <1>9, <1>10

ReadingFields == DOMAIN Reading(<<>>)

\* A stage of getInstruction failed, or has read up to c.at, which is not beyond the bytes.
Reads(bytes, c) ==
  \/ c = Fail
  \/ /\ DOMAIN c = ReadingFields /\ c.ok = TRUE /\ c.bytes = bytes
     /\ c.at \in Nat /\ c.at <= Len(bytes)
     /\ c.form \in Forms /\ c.mod \in 0 .. 3 /\ (c.form \in MemoryForms => c.mod \in 0 .. 2)

\* An instruction is no longer than the bytes it is read from.
Fits(bytes, r) == r.ok => r.size \in Nat /\ r.size <= Len(bytes)

\* The fields of what getInstruction has read.
LEMMA ReadingNames ==
  /\ \A bytes : DOMAIN Reading(bytes) = ReadingFields
  /\ {"ok", "bytes", "at", "marker", "extended", "vector", "width", "opcode", "name", "form",
      "mod", "sib", "reg", "rm", "index", "scale", "lane", "extra", "disp"} = ReadingFields
BY DEF ReadingFields, Reading

\* A failure is no instruction.
LEMMA FailNothing == Fail.ok = FALSE
BY DEF Fail

\* The marker and the prefix end before the opcode.
LEMMA PrefixesStay ==
  ASSUME NEW bytes \in Seq(Byte)
  PROVE LET p == ReadPrefixes(bytes) IN
        \/ p = Fail
        \/ /\ DOMAIN p = ReadingFields /\ p.ok = TRUE /\ p.bytes = bytes /\ p.mod = 0
           /\ p.at \in Nat /\ p.at < Len(bytes)
<1> DEFINE marked == At(bytes, 0) = 253
           start == IF marked THEN 2 ELSE 0
           prefixed == At(bytes, start) = 254
           at == IF prefixed THEN start + 2 ELSE start
           p == ReadPrefixes(bytes)
<1>1. at \in Nat /\ start \in Nat /\ Len(bytes) \in Nat
  BY LenProperties
<1>2. \/ p = Fail
      \/ /\ at < Len(bytes)
         /\ DOMAIN p = ReadingFields /\ p.ok = TRUE /\ p.bytes = bytes /\ p.mod = 0
         /\ p.at = at
  <2> DEFINE control == IF prefixed THEN At(bytes, start + 1) ELSE 0
             bad == \/ Len(bytes) = 0
                    \/ marked /\ (~Holds(bytes, 0, 3) \/ At(bytes, 1) \notin 1 .. Marker.leaf)
                    \/ prefixed /\ (~Holds(bytes, start, 3) \/ control % 8 # 0)
             opened == [Reading(bytes) EXCEPT
                          !.marker = IF marked THEN At(bytes, 1) ELSE Marker.none,
                          !.extended = control >= 128, !.vector = (control \div 64) % 2 = 1,
                          !.width = (control \div 8) % 8,
                          !.at = IF prefixed THEN start + 2 ELSE start]
  <2>1. p = IF bad THEN Fail ELSE opened
    BY DEF ReadPrefixes
  <2>2. /\ DOMAIN opened = ReadingFields /\ opened.ok = TRUE /\ opened.bytes = bytes
        /\ opened.mod = 0 /\ opened.at = at
    <3>1. /\ DOMAIN Reading(bytes) = ReadingFields /\ Reading(bytes).ok = TRUE
          /\ Reading(bytes).bytes = bytes /\ Reading(bytes).mod = 0
      BY ReadingNames DEF Reading
    <3> HIDE DEF start, prefixed, marked, control
    <3> QED
      BY <3>1, ReadingNames
  <2>3. ~bad => at < Len(bytes)
    BY <1>1 DEF Holds
  <2> HIDE DEF p, opened, bad, at
  <2> QED
    BY <2>1, <2>2, <2>3
<1> HIDE DEF p, at
<1> QED
  BY <1>1, <1>2 DEF p

\* The opcode, with its group, is inside the bytes and leads to a form.
LEMMA OpcodeStays ==
  ASSUME NEW bytes \in Seq(Byte), NEW p,
         \/ p = Fail
         \/ /\ DOMAIN p = ReadingFields /\ p.ok = TRUE /\ p.bytes = bytes /\ p.mod = 0
            /\ p.at \in Nat /\ p.at < Len(bytes)
  PROVE Reads(bytes, ReadOpcode(p))
<1>1. CASE p = Fail
  BY <1>1, FailNothing DEF ReadOpcode, Reads
<1>2. CASE p # Fail
  <2>1. /\ DOMAIN p = ReadingFields /\ p.ok = TRUE /\ p.bytes = bytes /\ p.mod = 0
        /\ p.at \in Nat /\ p.at < Len(bytes) /\ Len(bytes) \in Nat
    BY <1>2, LenProperties
  <2> DEFINE g == IF At(p.bytes, p.at) = 255 /\ Holds(p.bytes, p.at, 3)
                  THEN At(p.bytes, p.at + 1) ELSE 0
             k == << g, At(p.bytes, IF g = 0 THEN p.at ELSE p.at + 2) >>
             f == OpcodeMap[k]
             vm == p.vector /\ f = "MOVrr"
             fm == IF vm THEN "CopyVV"
                   ELSE IF g = 0 THEN DecodeForm[ClassOf(f)] ELSE FormTable[g][ClassOf(f)]
             n == IF g = 0 THEN 1 ELSE 3
             r == ReadOpcode(p)
  <2>2. CASE k \notin DOMAIN OpcodeMap
    <3>1. r = Fail
      BY <2>1, <2>2 DEF ReadOpcode
    <3> QED
      BY <3>1 DEF Reads
  <2>3. CASE k \in DOMAIN OpcodeMap
    <3>1. r = [p EXCEPT !.at = @ + n, !.opcode = f, !.name = IF vm THEN "MOVV128" ELSE f,
                        !.form = fm]
      BY <2>1, <2>3 DEF ReadOpcode
    <3>2. fm \in Forms
      <4>1. PICK group, byte : group = g /\ byte = At(p.bytes, IF g = 0 THEN p.at ELSE p.at + 2)
        OBVIOUS
      <4>2. << group, byte >> \in DOMAIN OpcodeMap
        BY <2>3, <4>1
      <4>3. /\ group = 0 => DecodeForm[ClassOf(OpcodeMap[<< group, byte >>])] \in Forms
            /\ group # 0 => FormTable[group][ClassOf(OpcodeMap[<< group, byte >>])] \in Forms
        BY <4>2, FoundForm
      <4>4. "CopyVV" \in Forms
        BY DEF Forms
      <4> QED
        BY <4>1, <4>3, <4>4
    <3>3. n \in Nat /\ p.at + n <= Len(bytes)
      BY <2>1 DEF Holds
    <3>4. /\ DOMAIN r = ReadingFields /\ r.ok = TRUE /\ r.bytes = bytes /\ r.mod = 0
          /\ r.at = p.at + n /\ r.form = fm
      <4> HIDE DEF n, f, vm, fm, r
      <4> QED
        BY <2>1, <3>1, ReadingNames
    <3>5. r.at \in Nat /\ r.at <= Len(bytes)
      BY <2>1, <3>3, <3>4
    <3>6. r.mod \in 0 .. 3 /\ r.mod \in 0 .. 2 /\ r.form \in Forms
      BY <3>2, <3>4
    <3> HIDE DEF r
    <3> QED
      BY <3>4, <3>5, <3>6 DEF Reads, r
  <2> QED
    BY <2>2, <2>3
<1> QED
  BY <1>1, <1>2

\* ModR/M, SIB and OREX are inside the bytes.
LEMMA ModRMStays ==
  ASSUME NEW bytes \in Seq(Byte), NEW c, Reads(bytes, c), c.ok
  PROVE Reads(bytes, ReadModRM(c)) /\ (ReadModRM(c).ok => ReadModRM(c).form = c.form)
<1> DEFINE modrm == At(c.bytes, c.at)
           mod == modrm \div 64
           sib == c.form \in MemoryForms /\ modrm % 8 = 4
           after == c.at + (IF sib THEN 2 ELSE 1)
           orex == IF c.extended THEN At(c.bytes, after) ELSE 0
           next == after + (IF c.extended THEN 1 ELSE 0)
           r == ReadModRM(c)
<1>1. /\ DOMAIN c = ReadingFields /\ c.ok = TRUE /\ c.bytes = bytes /\ c.at \in Nat
      /\ c.at <= Len(bytes) /\ Len(bytes) \in Nat /\ c.form \in Forms
  BY FailNothing, LenProperties DEF Reads
<1>2. modrm \in Byte /\ mod \in 0 .. 3
  <2>1. modrm \in Byte
    BY <1>1, AtIsByte
  <2> HIDE DEF modrm
  <2> QED
    BY <2>1 DEF Byte
<1>3. after \in Nat /\ next \in Nat
  BY <1>1
<1>4. \/ r = Fail
      \/ /\ c.form \in MemoryForms => mod # 3
         /\ next <= Len(bytes)
         /\ DOMAIN r = ReadingFields /\ r.ok = TRUE /\ r.bytes = bytes /\ r.at = next
         /\ r.form = c.form /\ r.mod = mod
  <2> DEFINE bad == \/ ~Holds(c.bytes, c.at, 1)
                    \/ (c.form \in MemoryForms) = (mod = 3)
                    \/ sib /\ ~Holds(c.bytes, c.at + 1, 1)
                    \/ c.extended /\ (~Holds(c.bytes, after, 1) \/ (~sib /\ orex >= 16))
             low == IF sib THEN At(c.bytes, c.at + 1) % 8 ELSE modrm % 8
             opened == [c EXCEPT !.at = next, !.mod = mod, !.sib = sib,
                          !.reg = ((modrm \div 8) % 8) + ExtraBits(orex, 1),
                          !.rm = low + (IF sib THEN ExtraBits(orex, 64) ELSE ExtraBits(orex, 4)),
                          !.index = IF sib THEN ((At(c.bytes, c.at + 1) \div 8) % 8)
                                                + ExtraBits(orex, 16) ELSE 4,
                          !.scale = IF sib THEN 2 ^ (At(c.bytes, c.at + 1) \div 64) ELSE 1]
  <2>1. r = IF bad THEN Fail ELSE opened
    BY DEF ReadModRM
  <2>2. /\ DOMAIN opened = ReadingFields /\ opened.ok = TRUE /\ opened.bytes = bytes
        /\ opened.at = next /\ opened.form = c.form /\ opened.mod = mod
    <3> HIDE DEF next, mod, sib, modrm, orex, low
    <3> QED
      BY <1>1, ReadingNames
  <2>3. ~bad => (c.form \in MemoryForms => mod # 3)
    BY <1>1
  <2>4. ~bad => next <= Len(bytes)
    <3> HIDE DEF orex, mod
    <3> QED
      BY <1>1 DEF Holds
  <2> HIDE DEF r, opened, bad, next
  <2> QED
    BY <2>1, <2>2, <2>3, <2>4
<1> HIDE DEF r, next, mod
<1> QED
  BY <1>1, <1>2, <1>3, <1>4, FailNothing DEF Reads, r

\* What a reading that has not failed is.
LEMMA ReadSoFar ==
  ASSUME NEW bytes \in Seq(Byte), NEW c, Reads(bytes, c), c.ok
  PROVE /\ DOMAIN c = ReadingFields /\ c.ok = TRUE /\ c.bytes = bytes /\ c.at \in Nat
        /\ c.at <= Len(bytes) /\ Len(bytes) \in Nat
        /\ c.form \in Forms /\ c.mod \in 0 .. 3 /\ (c.form \in MemoryForms => c.mod \in 0 .. 2)
BY FailNothing, LenProperties DEF Reads

\* A stage that is not in order has failed.
LEMMA ReadOrFailed ==
  ASSUME NEW bytes, NEW c, Reads(bytes, c), c.ok # TRUE
  PROVE c = Fail
BY DEF Reads

\* VectorCtl is inside the bytes.
LEMMA VectorCtlStays ==
  ASSUME NEW bytes \in Seq(Byte), NEW c, Reads(bytes, c)
  PROVE /\ Reads(bytes, ReadVectorCtl(c))
        /\ ReadVectorCtl(c).ok => c.ok /\ ReadVectorCtl(c).form = c.form
<1>1. CASE ReadVectorCtl(c) \in {c, Fail}
  BY <1>1, FailNothing DEF Reads
<1>2. CASE ~(ReadVectorCtl(c) \in {c, Fail})
  <2>1. c.ok /\ Holds(c.bytes, c.at, 1)
    BY <1>2 DEF ReadVectorCtl
  <2>2. /\ DOMAIN c = ReadingFields /\ c.ok = TRUE /\ c.bytes = bytes /\ c.at \in Nat
        /\ c.at <= Len(bytes) /\ Len(bytes) \in Nat
        /\ c.form \in Forms /\ c.mod \in 0 .. 3 /\ (c.form \in MemoryForms => c.mod \in 0 .. 2)
    BY <2>1, ReadSoFar
  <2>3. PICK r : r = ReadVectorCtl(c)
    OBVIOUS
  <2>4. PICK lane : r = [c EXCEPT !.at = @ + 1, !.lane = lane]
    BY <1>2, <2>3 DEF ReadVectorCtl
  <2>5. /\ DOMAIN r = ReadingFields /\ r.ok = TRUE /\ r.bytes = bytes /\ r.at = c.at + 1
        /\ r.form = c.form /\ r.mod = c.mod
    BY <2>2, <2>4, ReadingNames
  <2>6. r.at \in Nat /\ r.at <= Len(bytes)
    BY <2>1, <2>2, <2>5 DEF Holds
  <2> QED
    BY <2>2, <2>3, <2>5, <2>6 DEF Reads
<1> QED
  BY <1>1, <1>2

\* Finding the scalar record reads nothing.
LEMMA ScalarStays ==
  ASSUME NEW bytes \in Seq(Byte), NEW c, Reads(bytes, c)
  PROVE Reads(bytes, ScalarName(c)) /\ (ScalarName(c).ok => c.ok /\ ScalarName(c).form = c.form)
<1>1. CASE c.ok # TRUE
  <2>1. c = Fail
    BY <1>1, ReadOrFailed
  <2> QED
    BY <2>1, FailNothing DEF Reads, ScalarName
<1>2. CASE c.ok = TRUE
  <2>2. /\ DOMAIN c = ReadingFields /\ c.ok = TRUE /\ c.bytes = bytes /\ c.at \in Nat
        /\ c.at <= Len(bytes) /\ Len(bytes) \in Nat
        /\ c.form \in Forms /\ c.mod \in 0 .. 3 /\ (c.form \in MemoryForms => c.mod \in 0 .. 2)
    BY <1>2, ReadSoFar
  <2>3. PICK r, name : r = ScalarName(c) /\ name = ScalarRecord(c)
    OBVIOUS
  <2>4. r = [c EXCEPT !.name = name]
    BY <2>2, <2>3 DEF ScalarName
  <2>5. /\ DOMAIN r = ReadingFields /\ r.ok = TRUE /\ r.bytes = bytes /\ r.at = c.at
        /\ r.form = c.form /\ r.mod = c.mod
    BY <2>2, <2>4, ReadingNames
  <2> QED
    BY <2>2, <2>3, <2>5 DEF Reads
<1> QED
  BY <1>1, <1>2

\* The mask or second register of a memory form is inside the bytes.
LEMMA ExtraByteStays ==
  ASSUME NEW bytes \in Seq(Byte), NEW c, Reads(bytes, c), c.ok
  PROVE Reads(bytes, ReadExtraByte(c)) /\ (ReadExtraByte(c).ok => ReadExtraByte(c).form = c.form)
<1>1. CASE ReadExtraByte(c) \in {c, Fail}
  BY <1>1, FailNothing DEF Reads
<1>2. CASE ~(ReadExtraByte(c) \in {c, Fail})
  <2>1. Holds(c.bytes, c.at, 1)
    BY <1>2 DEF ReadExtraByte
  <2>2. /\ DOMAIN c = ReadingFields /\ c.ok = TRUE /\ c.bytes = bytes /\ c.at \in Nat
        /\ c.at <= Len(bytes) /\ Len(bytes) \in Nat
        /\ c.form \in Forms /\ c.mod \in 0 .. 3 /\ (c.form \in MemoryForms => c.mod \in 0 .. 2)
    BY ReadSoFar
  <2>3. PICK r : r = ReadExtraByte(c)
    OBVIOUS
  <2>4. PICK extra : r = [c EXCEPT !.at = @ + 1, !.extra = extra]
    BY <1>2, <2>3 DEF ReadExtraByte
  <2>5. /\ DOMAIN r = ReadingFields /\ r.ok = TRUE /\ r.bytes = bytes /\ r.at = c.at + 1
        /\ r.form = c.form /\ r.mod = c.mod
    BY <2>2, <2>4, ReadingNames
  <2>6. r.at \in Nat /\ r.at <= Len(bytes)
    BY <2>1, <2>2, <2>5 DEF Holds
  <2> QED
    BY <2>2, <2>3, <2>5, <2>6 DEF Reads
<1> QED
  BY <1>1, <1>2

\* The displacement is inside the bytes.
LEMMA DisplacementStays ==
  ASSUME NEW bytes \in Seq(Byte), NEW c, Reads(bytes, c), c.ok => c.form \in MemoryForms
  PROVE /\ Reads(bytes, ReadDisplacement(c))
        /\ ReadDisplacement(c).ok => ReadDisplacement(c).form \in MemoryForms
<1>1. CASE ReadDisplacement(c) \in {c, Fail}
  BY <1>1, FailNothing DEF Reads
<1>2. CASE ~(ReadDisplacement(c) \in {c, Fail})
  <2>1. c.ok
    BY <1>2 DEF ReadDisplacement
  <2>2. /\ DOMAIN c = ReadingFields /\ c.ok = TRUE /\ c.bytes = bytes /\ c.at \in Nat
        /\ c.at <= Len(bytes) /\ Len(bytes) \in Nat
        /\ c.form \in Forms /\ c.mod \in 0 .. 3 /\ (c.form \in MemoryForms => c.mod \in 0 .. 2)
    BY <2>1, ReadSoFar
  <2>3. c.mod \in 0 .. 2 /\ c.form \in MemoryForms
    BY <2>1, <2>2
  <2>4. PICK r, n, disp :
          /\ r = ReadDisplacement(c)
          /\ n = (CASE c.mod = 0 -> 0 [] c.mod = 1 -> 1 [] c.mod = 2 -> 4)
          /\ disp = CASE c.mod = 0 -> 0
                      [] c.mod = 1 -> Signed8(At(c.bytes, c.at))
                      [] c.mod = 2 -> Signed32(c.bytes, c.at)
    OBVIOUS
  <2>5. r = [c EXCEPT !.at = @ + n, !.disp = disp]
    BY <1>2, <2>4, Zenon DEF ReadDisplacement
  <2>6. n \in Nat /\ c.at + n <= Len(bytes)
    <3>1. c.mod = 1 => Holds(c.bytes, c.at, 1)
      BY <1>2 DEF ReadDisplacement
    <3>2. c.mod = 2 => Holds(c.bytes, c.at, 4)
      BY <1>2 DEF ReadDisplacement
    <3>3. \/ c.mod = 0 /\ n = 0
          \/ c.mod = 1 /\ n = 1
          \/ c.mod = 2 /\ n = 4
      BY <2>3, <2>4
    <3> QED
      BY <2>2, <3>1, <3>2, <3>3 DEF Holds
  <2>7. /\ DOMAIN r = ReadingFields /\ r.ok = TRUE /\ r.bytes = bytes /\ r.at = c.at + n
        /\ r.form = c.form /\ r.mod = c.mod
    BY <2>2, <2>5, ReadingNames
  <2>8. r.at \in Nat /\ r.at <= Len(bytes)
    BY <2>2, <2>6, <2>7
  <2> QED
    BY <2>2, <2>3, <2>4, <2>7, <2>8 DEF Reads
<1> QED
  BY <1>1, <1>2

\* An instruction read up to n bytes after c.at.
LEMMA SuccessFits ==
  ASSUME NEW bytes \in Seq(Byte), NEW c, Reads(bytes, c), c.ok, NEW ops, NEW n \in Nat,
         n = 0 \/ Holds(c.bytes, c.at, n)
  PROVE Fits(bytes, Success(c, ops, c.at + n))
<1>1. c.bytes = bytes /\ c.at \in Nat /\ c.at <= Len(bytes) /\ Len(bytes) \in Nat
  BY ReadSoFar
<1>2. Success(c, ops, c.at + n).size = c.at + n
  BY DEF Success
<1>3. c.at + n \in Nat /\ c.at + n <= Len(bytes)
  BY <1>1 DEF Holds
<1> QED
  BY <1>2, <1>3 DEF Fits

\* An instruction that ends where reading stopped.
LEMMA SuccessAtFits ==
  ASSUME NEW bytes \in Seq(Byte), NEW c, Reads(bytes, c), c.ok, NEW ops
  PROVE Fits(bytes, Success(c, ops, c.at))
<1>1. c.at \in Nat
  BY ReadSoFar
<1>2. c.at + 0 = c.at
  BY <1>1
<1>3. Fits(bytes, Success(c, ops, c.at + 0))
  BY SuccessFits
<1> QED
  BY <1>2, <1>3

\* A failure is no longer than the bytes.
LEMMA FailFits == ASSUME NEW bytes PROVE Fits(bytes, Fail)
BY FailNothing DEF Fits

\* A memory form ends where its displacement does.
LEMMA MemoryFits ==
  ASSUME NEW bytes \in Seq(Byte), NEW c, Reads(bytes, c), c.ok => c.form \in MemoryForms
  PROVE Fits(bytes, ReadMemory(c))
<1>1. CASE c.ok # TRUE
  <2>1. c = Fail
    BY <1>1, ReadOrFailed
  <2> QED
    BY <2>1, FailNothing DEF Fits, ReadMemory
<1>2. CASE c.ok = TRUE
  <2>1. \A ops : Fits(bytes, Success(c, ops, c.at))
    BY <1>2, SuccessAtFits
  <2>2. c.form \in MemoryForms
    BY <1>2
  <2>3. \/ \E ops : ReadMemory(c) = Success(c, ops, c.at)
        \/ ReadMemory(c) = Fail
    BY <1>2, <2>2, SMTT(60) DEF MemoryForms, ReadMemory, ReadGather, ReadScatter, ReadAddressOnly,
       ReadAtomic, ReadPairStore, ReadAtomicCAS, ReadVectorAtomic, ReadLoad, ReadStore
  <2> QED
    BY <2>1, <2>3, FailFits
<1> QED
  BY <1>1, <1>2

\* A memory form is inside the bytes.
LEMMA MemoryFormFits ==
  ASSUME NEW bytes \in Seq(Byte), NEW c, Reads(bytes, c), c.ok, c.form \in MemoryForms
  PROVE Fits(bytes, ReadMemoryForm(c))
<1>1. PICK d : d = ReadExtraByte(c)
  OBVIOUS
<1>2. Reads(bytes, d) /\ (d.ok => d.form \in MemoryForms)
  BY <1>1, ExtraByteStays
<1>3. PICK e : e = ReadDisplacement(d)
  OBVIOUS
<1>4. Reads(bytes, e) /\ (e.ok => e.form \in MemoryForms)
  BY <1>2, <1>3, DisplacementStays
<1>5. Fits(bytes, ReadMemory(e))
  BY <1>4, MemoryFits
<1> QED
  BY <1>1, <1>3, <1>5 DEF ReadMemoryForm

\* What a form without memory leads to: a failure, or an instruction that ends where the
\* last byte was tested to be there.
EndsTested(bytes, c, r) ==
  \/ r = Fail
  \/ \E ops : r = Success(c, ops, c.at)
  \/ \E n, ops : n \in Nat /\ Holds(c.bytes, c.at, n) /\ r = Success(c, ops, c.at + n)

\* A form that tests for its last bytes is inside the bytes.
LEMMA EndsFits ==
  ASSUME NEW bytes \in Seq(Byte), NEW c, Reads(bytes, c), c.ok, NEW r, EndsTested(bytes, c, r)
  PROVE Fits(bytes, r)
<1>1. CASE r = Fail
  BY <1>1, FailFits
<1>2. ASSUME NEW ops, r = Success(c, ops, c.at) PROVE Fits(bytes, r)
  BY <1>2, SuccessAtFits
<1>3. ASSUME NEW n, NEW ops, n \in Nat, Holds(c.bytes, c.at, n), r = Success(c, ops, c.at + n)
      PROVE Fits(bytes, r)
  BY <1>3, SuccessFits
<1> QED
  BY <1>1, <1>2, <1>3 DEF EndsTested

\* The forms with an address-wide immediate test for it.
LEMMA AddressEnds ==
  ASSUME NEW bytes, NEW c, NEW is64 \in BOOLEAN
  PROVE /\ EndsTested(bytes, c, ReadFrameImm(c, is64)) /\ EndsTested(bytes, c, ReadAddressImm(c, is64))
        /\ EndsTested(bytes, c, ReadTernaryImm(c, is64))
<1>1. AddressWidth(is64) \in Nat
  BY DEF AddressWidth
<1>2. EndsTested(bytes, c, ReadFrameImm(c, is64))
  BY <1>1 DEF ReadFrameImm, EndsTested
<1>3. EndsTested(bytes, c, ReadAddressImm(c, is64))
  BY <1>1 DEF ReadAddressImm, EndsTested
<1>4. EndsTested(bytes, c, ReadTernaryImm(c, is64))
  BY <1>1 DEF ReadTernaryImm, EndsTested
<1> QED
  BY <1>2, <1>3, <1>4

\* The forms without ModR/M test for their immediate.
LEMMA DirectEnds ==
  ASSUME NEW bytes, NEW c
  PROVE /\ EndsTested(bytes, c, ReadNoOperand(c)) /\ EndsTested(bytes, c, ReadTrapImm(c))
        /\ EndsTested(bytes, c, ReadBranch(c))
BY DEF ReadNoOperand, ReadTrapImm, ReadBranch, EndsTested

\* The forms between registers test for their last byte.
LEMMA RegisterEnds ==
  ASSUME NEW bytes, NEW c
  PROVE /\ EndsTested(bytes, c, ReadPairLoad(c)) /\ EndsTested(bytes, c, ReadIndirectCall(c))
        /\ EndsTested(bytes, c, ReadRegCondBranch(c)) /\ EndsTested(bytes, c, ReadUnaryInPlace(c))
        /\ EndsTested(bytes, c, ReadOneRegister(c)) /\ EndsTested(bytes, c, ReadControl(c))
        /\ EndsTested(bytes, c, ReadAVXRegImm(c)) /\ EndsTested(bytes, c, ReadAVXBinaryImm(c))
        /\ EndsTested(bytes, c, ReadTernaryRR(c)) /\ EndsTested(bytes, c, ReadDSPRegisters(c))
        /\ EndsTested(bytes, c, ReadDSPDot(c)) /\ EndsTested(bytes, c, ReadVectorBinary(c))
        /\ EndsTested(bytes, c, ReadFPXFused(c)) /\ EndsTested(bytes, c, ReadCopyVV(c))
        /\ EndsTested(bytes, c, ReadConversion(c)) /\ EndsTested(bytes, c, ReadRegisterPair(c))
<1>1. EndsTested(bytes, c, ReadPairLoad(c)) /\ EndsTested(bytes, c, ReadIndirectCall(c))
  BY DEF ReadPairLoad, ReadIndirectCall, EndsTested
<1>2. EndsTested(bytes, c, ReadRegCondBranch(c)) /\ EndsTested(bytes, c, ReadUnaryInPlace(c))
  BY DEF ReadRegCondBranch, ReadUnaryInPlace, EndsTested
<1>3. EndsTested(bytes, c, ReadOneRegister(c)) /\ EndsTested(bytes, c, ReadControl(c))
  BY DEF ReadOneRegister, ReadControl, EndsTested
<1>4. EndsTested(bytes, c, ReadAVXRegImm(c)) /\ EndsTested(bytes, c, ReadAVXBinaryImm(c))
  BY DEF ReadAVXRegImm, ReadAVXBinaryImm, EndsTested
<1>5. EndsTested(bytes, c, ReadTernaryRR(c)) /\ EndsTested(bytes, c, ReadVectorBinary(c))
  BY DEF ReadTernaryRR, ReadVectorBinary, EndsTested
<1>6. EndsTested(bytes, c, ReadDSPRegisters(c))
  BY DEF ReadDSPRegisters, EndsTested
<1>7. EndsTested(bytes, c, ReadDSPDot(c))
  BY DEF ReadDSPDot, EndsTested
<1>8. EndsTested(bytes, c, ReadFPXFused(c)) /\ EndsTested(bytes, c, ReadCopyVV(c))
  BY DEF ReadFPXFused, ReadCopyVV, EndsTested
<1>9. EndsTested(bytes, c, ReadConversion(c)) /\ EndsTested(bytes, c, ReadRegisterPair(c))
  BY DEF ReadConversion, ReadRegisterPair, EndsTested
<1> QED
  BY <1>1, <1>2, <1>3, <1>4, <1>5, <1>6, <1>7, <1>8, <1>9

\* Every form with ModR/M is inside the bytes.
LEMMA OperandsFit ==
  ASSUME NEW bytes \in Seq(Byte), NEW c, Reads(bytes, c), NEW is64 \in BOOLEAN,
         c.ok => c.form \notin {"NoOperand", "TrapImm", "FrameImm", "Branch"}
  PROVE Fits(bytes, ReadOperands(c, is64))
<1>1. CASE c.ok # TRUE
  <2>1. c = Fail
    BY <1>1, ReadOrFailed
  <2> QED
    BY <2>1, FailNothing DEF Fits, ReadOperands
<1>2. CASE c.ok = TRUE
  <2>1. c.form \in Forms \ {"NoOperand", "TrapImm", "FrameImm", "Branch"}
    BY <1>2, ReadSoFar
  <2>2. CASE c.form \in MemoryForms
    <3>1. ReadOperands(c, is64) = ReadMemoryForm(c)
      BY <1>2, <2>2, SMTT(60) DEF ReadOperands, MemoryForms
    <3> QED
      BY <1>2, <2>2, <3>1, MemoryFormFits
  <2>3. CASE c.form \notin MemoryForms
    <3>1. ReadOperands(c, is64) \in
            {ReadPairLoad(c), ReadAddressImm(c, is64), ReadIndirectCall(c), ReadRegCondBranch(c),
             ReadUnaryInPlace(c), ReadOneRegister(c), ReadControl(c), ReadTernaryImm(c, is64),
             ReadAVXRegImm(c), ReadAVXBinaryImm(c), ReadTernaryRR(c), ReadDSPRegisters(c),
             ReadDSPDot(c), ReadVectorBinary(c), ReadFPXFused(c), ReadCopyVV(c),
             ReadConversion(c), ReadRegisterPair(c)}
      BY <1>2, <2>1, <2>3, SMTT(60) DEF ReadOperands, Forms, MemoryForms
    <3>2. PICK r : r = ReadOperands(c, is64)
      OBVIOUS
    <3>3. EndsTested(bytes, c, r)
      BY <3>1, <3>2, AddressEnds, RegisterEnds
    <3> QED
      BY <1>2, <3>2, <3>3, EndsFits
  <2> QED
    BY <2>2, <2>3
<1> QED
  BY <1>1, <1>2

\* The disassembler never reads past the end of the bytes it is given.
LEMMA GetInstructionFits ==
  ASSUME NEW bytes \in Seq(Byte), NEW is64 \in BOOLEAN
  PROVE Fits(bytes, GetInstruction(bytes, is64))
<1>1. PICK c : c = ReadOpcode(ReadPrefixes(bytes))
  OBVIOUS
<1>2. Reads(bytes, c)
  <2>1. PICK p : p = ReadPrefixes(bytes)
    OBVIOUS
  <2>2. \/ p = Fail
        \/ /\ DOMAIN p = ReadingFields /\ p.ok = TRUE /\ p.bytes = bytes /\ p.mod = 0
           /\ p.at \in Nat /\ p.at < Len(bytes)
    BY <2>1, PrefixesStay
  <2> QED
    BY <1>1, <2>1, <2>2, OpcodeStays
<1>3. GetInstruction(bytes, is64) = ReadInstruction(c, is64)
  BY <1>1 DEF GetInstruction
<1>4. CASE c.ok # TRUE
  <2>1. c = Fail
    BY <1>2, <1>4, ReadOrFailed
  <2> QED
    BY <1>3, <2>1, FailNothing DEF Fits, ReadInstruction
<1>5. CASE c.ok = TRUE
  <2>1. CASE c.form \in {"NoOperand", "TrapImm", "FrameImm", "Branch"}
    <3>1. ReadInstruction(c, is64) \in {ReadNoOperand(c), ReadTrapImm(c), ReadFrameImm(c, is64),
                                        ReadBranch(c)}
      BY <1>5, <2>1 DEF ReadInstruction
    <3>2. PICK r : r = ReadInstruction(c, is64)
      OBVIOUS
    <3>3. EndsTested(bytes, c, r)
      BY <3>1, <3>2, AddressEnds, DirectEnds
    <3> QED
      BY <1>2, <1>3, <1>5, <3>2, <3>3, EndsFits
  <2>2. CASE c.form \notin {"NoOperand", "TrapImm", "FrameImm", "Branch"}
    <3>1. ReadInstruction(c, is64) = ReadWithModRM(c, is64)
      BY <1>5, <2>2 DEF ReadInstruction
    <3>2. PICK d : d = ReadModRM(c)
      OBVIOUS
    <3>3. PICK e : e = ReadVectorCtl(d)
      OBVIOUS
    <3>4. PICK f : f = ScalarName(e)
      OBVIOUS
    <3>5. Reads(bytes, d) /\ Reads(bytes, e) /\ Reads(bytes, f)
      BY <1>2, <1>5, <3>2, <3>3, <3>4, ModRMStays, VectorCtlStays, ScalarStays
    <3>6. ReadWithModRM(c, is64) = ReadOperands(f, is64)
      BY <3>2, <3>3, <3>4 DEF ReadWithModRM
    <3>7. f.ok => f.form = c.form
      <4>1. d.ok => d.form = c.form
        BY <1>2, <1>5, <3>2, ModRMStays
      <4>2. e.ok => d.ok /\ e.form = d.form
        BY <3>3, <3>5, VectorCtlStays
      <4>3. f.ok => e.ok /\ f.form = e.form
        BY <3>4, <3>5, ScalarStays
      <4> QED
        BY <4>1, <4>2, <4>3
    <3>8. f.ok => f.form \notin {"NoOperand", "TrapImm", "FrameImm", "Branch"}
      BY <2>2, <3>7
    <3>9. Fits(bytes, ReadOperands(f, is64))
      BY <3>5, <3>8, OperandsFit
    <3> QED
      BY <1>3, <3>1, <3>6, <3>9
  <2> QED
    BY <2>1, <2>2
<1> QED
  BY <1>4, <1>5

-----------------------------------------------------------------------------
(* The opcode maps, read backwards: which instruction stands at a place.   *)
\* The place of each listed instruction in the opcode maps: 256 times its group, plus its byte.
Places1(f) ==
  /\ f["MOVrr"] = 0 /\ f["MOVI64"] = 1 /\ f["LDBrr"] = 19 /\ f["LDQrr"] = 22
  /\ f["STBrr"] = 23 /\ f["STQrr"] = 26 /\ f["LDP"] = 27 /\ f["STP"] = 28 /\ f["LEA"] = 29
  /\ f["ADDrr"] = 32 /\ f["ADDI"] = 33 /\ f["INC"] = 43 /\ f["ABSrr"] = 52 /\ f["EXTri"] = 81
  /\ f["CMPrr"] = 82 /\ f["CMPI"] = 83 /\ f["JMP"] = 92 /\ f["JMPA"] = 93 /\ f["CALL"] = 94
  /\ f["CALLA"] = 95 /\ f["RET"] = 96 /\ f["JE"] = 97 /\ f["JZR"] = 109 /\ f["TRAP"] = 112
  /\ f["YIELD"] = 113 /\ f["PREFETCH"] = 114 /\ f["FLUSH"] = 115 /\ f["CPYBrrr"] = 123
  /\ f["CPYWrrr"] = 124 /\ f["MEMFILLrrr"] = 125 /\ f["HLT"] = 126 /\ f["RDCR"] = 128
Places2(f) ==
  /\ f["WRCR"] = 129 /\ f["SYSCALL"] = 130 /\ f["RDTIME"] = 136 /\ f["SLEEP"] = 138
  /\ f["PUSH"] = 141 /\ f["POP"] = 142 /\ f["ENTER"] = 145 /\ f["PUSHQ"] = 149
  /\ f["POPQ"] = 150 /\ f["VADD128"] = 151 /\ f["VSHL128"] = 158 /\ f["VLD128"] = 161
  /\ f["VST128"] = 162 /\ f["VABS128"] = 163 /\ f["FADD64"] = 166 /\ f["FSQRT64"] = 170
  /\ f["FCMP64"] = 171 /\ f["FCVTI64"] = 172 /\ f["FCVTS64"] = 173 /\ f["XCHGmem"] = 177
  /\ f["CMPXCHG"] = 178 /\ f["ATADD"] = 179 /\ f["LL"] = 184 /\ f["SC"] = 185
  /\ f["XCHG128"] = 191 /\ f["PDEPrrr"] = 192 /\ f["PEXTrrr"] = 193 /\ f["RORXri"] = 202
  /\ f["XBEGIN"] = 208 /\ f["XBEGINA"] = 209 /\ f["XEND"] = 210 /\ f["XABORTi"] = 211
Places3(f) ==
  /\ f["XABORTr"] = 212 /\ f["XTEST"] = 213 /\ f["ADCrr"] = 216 /\ f["FCVTU64"] = 219
  /\ f["VFMADD128"] = 256 /\ f["VPERMUTE128"] = 260 /\ f["VSHUFFLE128"] = 261
  /\ f["VTEST128"] = 263 /\ f["VGATHER128"] = 271 /\ f["VSCATTER128"] = 272
  /\ f["VZEROALL"] = 287 /\ f["AESENC128"] = 512 /\ f["AESIMC128"] = 514 /\ f["MAC32"] = 768
  /\ f["FIXED_MUL"] = 774 /\ f["CMPLX_MUL"] = 778 /\ f["BITREV"] = 779
  /\ f["UNPACK_EXP"] = 783 /\ f["DOTP"] = 786 /\ f["SUMDOTP"] = 787 /\ f["QUERY"] = 1024
  /\ f["OUT"] = 1026 /\ f["XSAVE"] = 1027 /\ f["ISYNC"] = 1032 /\ f["INVTLB"] = 1033
  /\ f["INVTLBASID"] = 1034 /\ f["SENDIPI"] = 1036 /\ f["VMENTER"] = 1038 /\ f["WRSS"] = 1043
  /\ f["RDPMC"] = 1044 /\ f["RNGGET"] = 1045 /\ f["SETMODE"] = 1050
Places4(f) ==
  /\ f["WINNEW"] = 1051 /\ f["FMADD64"] = 1280 /\ f["FMIN64"] = 1284 /\ f["FRECIP64"] = 1286
  /\ f["FLD64"] = 1296 /\ f["FST64"] = 1297
Places(f) == Places1(f) /\ Places2(f) /\ Places3(f) /\ Places4(f)

\* The names, as they are listed.
ListedNames == {
  "MOVrr", "MOVI64", "LDBrr", "LDQrr", "STBrr", "STQrr", "LDP", "STP", "LEA", "ADDrr", "ADDI",
  "INC", "ABSrr", "EXTri", "CMPrr", "CMPI", "JMP", "JMPA", "CALL", "CALLA", "RET", "JE", "JZR",
  "TRAP", "YIELD", "PREFETCH", "FLUSH", "CPYBrrr", "CPYWrrr", "MEMFILLrrr", "HLT", "RDCR",
  "WRCR", "SYSCALL", "RDTIME", "SLEEP", "PUSH", "POP", "ENTER", "PUSHQ", "POPQ", "VADD128",
  "VSHL128", "VLD128", "VST128", "VABS128", "FADD64", "FSQRT64", "FCMP64", "FCVTI64",
  "FCVTS64", "XCHGmem", "CMPXCHG", "ATADD", "LL", "SC", "XCHG128", "PDEPrrr", "PEXTrrr",
  "RORXri", "XBEGIN", "XBEGINA", "XEND", "XABORTi", "XABORTr", "XTEST", "ADCrr", "FCVTU64",
  "VFMADD128", "VPERMUTE128", "VSHUFFLE128", "VTEST128", "VGATHER128", "VSCATTER128",
  "VZEROALL", "AESENC128", "AESIMC128", "MAC32", "FIXED_MUL", "CMPLX_MUL", "BITREV",
  "UNPACK_EXP", "DOTP", "SUMDOTP", "QUERY", "OUT", "XSAVE", "ISYNC", "INVTLB", "INVTLBASID",
  "SENDIPI", "VMENTER", "WRSS", "RDPMC", "RNGGET", "SETMODE", "WINNEW", "FMADD64", "FMIN64",
  "FRECIP64", "FLD64", "FST64"}

\* No two instructions have one place.
LEMMA PlacesDiffer == ASSUME NEW f, Places(f) PROVE \A m, n \in ListedNames : f[m] = f[n] => m = n
BY SMTT(120) DEF Places, ListedNames, Places1, Places2, Places3, Places4

\* The place of an instruction, from its record.
OpcodePlace == [n \in DOMAIN Opcodes |-> 256 * Class[Opcodes[n][2]][1] + Opcodes[n][1]]

\* The listed names are those of the instruction set.
LEMMA ListedAll == DOMAIN Opcodes = ListedNames
BY SMTT(60) DEF Opcodes, ListedNames

\* The first of these places.
LEMMA PlacesFound1 == Places1(OpcodePlace)
<1>1. /\ Opcodes["MOVrr"][1] = 0 /\ Opcodes["MOVrr"][2] = "CopyRR"
      /\ Opcodes["MOVI64"][1] = 1 /\ Opcodes["MOVI64"][2] = "RI64"
      /\ Opcodes["LDBrr"][1] = 19 /\ Opcodes["LDBrr"][2] = "LoadQ"
      /\ Opcodes["LDQrr"][1] = 22 /\ Opcodes["LDQrr"][2] = "LoadQ"
      /\ Opcodes["STBrr"][1] = 23 /\ Opcodes["STBrr"][2] = "StoreQ"
      /\ Opcodes["STQrr"][1] = 26 /\ Opcodes["STQrr"][2] = "StoreQ"
      /\ Opcodes["LDP"][1] = 27 /\ Opcodes["LDP"][2] = "PairLoad"
      /\ Opcodes["STP"][1] = 28 /\ Opcodes["STP"][2] = "PairStore"
      /\ Opcodes["LEA"][1] = 29 /\ Opcodes["LEA"][2] = "AddressCalc"
      /\ Opcodes["ADDrr"][1] = 32 /\ Opcodes["ADDrr"][2] = "ALURR"
      /\ Opcodes["ADDI"][1] = 33 /\ Opcodes["ADDI"][2] = "ALURI"
      /\ Opcodes["INC"][1] = 43 /\ Opcodes["INC"][2] = "UnaryInPlace"
      /\ Opcodes["ABSrr"][1] = 52 /\ Opcodes["ABSrr"][2] = "UnaryRR"
      /\ Opcodes["EXTri"][1] = 81 /\ Opcodes["EXTri"][2] = "TernaryByte"
      /\ Opcodes["CMPrr"][1] = 82 /\ Opcodes["CMPrr"][2] = "CompareRR"
      /\ Opcodes["CMPI"][1] = 83 /\ Opcodes["CMPI"][2] = "CompareRI"
      /\ Opcodes["JMP"][1] = 92 /\ Opcodes["JMP"][2] = "UncondBranch"
      /\ Opcodes["JMPA"][1] = 93 /\ Opcodes["JMPA"][2] = "IndirectBranch"
      /\ Opcodes["CALL"][1] = 94 /\ Opcodes["CALL"][2] = "Call"
      /\ Opcodes["CALLA"][1] = 95 /\ Opcodes["CALLA"][2] = "IndirectCall"
      /\ Opcodes["RET"][1] = 96 /\ Opcodes["RET"][2] = "Return"
      /\ Opcodes["JE"][1] = 97 /\ Opcodes["JE"][2] = "CondBranch"
      /\ Opcodes["JZR"][1] = 109 /\ Opcodes["JZR"][2] = "RegCondBranch"
      /\ Opcodes["TRAP"][1] = 112 /\ Opcodes["TRAP"][2] = "TrapImm"
      /\ Opcodes["YIELD"][1] = 113 /\ Opcodes["YIELD"][2] = "NoOperand"
      /\ Opcodes["PREFETCH"][1] = 114 /\ Opcodes["PREFETCH"][2] = "MemoryOnly"
      /\ Opcodes["FLUSH"][1] = 115 /\ Opcodes["FLUSH"][2] = "MemoryOnly"
      /\ Opcodes["CPYBrrr"][1] = 123 /\ Opcodes["CPYBrrr"][2] = "StringCopy"
      /\ Opcodes["CPYWrrr"][1] = 124 /\ Opcodes["CPYWrrr"][2] = "StringCopy"
      /\ Opcodes["MEMFILLrrr"][1] = 125 /\ Opcodes["MEMFILLrrr"][2] = "StringFill"
      /\ Opcodes["HLT"][1] = 126 /\ Opcodes["HLT"][2] = "SystemNoOperand"
      /\ Opcodes["RDCR"][1] = 128 /\ Opcodes["RDCR"][2] = "ReadControl"
  <2>1. /\ Opcodes["MOVrr"][1] = 0 /\ Opcodes["MOVrr"][2] = "CopyRR"
        /\ Opcodes["MOVI64"][1] = 1 /\ Opcodes["MOVI64"][2] = "RI64"
        /\ Opcodes["LDBrr"][1] = 19 /\ Opcodes["LDBrr"][2] = "LoadQ"
        /\ Opcodes["LDQrr"][1] = 22 /\ Opcodes["LDQrr"][2] = "LoadQ"
        /\ Opcodes["STBrr"][1] = 23 /\ Opcodes["STBrr"][2] = "StoreQ"
        /\ Opcodes["STQrr"][1] = 26 /\ Opcodes["STQrr"][2] = "StoreQ"
        /\ Opcodes["LDP"][1] = 27 /\ Opcodes["LDP"][2] = "PairLoad"
        /\ Opcodes["STP"][1] = 28 /\ Opcodes["STP"][2] = "PairStore"
        /\ Opcodes["LEA"][1] = 29 /\ Opcodes["LEA"][2] = "AddressCalc"
        /\ Opcodes["ADDrr"][1] = 32 /\ Opcodes["ADDrr"][2] = "ALURR"
        /\ Opcodes["ADDI"][1] = 33 /\ Opcodes["ADDI"][2] = "ALURI"
        /\ Opcodes["INC"][1] = 43 /\ Opcodes["INC"][2] = "UnaryInPlace"
        /\ Opcodes["ABSrr"][1] = 52 /\ Opcodes["ABSrr"][2] = "UnaryRR"
        /\ Opcodes["EXTri"][1] = 81 /\ Opcodes["EXTri"][2] = "TernaryByte"
        /\ Opcodes["CMPrr"][1] = 82 /\ Opcodes["CMPrr"][2] = "CompareRR"
        /\ Opcodes["CMPI"][1] = 83 /\ Opcodes["CMPI"][2] = "CompareRI"
    BY SMTT(60) DEF Opcodes
  <2>2. /\ Opcodes["JMP"][1] = 92 /\ Opcodes["JMP"][2] = "UncondBranch"
        /\ Opcodes["JMPA"][1] = 93 /\ Opcodes["JMPA"][2] = "IndirectBranch"
        /\ Opcodes["CALL"][1] = 94 /\ Opcodes["CALL"][2] = "Call"
        /\ Opcodes["CALLA"][1] = 95 /\ Opcodes["CALLA"][2] = "IndirectCall"
        /\ Opcodes["RET"][1] = 96 /\ Opcodes["RET"][2] = "Return"
        /\ Opcodes["JE"][1] = 97 /\ Opcodes["JE"][2] = "CondBranch"
        /\ Opcodes["JZR"][1] = 109 /\ Opcodes["JZR"][2] = "RegCondBranch"
        /\ Opcodes["TRAP"][1] = 112 /\ Opcodes["TRAP"][2] = "TrapImm"
        /\ Opcodes["YIELD"][1] = 113 /\ Opcodes["YIELD"][2] = "NoOperand"
        /\ Opcodes["PREFETCH"][1] = 114 /\ Opcodes["PREFETCH"][2] = "MemoryOnly"
        /\ Opcodes["FLUSH"][1] = 115 /\ Opcodes["FLUSH"][2] = "MemoryOnly"
        /\ Opcodes["CPYBrrr"][1] = 123 /\ Opcodes["CPYBrrr"][2] = "StringCopy"
        /\ Opcodes["CPYWrrr"][1] = 124 /\ Opcodes["CPYWrrr"][2] = "StringCopy"
        /\ Opcodes["MEMFILLrrr"][1] = 125 /\ Opcodes["MEMFILLrrr"][2] = "StringFill"
        /\ Opcodes["HLT"][1] = 126 /\ Opcodes["HLT"][2] = "SystemNoOperand"
        /\ Opcodes["RDCR"][1] = 128 /\ Opcodes["RDCR"][2] = "ReadControl"
    BY SMTT(60) DEF Opcodes
  <2> QED
    BY <2>1, <2>2
<1>2. /\ Class["ALURI"][1] = 0
      /\ Class["ALURR"][1] = 0
      /\ Class["AddressCalc"][1] = 0
      /\ Class["Call"][1] = 0
      /\ Class["CompareRI"][1] = 0
      /\ Class["CompareRR"][1] = 0
      /\ Class["CondBranch"][1] = 0
      /\ Class["CopyRR"][1] = 0
      /\ Class["IndirectBranch"][1] = 0
      /\ Class["IndirectCall"][1] = 0
      /\ Class["LoadQ"][1] = 0
      /\ Class["MemoryOnly"][1] = 0
      /\ Class["NoOperand"][1] = 0
      /\ Class["PairLoad"][1] = 0
      /\ Class["PairStore"][1] = 0
      /\ Class["RI64"][1] = 0
      /\ Class["ReadControl"][1] = 0
      /\ Class["RegCondBranch"][1] = 0
      /\ Class["Return"][1] = 0
      /\ Class["StoreQ"][1] = 0
      /\ Class["StringCopy"][1] = 0
      /\ Class["StringFill"][1] = 0
      /\ Class["SystemNoOperand"][1] = 0
      /\ Class["TernaryByte"][1] = 0
      /\ Class["TrapImm"][1] = 0
      /\ Class["UnaryInPlace"][1] = 0
      /\ Class["UnaryRR"][1] = 0
      /\ Class["UncondBranch"][1] = 0
  BY SMTT(60) DEF Class
<1>3. {"MOVrr", "MOVI64", "LDBrr", "LDQrr", "STBrr", "STQrr", "LDP", "STP", "LEA", "ADDrr", "ADDI", "INC", "ABSrr", "EXTri", "CMPrr", "CMPI", "JMP", "JMPA", "CALL", "CALLA", "RET", "JE", "JZR", "TRAP", "YIELD", "PREFETCH", "FLUSH", "CPYBrrr", "CPYWrrr", "MEMFILLrrr", "HLT", "RDCR"} \subseteq DOMAIN Opcodes
  BY ListedAll DEF ListedNames
<1> QED
  BY <1>1, <1>2, <1>3 DEF Places1, OpcodePlace

\* The second of these places.
LEMMA PlacesFound2 == Places2(OpcodePlace)
<1>1. /\ Opcodes["WRCR"][1] = 129 /\ Opcodes["WRCR"][2] = "WriteControl"
      /\ Opcodes["SYSCALL"][1] = 130 /\ Opcodes["SYSCALL"][2] = "NoOperand"
      /\ Opcodes["RDTIME"][1] = 136 /\ Opcodes["RDTIME"][2] = "ReadReg"
      /\ Opcodes["SLEEP"][1] = 138 /\ Opcodes["SLEEP"][2] = "SleepImm"
      /\ Opcodes["PUSH"][1] = 141 /\ Opcodes["PUSH"][2] = "PushReg"
      /\ Opcodes["POP"][1] = 142 /\ Opcodes["POP"][2] = "PopReg"
      /\ Opcodes["ENTER"][1] = 145 /\ Opcodes["ENTER"][2] = "FrameImm"
      /\ Opcodes["PUSHQ"][1] = 149 /\ Opcodes["PUSHQ"][2] = "PushReg"
      /\ Opcodes["POPQ"][1] = 150 /\ Opcodes["POPQ"][2] = "PopReg"
      /\ Opcodes["VADD128"][1] = 151 /\ Opcodes["VADD128"][2] = "VBinary"
      /\ Opcodes["VSHL128"][1] = 158 /\ Opcodes["VSHL128"][2] = "VShiftImm"
      /\ Opcodes["VLD128"][1] = 161 /\ Opcodes["VLD128"][2] = "VectorLoad"
      /\ Opcodes["VST128"][1] = 162 /\ Opcodes["VST128"][2] = "VectorStore"
      /\ Opcodes["VABS128"][1] = 163 /\ Opcodes["VABS128"][2] = "VUnary"
      /\ Opcodes["FADD64"][1] = 166 /\ Opcodes["FADD64"][2] = "FPBinary"
      /\ Opcodes["FSQRT64"][1] = 170 /\ Opcodes["FSQRT64"][2] = "FPUnary"
      /\ Opcodes["FCMP64"][1] = 171 /\ Opcodes["FCMP64"][2] = "FPCompare"
      /\ Opcodes["FCVTI64"][1] = 172 /\ Opcodes["FCVTI64"][2] = "IntToFP"
      /\ Opcodes["FCVTS64"][1] = 173 /\ Opcodes["FCVTS64"][2] = "FPToInt"
      /\ Opcodes["XCHGmem"][1] = 177 /\ Opcodes["XCHGmem"][2] = "AtomicExchange"
      /\ Opcodes["CMPXCHG"][1] = 178 /\ Opcodes["CMPXCHG"][2] = "AtomicCAS"
      /\ Opcodes["ATADD"][1] = 179 /\ Opcodes["ATADD"][2] = "AtomicMem"
      /\ Opcodes["LL"][1] = 184 /\ Opcodes["LL"][2] = "AtomicLoad"
      /\ Opcodes["SC"][1] = 185 /\ Opcodes["SC"][2] = "AtomicMem"
      /\ Opcodes["XCHG128"][1] = 191 /\ Opcodes["XCHG128"][2] = "AtomicExchange128"
      /\ Opcodes["PDEPrrr"][1] = 192 /\ Opcodes["PDEPrrr"][2] = "TernaryRR"
      /\ Opcodes["PEXTrrr"][1] = 193 /\ Opcodes["PEXTrrr"][2] = "TernaryRR"
      /\ Opcodes["RORXri"][1] = 202 /\ Opcodes["RORXri"][2] = "TernaryRI"
      /\ Opcodes["XBEGIN"][1] = 208 /\ Opcodes["XBEGIN"][2] = "TxnBeginRel"
      /\ Opcodes["XBEGINA"][1] = 209 /\ Opcodes["XBEGINA"][2] = "TxnBeginAbs"
      /\ Opcodes["XEND"][1] = 210 /\ Opcodes["XEND"][2] = "TxnNoOperand"
      /\ Opcodes["XABORTi"][1] = 211 /\ Opcodes["XABORTi"][2] = "TxnAbortImm"
  <2>1. /\ Opcodes["WRCR"][1] = 129 /\ Opcodes["WRCR"][2] = "WriteControl"
        /\ Opcodes["SYSCALL"][1] = 130 /\ Opcodes["SYSCALL"][2] = "NoOperand"
        /\ Opcodes["RDTIME"][1] = 136 /\ Opcodes["RDTIME"][2] = "ReadReg"
        /\ Opcodes["SLEEP"][1] = 138 /\ Opcodes["SLEEP"][2] = "SleepImm"
        /\ Opcodes["PUSH"][1] = 141 /\ Opcodes["PUSH"][2] = "PushReg"
        /\ Opcodes["POP"][1] = 142 /\ Opcodes["POP"][2] = "PopReg"
        /\ Opcodes["ENTER"][1] = 145 /\ Opcodes["ENTER"][2] = "FrameImm"
        /\ Opcodes["PUSHQ"][1] = 149 /\ Opcodes["PUSHQ"][2] = "PushReg"
        /\ Opcodes["POPQ"][1] = 150 /\ Opcodes["POPQ"][2] = "PopReg"
        /\ Opcodes["VADD128"][1] = 151 /\ Opcodes["VADD128"][2] = "VBinary"
        /\ Opcodes["VSHL128"][1] = 158 /\ Opcodes["VSHL128"][2] = "VShiftImm"
        /\ Opcodes["VLD128"][1] = 161 /\ Opcodes["VLD128"][2] = "VectorLoad"
        /\ Opcodes["VST128"][1] = 162 /\ Opcodes["VST128"][2] = "VectorStore"
        /\ Opcodes["VABS128"][1] = 163 /\ Opcodes["VABS128"][2] = "VUnary"
        /\ Opcodes["FADD64"][1] = 166 /\ Opcodes["FADD64"][2] = "FPBinary"
        /\ Opcodes["FSQRT64"][1] = 170 /\ Opcodes["FSQRT64"][2] = "FPUnary"
    BY SMTT(60) DEF Opcodes
  <2>2. /\ Opcodes["FCMP64"][1] = 171 /\ Opcodes["FCMP64"][2] = "FPCompare"
        /\ Opcodes["FCVTI64"][1] = 172 /\ Opcodes["FCVTI64"][2] = "IntToFP"
        /\ Opcodes["FCVTS64"][1] = 173 /\ Opcodes["FCVTS64"][2] = "FPToInt"
        /\ Opcodes["XCHGmem"][1] = 177 /\ Opcodes["XCHGmem"][2] = "AtomicExchange"
        /\ Opcodes["CMPXCHG"][1] = 178 /\ Opcodes["CMPXCHG"][2] = "AtomicCAS"
        /\ Opcodes["ATADD"][1] = 179 /\ Opcodes["ATADD"][2] = "AtomicMem"
        /\ Opcodes["LL"][1] = 184 /\ Opcodes["LL"][2] = "AtomicLoad"
        /\ Opcodes["SC"][1] = 185 /\ Opcodes["SC"][2] = "AtomicMem"
        /\ Opcodes["XCHG128"][1] = 191 /\ Opcodes["XCHG128"][2] = "AtomicExchange128"
        /\ Opcodes["PDEPrrr"][1] = 192 /\ Opcodes["PDEPrrr"][2] = "TernaryRR"
        /\ Opcodes["PEXTrrr"][1] = 193 /\ Opcodes["PEXTrrr"][2] = "TernaryRR"
        /\ Opcodes["RORXri"][1] = 202 /\ Opcodes["RORXri"][2] = "TernaryRI"
        /\ Opcodes["XBEGIN"][1] = 208 /\ Opcodes["XBEGIN"][2] = "TxnBeginRel"
        /\ Opcodes["XBEGINA"][1] = 209 /\ Opcodes["XBEGINA"][2] = "TxnBeginAbs"
        /\ Opcodes["XEND"][1] = 210 /\ Opcodes["XEND"][2] = "TxnNoOperand"
        /\ Opcodes["XABORTi"][1] = 211 /\ Opcodes["XABORTi"][2] = "TxnAbortImm"
    BY SMTT(60) DEF Opcodes
  <2> QED
    BY <2>1, <2>2
<1>2. /\ Class["AtomicCAS"][1] = 0
      /\ Class["AtomicExchange"][1] = 0
      /\ Class["AtomicExchange128"][1] = 0
      /\ Class["AtomicLoad"][1] = 0
      /\ Class["AtomicMem"][1] = 0
      /\ Class["FPBinary"][1] = 0
      /\ Class["FPCompare"][1] = 0
      /\ Class["FPToInt"][1] = 0
      /\ Class["FPUnary"][1] = 0
      /\ Class["FrameImm"][1] = 0
      /\ Class["IntToFP"][1] = 0
      /\ Class["NoOperand"][1] = 0
      /\ Class["PopReg"][1] = 0
      /\ Class["PushReg"][1] = 0
      /\ Class["ReadReg"][1] = 0
      /\ Class["SleepImm"][1] = 0
      /\ Class["TernaryRI"][1] = 0
      /\ Class["TernaryRR"][1] = 0
      /\ Class["TxnAbortImm"][1] = 0
      /\ Class["TxnBeginAbs"][1] = 0
      /\ Class["TxnBeginRel"][1] = 0
      /\ Class["TxnNoOperand"][1] = 0
      /\ Class["VBinary"][1] = 0
      /\ Class["VShiftImm"][1] = 0
      /\ Class["VUnary"][1] = 0
      /\ Class["VectorLoad"][1] = 0
      /\ Class["VectorStore"][1] = 0
      /\ Class["WriteControl"][1] = 0
  BY SMTT(60) DEF Class
<1>3. {"WRCR", "SYSCALL", "RDTIME", "SLEEP", "PUSH", "POP", "ENTER", "PUSHQ", "POPQ", "VADD128", "VSHL128", "VLD128", "VST128", "VABS128", "FADD64", "FSQRT64", "FCMP64", "FCVTI64", "FCVTS64", "XCHGmem", "CMPXCHG", "ATADD", "LL", "SC", "XCHG128", "PDEPrrr", "PEXTrrr", "RORXri", "XBEGIN", "XBEGINA", "XEND", "XABORTi"} \subseteq DOMAIN Opcodes
  BY ListedAll DEF ListedNames
<1> QED
  BY <1>1, <1>2, <1>3 DEF Places2, OpcodePlace

\* The third of these places.
LEMMA PlacesFound3 == Places3(OpcodePlace)
<1>1. /\ Opcodes["XABORTr"][1] = 212 /\ Opcodes["XABORTr"][2] = "TxnAbortReg"
      /\ Opcodes["XTEST"][1] = 213 /\ Opcodes["XTEST"][2] = "TxnReadReg"
      /\ Opcodes["ADCrr"][1] = 216 /\ Opcodes["ADCrr"][2] = "CarryALURR"
      /\ Opcodes["FCVTU64"][1] = 219 /\ Opcodes["FCVTU64"][2] = "IntToFP"
      /\ Opcodes["VFMADD128"][1] = 0 /\ Opcodes["VFMADD128"][2] = "AVXBinary"
      /\ Opcodes["VPERMUTE128"][1] = 4 /\ Opcodes["VPERMUTE128"][2] = "AVXRegImm"
      /\ Opcodes["VSHUFFLE128"][1] = 5 /\ Opcodes["VSHUFFLE128"][2] = "AVXBinaryImm"
      /\ Opcodes["VTEST128"][1] = 7 /\ Opcodes["VTEST128"][2] = "AVXUnary"
      /\ Opcodes["VGATHER128"][1] = 15 /\ Opcodes["VGATHER128"][2] = "AVXGather"
      /\ Opcodes["VSCATTER128"][1] = 16 /\ Opcodes["VSCATTER128"][2] = "AVXScatter"
      /\ Opcodes["VZEROALL"][1] = 31 /\ Opcodes["VZEROALL"][2] = "AVXNoOperand"
      /\ Opcodes["AESENC128"][1] = 0 /\ Opcodes["AESENC128"][2] = "CryptoBinary"
      /\ Opcodes["AESIMC128"][1] = 2 /\ Opcodes["AESIMC128"][2] = "CryptoUnary"
      /\ Opcodes["MAC32"][1] = 0 /\ Opcodes["MAC32"][2] = "DSPTernary"
      /\ Opcodes["FIXED_MUL"][1] = 6 /\ Opcodes["FIXED_MUL"][2] = "DSPQuaternary"
      /\ Opcodes["CMPLX_MUL"][1] = 10 /\ Opcodes["CMPLX_MUL"][2] = "DSPPairOut"
      /\ Opcodes["BITREV"][1] = 11 /\ Opcodes["BITREV"][2] = "DSPRegImm"
      /\ Opcodes["UNPACK_EXP"][1] = 15 /\ Opcodes["UNPACK_EXP"][2] = "DSPUnary"
      /\ Opcodes["DOTP"][1] = 18 /\ Opcodes["DOTP"][2] = "DSPDot"
      /\ Opcodes["SUMDOTP"][1] = 19 /\ Opcodes["SUMDOTP"][2] = "DSPSumDot"
      /\ Opcodes["QUERY"][1] = 0 /\ Opcodes["QUERY"][2] = "SysXQuery"
      /\ Opcodes["OUT"][1] = 2 /\ Opcodes["OUT"][2] = "SysXWriteImm"
      /\ Opcodes["XSAVE"][1] = 3 /\ Opcodes["XSAVE"][2] = "SysXMaskedMemory"
      /\ Opcodes["ISYNC"][1] = 8 /\ Opcodes["ISYNC"][2] = "SysXNoOperand"
      /\ Opcodes["INVTLB"][1] = 9 /\ Opcodes["INVTLB"][2] = "SysXPair"
      /\ Opcodes["INVTLBASID"][1] = 10 /\ Opcodes["INVTLBASID"][2] = "SysXReg"
      /\ Opcodes["SENDIPI"][1] = 12 /\ Opcodes["SENDIPI"][2] = "SysXTernary"
      /\ Opcodes["VMENTER"][1] = 14 /\ Opcodes["VMENTER"][2] = "SysXMemory"
      /\ Opcodes["WRSS"][1] = 19 /\ Opcodes["WRSS"][2] = "SysXStoreMemory"
      /\ Opcodes["RDPMC"][1] = 20 /\ Opcodes["RDPMC"][2] = "SysXReadImm"
      /\ Opcodes["RNGGET"][1] = 21 /\ Opcodes["RNGGET"][2] = "SysXReadReg"
      /\ Opcodes["SETMODE"][1] = 26 /\ Opcodes["SETMODE"][2] = "SysXImm"
  <2>1. /\ Opcodes["XABORTr"][1] = 212 /\ Opcodes["XABORTr"][2] = "TxnAbortReg"
        /\ Opcodes["XTEST"][1] = 213 /\ Opcodes["XTEST"][2] = "TxnReadReg"
        /\ Opcodes["ADCrr"][1] = 216 /\ Opcodes["ADCrr"][2] = "CarryALURR"
        /\ Opcodes["FCVTU64"][1] = 219 /\ Opcodes["FCVTU64"][2] = "IntToFP"
        /\ Opcodes["VFMADD128"][1] = 0 /\ Opcodes["VFMADD128"][2] = "AVXBinary"
        /\ Opcodes["VPERMUTE128"][1] = 4 /\ Opcodes["VPERMUTE128"][2] = "AVXRegImm"
        /\ Opcodes["VSHUFFLE128"][1] = 5 /\ Opcodes["VSHUFFLE128"][2] = "AVXBinaryImm"
        /\ Opcodes["VTEST128"][1] = 7 /\ Opcodes["VTEST128"][2] = "AVXUnary"
        /\ Opcodes["VGATHER128"][1] = 15 /\ Opcodes["VGATHER128"][2] = "AVXGather"
        /\ Opcodes["VSCATTER128"][1] = 16 /\ Opcodes["VSCATTER128"][2] = "AVXScatter"
        /\ Opcodes["VZEROALL"][1] = 31 /\ Opcodes["VZEROALL"][2] = "AVXNoOperand"
        /\ Opcodes["AESENC128"][1] = 0 /\ Opcodes["AESENC128"][2] = "CryptoBinary"
        /\ Opcodes["AESIMC128"][1] = 2 /\ Opcodes["AESIMC128"][2] = "CryptoUnary"
        /\ Opcodes["MAC32"][1] = 0 /\ Opcodes["MAC32"][2] = "DSPTernary"
        /\ Opcodes["FIXED_MUL"][1] = 6 /\ Opcodes["FIXED_MUL"][2] = "DSPQuaternary"
        /\ Opcodes["CMPLX_MUL"][1] = 10 /\ Opcodes["CMPLX_MUL"][2] = "DSPPairOut"
    BY SMTT(60) DEF Opcodes
  <2>2. /\ Opcodes["BITREV"][1] = 11 /\ Opcodes["BITREV"][2] = "DSPRegImm"
        /\ Opcodes["UNPACK_EXP"][1] = 15 /\ Opcodes["UNPACK_EXP"][2] = "DSPUnary"
        /\ Opcodes["DOTP"][1] = 18 /\ Opcodes["DOTP"][2] = "DSPDot"
        /\ Opcodes["SUMDOTP"][1] = 19 /\ Opcodes["SUMDOTP"][2] = "DSPSumDot"
        /\ Opcodes["QUERY"][1] = 0 /\ Opcodes["QUERY"][2] = "SysXQuery"
        /\ Opcodes["OUT"][1] = 2 /\ Opcodes["OUT"][2] = "SysXWriteImm"
        /\ Opcodes["XSAVE"][1] = 3 /\ Opcodes["XSAVE"][2] = "SysXMaskedMemory"
        /\ Opcodes["ISYNC"][1] = 8 /\ Opcodes["ISYNC"][2] = "SysXNoOperand"
        /\ Opcodes["INVTLB"][1] = 9 /\ Opcodes["INVTLB"][2] = "SysXPair"
        /\ Opcodes["INVTLBASID"][1] = 10 /\ Opcodes["INVTLBASID"][2] = "SysXReg"
        /\ Opcodes["SENDIPI"][1] = 12 /\ Opcodes["SENDIPI"][2] = "SysXTernary"
        /\ Opcodes["VMENTER"][1] = 14 /\ Opcodes["VMENTER"][2] = "SysXMemory"
        /\ Opcodes["WRSS"][1] = 19 /\ Opcodes["WRSS"][2] = "SysXStoreMemory"
        /\ Opcodes["RDPMC"][1] = 20 /\ Opcodes["RDPMC"][2] = "SysXReadImm"
        /\ Opcodes["RNGGET"][1] = 21 /\ Opcodes["RNGGET"][2] = "SysXReadReg"
        /\ Opcodes["SETMODE"][1] = 26 /\ Opcodes["SETMODE"][2] = "SysXImm"
    BY SMTT(60) DEF Opcodes
  <2> QED
    BY <2>1, <2>2
<1>2. /\ Class["AVXBinary"][1] = 1
      /\ Class["AVXBinaryImm"][1] = 1
      /\ Class["AVXGather"][1] = 1
      /\ Class["AVXNoOperand"][1] = 1
      /\ Class["AVXRegImm"][1] = 1
      /\ Class["AVXScatter"][1] = 1
      /\ Class["AVXUnary"][1] = 1
      /\ Class["CarryALURR"][1] = 0
      /\ Class["CryptoBinary"][1] = 2
      /\ Class["CryptoUnary"][1] = 2
      /\ Class["DSPDot"][1] = 3
      /\ Class["DSPPairOut"][1] = 3
      /\ Class["DSPQuaternary"][1] = 3
      /\ Class["DSPRegImm"][1] = 3
      /\ Class["DSPSumDot"][1] = 3
      /\ Class["DSPTernary"][1] = 3
      /\ Class["DSPUnary"][1] = 3
      /\ Class["IntToFP"][1] = 0
      /\ Class["SysXImm"][1] = 4
      /\ Class["SysXMaskedMemory"][1] = 4
      /\ Class["SysXMemory"][1] = 4
      /\ Class["SysXNoOperand"][1] = 4
      /\ Class["SysXPair"][1] = 4
      /\ Class["SysXQuery"][1] = 4
      /\ Class["SysXReadImm"][1] = 4
      /\ Class["SysXReadReg"][1] = 4
      /\ Class["SysXReg"][1] = 4
      /\ Class["SysXStoreMemory"][1] = 4
      /\ Class["SysXTernary"][1] = 4
      /\ Class["SysXWriteImm"][1] = 4
      /\ Class["TxnAbortReg"][1] = 0
      /\ Class["TxnReadReg"][1] = 0
  BY SMTT(60) DEF Class
<1>3. {"XABORTr", "XTEST", "ADCrr", "FCVTU64", "VFMADD128", "VPERMUTE128", "VSHUFFLE128", "VTEST128", "VGATHER128", "VSCATTER128", "VZEROALL", "AESENC128", "AESIMC128", "MAC32", "FIXED_MUL", "CMPLX_MUL", "BITREV", "UNPACK_EXP", "DOTP", "SUMDOTP", "QUERY", "OUT", "XSAVE", "ISYNC", "INVTLB", "INVTLBASID", "SENDIPI", "VMENTER", "WRSS", "RDPMC", "RNGGET", "SETMODE"} \subseteq DOMAIN Opcodes
  BY ListedAll DEF ListedNames
<1> QED
  BY <1>1, <1>2, <1>3 DEF Places3, OpcodePlace

\* The last of these places.
LEMMA PlacesFound4 == Places4(OpcodePlace)
<1>1. /\ Opcodes["WINNEW"][1] = 27 /\ Opcodes["WINNEW"][2] = "WindowTransition"
      /\ Opcodes["FMADD64"][1] = 0 /\ Opcodes["FMADD64"][2] = "FPXFused"
      /\ Opcodes["FMIN64"][1] = 4 /\ Opcodes["FMIN64"][2] = "FPXBinary"
      /\ Opcodes["FRECIP64"][1] = 6 /\ Opcodes["FRECIP64"][2] = "FPXUnary"
      /\ Opcodes["FLD64"][1] = 16 /\ Opcodes["FLD64"][2] = "FPXLoad"
      /\ Opcodes["FST64"][1] = 17 /\ Opcodes["FST64"][2] = "FPXStore"
  <2>1. /\ Opcodes["WINNEW"][1] = 27 /\ Opcodes["WINNEW"][2] = "WindowTransition"
        /\ Opcodes["FMADD64"][1] = 0 /\ Opcodes["FMADD64"][2] = "FPXFused"
        /\ Opcodes["FMIN64"][1] = 4 /\ Opcodes["FMIN64"][2] = "FPXBinary"
    BY SMTT(60) DEF Opcodes
  <2>2. /\ Opcodes["FRECIP64"][1] = 6 /\ Opcodes["FRECIP64"][2] = "FPXUnary"
        /\ Opcodes["FLD64"][1] = 16 /\ Opcodes["FLD64"][2] = "FPXLoad"
        /\ Opcodes["FST64"][1] = 17 /\ Opcodes["FST64"][2] = "FPXStore"
    BY SMTT(60) DEF Opcodes
  <2> QED
    BY <2>1, <2>2
<1>2. /\ Class["FPXBinary"][1] = 5
      /\ Class["FPXFused"][1] = 5
      /\ Class["FPXLoad"][1] = 5
      /\ Class["FPXStore"][1] = 5
      /\ Class["FPXUnary"][1] = 5
      /\ Class["WindowTransition"][1] = 4
  BY SMTT(60) DEF Class
<1>3. {"WINNEW", "FMADD64", "FMIN64", "FRECIP64", "FLD64", "FST64"} \subseteq DOMAIN Opcodes
  BY ListedAll DEF ListedNames
<1> QED
  BY <1>1, <1>2, <1>3 DEF Places4, OpcodePlace

\* Where the marker, the prefix and the byte after them are.
Leads(c, start, m, ext, control, at) ==
  LET mark == IF m = 0 THEN <<>> ELSE <<253, m>> IN
  /\ Has(c, start, mark) /\ Has(c, start + Len(mark), Prefix(ext, control))
  /\ at = start + Len(mark) + Len(Prefix(ext, control))
  /\ at < Len(c) /\ At(c, at) \notin {253, 254}

\* A marker and a prefix, byte by byte: the prefix is at from and its control byte is n.
PrefixAt(c, start, m, ext, control, at, from, n) ==
  /\ IF m = 0 THEN from = start /\ At(c, start) # 253
              ELSE from = start + 2 /\ At(c, start) = 253 /\ At(c, start + 1) = m
  /\ IF ext \/ control # 0
     THEN at = from + 2 /\ At(c, from) = 254 /\ At(c, from + 1) = n
     ELSE at = from /\ At(c, from) # 254 /\ n = 0
  /\ n = control + (IF ext THEN 128 ELSE 0)
  /\ at \in Nat /\ at < Len(c) /\ Len(c) \in Nat

\* The bytes of a marker and a prefix, one by one.
LEMMA LeadParts ==
  ASSUME NEW c \in Seq(Byte), NEW start \in Nat, NEW m \in 0 .. 10, NEW ext \in BOOLEAN,
         NEW control \in 0 .. 127, NEW at, Leads(c, start, m, ext, control, at)
  PROVE \E from \in Nat, n \in 0 .. 255 : PrefixAt(c, start, m, ext, control, at, from, n)
<1> DEFINE mark == IF m = 0 THEN <<>> ELSE <<253, m>>
           from == start + Len(mark)
           n == control + (IF ext THEN 128 ELSE 0)
           pre == Prefix(ext, control)
<1>1. /\ Has(c, start, mark) /\ Has(c, from, pre) /\ at = from + Len(pre)
      /\ at < Len(c) /\ At(c, at) \notin {253, 254}
  BY DEF Leads
<1>2. n \in 0 .. 255 /\ Len(c) \in Nat /\ Len(<<>>) = 0 /\ Len(<<254, n>>) = 2
  BY LenProperties
<1>3. pre = IF ext \/ control # 0 THEN <<254, n>> ELSE <<>>
  BY DEF Prefix, Bit
<1> HIDE DEF n, pre
<1>4. from \in Nat
  <2>1. Len(<<>>) = 0 /\ Len(<<253, m>>) = 2
    OBVIOUS
  <2>2. Len(mark) \in Nat
    BY <2>1
  <2> HIDE DEF mark
  <2> QED
    BY <2>2
<1>5. IF ext \/ control # 0
      THEN at = from + 2 /\ At(c, from) = 254 /\ At(c, from + 1) = n
      ELSE at = from /\ At(c, from) # 254 /\ At(c, from) # 253
  <2> HIDE DEF from
  <2>1. CASE ext \/ control # 0
    <3>1. Has(c, from, <<254, n>>) /\ at = from + 2
      BY <1>1, <1>2, <1>3, <2>1
    <3> QED
      BY <1>4, <2>1, <3>1, HasTwo
  <2>2. CASE ~(ext \/ control # 0)
    BY <1>1, <1>2, <1>3, <1>4, <2>2
  <2> QED
    BY <2>1, <2>2
<1>6. IF m = 0 THEN from = start /\ At(c, start) # 253
               ELSE from = start + 2 /\ At(c, start) = 253 /\ At(c, start + 1) = m
  <2>1. CASE m = 0
    <3>1. from = start
      BY <2>1
    <3> HIDE DEF from
    <3> QED
      BY <1>5, <2>1, <3>1
  <2>2. CASE m # 0
    <3>1. Has(c, start, <<253, m>>)
      BY <1>1, <2>2
    <3>2. Len(<<253, m>>) = 2
      OBVIOUS
    <3>3. from = start + 2
      BY <2>2, <3>2
    <3> HIDE DEF from
    <3> QED
      BY <2>2, <3>1, <3>3, HasTwo
  <2> QED
    BY <2>1, <2>2
<1> HIDE DEF from, mark
<1>7. at \in Nat
  BY <1>4, <1>5
<1>8. n = control + (IF ext THEN 128 ELSE 0)
  BY DEF n
<1>9. ~(ext \/ control # 0) => n = 0
  BY <1>8
<1>10. IF ext \/ control # 0
       THEN at = from + 2 /\ At(c, from) = 254 /\ At(c, from + 1) = n
       ELSE at = from /\ At(c, from) # 254 /\ n = 0
  BY <1>5, <1>9
<1>11. at < Len(c) /\ Len(c) \in Nat
  BY <1>1, <1>2
<1>12. PrefixAt(c, start, m, ext, control, at, from, n)
  BY <1>6, <1>7, <1>8, <1>10, <1>11 DEF PrefixAt
<1> QED
  BY <1>2, <1>4, <1>12

\* The control byte says what the prefix was asked for.
ControlSays(n, ext, control) ==
  /\ n >= 128 <=> ext
  /\ (n \div 64) % 2 = (control \div 64) % 2
  /\ (n \div 8) % 8 = (control \div 8) % 8
  /\ n % 8 = control % 8

\* The bits of the control byte.
LEMMA ControlBits ==
  ASSUME NEW ext \in BOOLEAN, NEW control \in 0 .. 127, NEW n,
         n = control + (IF ext THEN 128 ELSE 0)
  PROVE ControlSays(n, ext, control)
<1>1. CASE ext
  <2>1. n = control + 128
    BY <1>1
  <2>2. n >= 128 /\ (n \div 64) % 2 = (control \div 64) % 2
        /\ (n \div 8) % 8 = (control \div 8) % 8 /\ n % 8 = control % 8
    BY <2>1, SMT
  <2> QED
    BY <1>1, <2>2 DEF ControlSays
<1>2. CASE ~ext
  <2>1. n = control /\ ~(n >= 128)
    BY <1>2
  <2> QED
    BY <1>2, <2>1 DEF ControlSays
<1> QED
  BY <1>1, <1>2

\* getInstruction after the prefixes and, later, the opcode.
Prefixed(p, bytes, m, ext, control, at) ==
  /\ DOMAIN p = ReadingFields /\ p.ok = TRUE /\ p.bytes = bytes /\ p.at = at
  /\ p.marker = m
  /\ (p.extended <=> ext)
  /\ (p.vector <=> (control \div 64) % 2 = 1)
  /\ p.width = (control \div 8) % 8

\* What is read of the marker and the prefix the emitter wrote (encodeInstruction,
\* getInstruction).
LEMMA PrefixesRead ==
  ASSUME NEW bytes \in Seq(Byte), NEW m \in 0 .. 10, NEW ext \in BOOLEAN,
         NEW control \in 0 .. 127, control % 8 = 0, NEW at,
         Leads(bytes, 0, m, ext, control, at)
  PROVE Prefixed(ReadPrefixes(bytes), bytes, m, ext, control, at)
<1> DEFINE marked == At(bytes, 0) = 253
           start == IF marked THEN 2 ELSE 0
           prefixed == At(bytes, start) = 254
           ctl == IF prefixed THEN At(bytes, start + 1) ELSE 0
           bad == \/ Len(bytes) = 0
                  \/ marked /\ (~Holds(bytes, 0, 3) \/ At(bytes, 1) \notin 1 .. Marker.leaf)
                  \/ prefixed /\ (~Holds(bytes, start, 3) \/ ctl % 8 # 0)
           mark == IF marked THEN At(bytes, 1) ELSE Marker.none
           end == IF prefixed THEN start + 2 ELSE start
           ext2 == ctl >= 128  vec2 == (ctl \div 64) % 2 = 1  width2 == (ctl \div 8) % 8
           opened == [Reading(bytes) EXCEPT
                        !.marker = mark, !.extended = ext2, !.vector = vec2,
                        !.width = width2, !.at = end]
           p == ReadPrefixes(bytes)
<1>0. 0 + 2 = 2 /\ 0 + 1 = 1 /\ 0 \in Nat
  OBVIOUS
<1>1. PICK from \in Nat, n \in 0 .. 255 : PrefixAt(bytes, 0, m, ext, control, at, from, n)
  BY <1>0, LeadParts
<1>2. /\ marked <=> m # 0
      /\ start = from
  BY <1>1 DEF PrefixAt
<1>3. /\ prefixed <=> (ext \/ control # 0)
      /\ ctl = n /\ end = at
  <2> HIDE DEF start
  <2> QED
    BY <1>1, <1>2 DEF PrefixAt
<1>4. Marker.none = 0 /\ Marker.leaf = 10
  BY DEF Marker
<1>5. mark = m
  BY <1>1, <1>2, <1>4 DEF PrefixAt
<1>6. (ext2 <=> ext) /\ (vec2 <=> (control \div 64) % 2 = 1) /\ width2 = (control \div 8) % 8
      /\ ctl % 8 = 0
  <2>1. ControlSays(n, ext, control)
    <3>1. n = control + (IF ext THEN 128 ELSE 0)
      BY <1>1 DEF PrefixAt
    <3> QED
      BY <3>1, ControlBits
  <2> HIDE DEF ctl
  <2> QED
    BY <1>3, <2>1 DEF ControlSays
<1>7. ~bad
  <2>1. Len(bytes) # 0
    BY <1>1 DEF PrefixAt
  <2>2. marked => Holds(bytes, 0, 3) /\ At(bytes, 1) \in 1 .. Marker.leaf
    BY <1>1, <1>2, <1>4 DEF PrefixAt, Holds
  <2>3. prefixed => Holds(bytes, start, 3)
    <3> HIDE DEF start, prefixed
    <3> QED
      BY <1>1, <1>2, <1>3 DEF PrefixAt, Holds
  <2> HIDE DEF marked, start, prefixed, ctl
  <2> QED
    BY <1>6, <2>1, <2>2, <2>3
<1>8. p = IF bad THEN Fail ELSE opened
  BY DEF ReadPrefixes
<1>9. /\ DOMAIN opened = ReadingFields /\ opened.ok = TRUE /\ opened.bytes = bytes
      /\ opened.at = end /\ opened.marker = mark /\ opened.extended = ext2
      /\ opened.vector = vec2 /\ opened.width = width2
  <2>1. /\ DOMAIN Reading(bytes) = ReadingFields /\ Reading(bytes).ok = TRUE
        /\ Reading(bytes).bytes = bytes
    BY ReadingNames DEF Reading
  <2> HIDE DEF end, mark, ext2, vec2, width2
  <2> QED
    BY <2>1, ReadingNames
<1> HIDE DEF bad, opened, p, end, mark, ext2, vec2, width2
<1>10. p = opened
  BY <1>7, <1>8
<1>11. Prefixed(p, bytes, m, ext, control, at)
  BY <1>3, <1>5, <1>6, <1>9, <1>10 DEF Prefixed
<1> QED
  BY <1>11 DEF p

\* decode_at after the opcode byte.
Started(d, m, ext, control, p, op) ==
  /\ DOMAIN d = Fields /\ d.ok = TRUE /\ d.marker = m /\ d.p = p /\ d.opcode = op
  /\ (d.has_orex <=> ext)
  /\ (d.has_vector <=> (control \div 64) % 2 = 1)
  /\ d.width = (control \div 8) % 8
  /\ d.group = 0 /\ d.memory = FALSE /\ d.scalar_fp = FALSE

\* What decode_at reads of the marker and the prefix the emitter wrote.
LEMMA MachinePrefixes ==
  ASSUME NEW c \in Seq(Byte), NEW start \in Nat, NEW m \in 0 .. 10, NEW ext \in BOOLEAN,
         NEW control \in 0 .. 127, NEW at, Leads(c, start, m, ext, control, at),
         NEW d, d = ReadMarkerAndControl(c, start)
  PROVE Started(d, m, ext, control, at + 1, At(c, at))
<1> DEFINE marked == At(c, start) = 253
           from2 == IF marked THEN start + 2 ELSE start
           prefixed == At(c, from2) = 254
           ctl == IF prefixed THEN At(c, from2 + 1) ELSE 0
           p == IF prefixed THEN from2 + 2 ELSE from2
           bad == \/ marked /\ (~Holds(c, start, 2) \/ At(c, start + 1) \notin 1 .. 10)
                  \/ prefixed /\ ~Holds(c, from2, 2)
                  \/ p >= Len(c)
           mark == IF marked THEN At(c, start + 1) ELSE 0
           ext2 == ctl >= 128  vec2 == (ctl \div 64) % 2 = 1  width2 == (ctl \div 8) % 8
           op == At(c, p)  next == p + 1
           opened == [Decoded EXCEPT !.marker = mark,
                        !.p = next, !.opcode = op, !.has_orex = ext2,
                        !.has_vector = vec2, !.width = width2]
<1>1. PICK from \in Nat, n \in 0 .. 255 : PrefixAt(c, start, m, ext, control, at, from, n)
  BY LeadParts
<1>2. (marked <=> m # 0) /\ from2 = from /\ mark = m
  BY <1>1 DEF PrefixAt
<1>3. /\ prefixed <=> (ext \/ control # 0)
      /\ ctl = n /\ p = at
  <2> HIDE DEF from2
  <2> QED
    BY <1>1, <1>2 DEF PrefixAt
<1>6. (ext2 <=> ext) /\ (vec2 <=> (control \div 64) % 2 = 1) /\ width2 = (control \div 8) % 8
  <2>1. ControlSays(n, ext, control)
    <3>1. n = control + (IF ext THEN 128 ELSE 0)
      BY <1>1 DEF PrefixAt
    <3> QED
      BY <3>1, ControlBits
  <2> HIDE DEF ctl
  <2> QED
    BY <1>3, <2>1 DEF ControlSays
<1>7. ~bad
  <2>1. ~(p >= Len(c))
    <3> HIDE DEF p
    <3> QED
      BY <1>1, <1>3 DEF PrefixAt
  <2>2. marked => Holds(c, start, 2) /\ At(c, start + 1) \in 1 .. 10
    BY <1>1, <1>2 DEF PrefixAt, Holds
  <2>3. prefixed => Holds(c, from2, 2)
    <3> HIDE DEF from2, prefixed
    <3> QED
      BY <1>1, <1>2, <1>3 DEF PrefixAt, Holds
  <2> HIDE DEF marked, from2, prefixed, ctl, p
  <2> QED
    BY <2>1, <2>2, <2>3
<1>8. d = IF bad THEN Throws ELSE opened
  BY DEF ReadMarkerAndControl
<1>9. /\ DOMAIN opened = Fields /\ opened.ok = TRUE
      /\ opened.p = next /\ opened.marker = mark /\ opened.opcode = op
      /\ opened.has_orex = ext2 /\ opened.has_vector = vec2 /\ opened.width = width2
      /\ opened.group = 0 /\ opened.memory = FALSE /\ opened.scalar_fp = FALSE
  <2>1. Decoded.scalar_fp = FALSE
    BY DEF Decoded
  <2> HIDE DEF next, op, mark, ext2, vec2, width2
  <2>2. DOMAIN opened = Fields /\ opened.ok = TRUE /\ opened.group = 0 /\ opened.memory = FALSE
    BY FieldNames DEF Fields
  <2>3. opened.p = next /\ opened.marker = mark /\ opened.opcode = op
    BY FieldNames DEF Fields
  <2>4. opened.has_orex = ext2 /\ opened.has_vector = vec2 /\ opened.width = width2
    BY FieldNames DEF Fields
  <2>5. opened.scalar_fp = FALSE
    BY <2>1, FieldNames DEF Fields
  <2> QED
    BY <2>2, <2>3, <2>4, <2>5
<1>10. op = At(c, at) /\ next = at + 1
  <2> HIDE DEF p
  <2> QED
    BY <1>3
<1> HIDE DEF bad, opened, next, op, mark, ext2, vec2, width2
<1> QED
  BY <1>2, <1>6, <1>7, <1>8, <1>9, <1>10 DEF Started

\* The opcode maps lead from the place of an instruction to that instruction.
LEMMA OpcodeMapRead ==
  ASSUME NEW n \in DOMAIN Opcodes
  PROVE OpcodeKey(n) \in DOMAIN OpcodeMap /\ OpcodeMap[OpcodeKey(n)] = n
<1>1. OpcodeKey(n) \in DOMAIN OpcodeMap
  BY DEF OpcodeMap
<1>2. PICK m : m = OpcodeMap[OpcodeKey(n)]
  OBVIOUS
<1>3. m \in DOMAIN Opcodes /\ OpcodeKey(m) = OpcodeKey(n)
  BY <1>2 DEF OpcodeMap
<1>4. ASSUME NEW k \in DOMAIN Opcodes
      PROVE /\ OpcodeKey(k) = <<Class[Opcodes[k][2]][1], Opcodes[k][1]>>
            /\ OpcodePlace[k] = 256 * Class[Opcodes[k][2]][1] + Opcodes[k][1]
  <2>1. Records[k] = <<Opcodes[k][1], Opcodes[k][2], 0>>
    BY DEF Records
  <2>2. ClassOf(k) = Opcodes[k][2] /\ OpcodeOf(k) = Opcodes[k][1]
    BY <2>1 DEF ClassOf, OpcodeOf
  <2>3. OpcodeKey(k) = <<Class[Opcodes[k][2]][1], Opcodes[k][1]>>
    BY <2>2 DEF OpcodeKey, GroupOf
  <2>4. OpcodePlace[k] = 256 * Class[Opcodes[k][2]][1] + Opcodes[k][1]
    BY DEF OpcodePlace
  <2> QED
    BY <2>3, <2>4
<1>5. Class[Opcodes[m][2]][1] = Class[Opcodes[n][2]][1] /\ Opcodes[m][1] = Opcodes[n][1]
  BY <1>3, <1>4
<1>6. OpcodePlace[m] = OpcodePlace[n]
  BY <1>3, <1>4, <1>5
<1>7. Places(OpcodePlace)
  BY PlacesFound1, PlacesFound2, PlacesFound3, PlacesFound4 DEF Places
<1>8. m \in ListedNames /\ n \in ListedNames
  BY <1>3, ListedAll
<1>9. m = n
  BY <1>6, <1>7, <1>8, PlacesDiffer
<1> QED
  BY <1>1, <1>2, <1>9

\* The form the decoder reads an instruction by.
ReadingForm(n) == IF GroupOf(n) = 0 THEN DecodeForm[ClassOf(n)] ELSE FormTable[GroupOf(n)][ClassOf(n)]

\* getInstruction after the opcode of n, which ends at.
Chosen(r, bytes, m, ext, control, at, n) ==
  /\ Prefixed(r, bytes, m, ext, control, at)
  /\ r.opcode = n /\ r.name = n /\ r.form = ReadingForm(n)

\* The opcode bytes of an instruction.
OpcodeAt(n) == IF GroupOf(n) = 0 THEN <<OpcodeOf(n)>> ELSE <<255, GroupOf(n), OpcodeOf(n)>>

\* The opcode the emitter wrote leads to its instruction and form.
LEMMA OpcodeRead ==
  ASSUME NEW bytes \in Seq(Byte), NEW n \in DOMAIN Opcodes, NEW p, NEW m, NEW ext, NEW control,
         NEW at \in Nat, Prefixed(p, bytes, m, ext, control, at),
         NEW code, code = OpcodeAt(n),
         Has(bytes, at, code), GroupOf(n) = 0 => OpcodeOf(n) # 255,
         ~(n = "MOVrr" /\ p.vector),
         NEW r, r = ReadOpcode(p), NEW next, next = at + Len(code)
  PROVE Chosen(r, bytes, m, ext, control, next, n)
<1> DEFINE group == IF At(p.bytes, p.at) = 255 /\ Holds(p.bytes, p.at, 3)
                    THEN At(p.bytes, p.at + 1) ELSE 0
           key == <<group, At(p.bytes, IF group = 0 THEN p.at ELSE p.at + 2)>>
           found == OpcodeMap[key]
           vectorMove == p.vector /\ found = "MOVrr"
           end == p.at + (IF group = 0 THEN 1 ELSE 3)
           name == IF vectorMove THEN "MOVV128" ELSE found
           form == IF vectorMove THEN "CopyVV"
                   ELSE IF group = 0 THEN DecodeForm[ClassOf(found)]
                   ELSE FormTable[group][ClassOf(found)]
           opened == [p EXCEPT !.at = @ + (IF group = 0 THEN 1 ELSE 3), !.opcode = found,
                        !.name = name, !.form = form]
<1>1. /\ DOMAIN p = ReadingFields /\ p.ok = TRUE /\ p.bytes = bytes /\ p.at = at
  BY DEF Prefixed
<1>2. Len(bytes) \in Nat
  BY LenProperties
<1>3. GroupOf(n) \in 0 .. 5
  <2>1. n \in DOMAIN Records
    BY DEF Records
  <2> QED
    BY <2>1, RecordRange
<1>4. group = GroupOf(n) /\ At(bytes, IF group = 0 THEN at ELSE at + 2) = OpcodeOf(n)
        /\ Len(code) = IF group = 0 THEN 1 ELSE 3
  <2>1. CASE GroupOf(n) = 0
    <3>1. code = <<OpcodeOf(n)>> /\ Len(code) = 1
      BY <2>1 DEF OpcodeAt
    <3>2. At(bytes, at) = OpcodeOf(n)
      BY <3>1, HasOne
    <3>3. At(bytes, at) # 255
      BY <2>1, <3>2
    <3>4. group = 0
      BY <1>1, <3>3
    <3> QED
      BY <2>1, <3>1, <3>2, <3>4
  <2>2. CASE GroupOf(n) # 0
    <3>1. PICK g, o : g = GroupOf(n) /\ o = OpcodeOf(n)
      OBVIOUS
    <3>2. code = << 255, g, o >> /\ Len(code) = 3
      BY <2>2, <3>1 DEF OpcodeAt
    <3>3. code[1] = 255 /\ code[2] = g /\ code[3] = o
      BY <3>2
    <3>4. /\ at + 3 <= Len(bytes)
          /\ At(bytes, at + 1 - 1) = 255 /\ At(bytes, at + 2 - 1) = g /\ At(bytes, at + 3 - 1) = o
      BY <3>2, <3>3 DEF Has
    <3>5. at + 1 - 1 = at /\ at + 2 - 1 = at + 1 /\ at + 3 - 1 = at + 2
      OBVIOUS
    <3>6. Holds(bytes, at, 3)
      BY <3>4, <1>2 DEF Holds
    <3>7. group = g
      BY <1>1, <3>4, <3>5, <3>6
    <3> QED
      BY <1>3, <2>2, <3>1, <3>2, <3>4, <3>5, <3>7
  <2> QED
    BY <2>1, <2>2
<1>5. key = OpcodeKey(n)
  <2> HIDE DEF group
  <2> QED
    BY <1>1, <1>4 DEF OpcodeKey
<1>6. key \in DOMAIN OpcodeMap /\ found = n
  <2> HIDE DEF key
  <2> QED
    BY <1>5, OpcodeMapRead
<1>7. ~vectorMove /\ name = n /\ form = ReadingForm(n)
  <2> HIDE DEF group, key, found
  <2> QED
    BY <1>4, <1>6 DEF ReadingForm
<1>8. r = opened
  <2>1. r = IF ~p.ok THEN p ELSE IF key \notin DOMAIN OpcodeMap THEN Fail ELSE opened
    BY DEF ReadOpcode
  <2> HIDE DEF opened, key
  <2> QED
    BY <1>1, <1>6, <2>1
<1>9. /\ DOMAIN opened = ReadingFields /\ opened.ok = TRUE /\ opened.bytes = bytes
      /\ opened.at = end /\ opened.marker = p.marker /\ opened.extended = p.extended
      /\ opened.vector = p.vector /\ opened.width = p.width
      /\ opened.opcode = found /\ opened.name = name /\ opened.form = form
  <2> HIDE DEF group, found, name, form
  <2>1. /\ DOMAIN opened = ReadingFields /\ opened.ok = TRUE /\ opened.bytes = bytes
        /\ opened.at = end /\ opened.marker = p.marker
    BY <1>1, ReadingNames
  <2>2. opened.extended = p.extended /\ opened.vector = p.vector /\ opened.width = p.width
    BY <1>1, ReadingNames
  <2>3. opened.opcode = found /\ opened.name = name /\ opened.form = form
    BY <1>1, ReadingNames
  <2> QED
    BY <2>1, <2>2, <2>3
<1>10. end = at + Len(code)
  <2> HIDE DEF group
  <2> QED
    BY <1>1, <1>4
<1> HIDE DEF opened, name, form, found, end
<1>11. Prefixed(r, bytes, m, ext, control, at + Len(code))
  BY <1>8, <1>9, <1>10 DEF Prefixed
<1> QED
  BY <1>6, <1>7, <1>8, <1>9, <1>11 DEF Chosen

-----------------------------------------------------------------------------
(* ModR/M with two registers.                                              *)
PairFields(modrm, orex, a, b) ==
  /\ modrm \in Byte /\ modrm \div 64 = 3 /\ orex \in 0 .. 15
  /\ ((modrm \div 8) % 8) + ExtraBits(orex, 1) = a
  /\ (modrm % 8) + ExtraBits(orex, 4) = b
  /\ a <= 7 => ((modrm \div 8) % 8) + ExtraBits(0, 1) = a
  /\ b <= 7 => (modrm % 8) + ExtraBits(0, 4) = b

\* The register byte and the extension byte give back the registers.
LEMMA PairBits ==
  ASSUME NEW a \in 0 .. 31, NEW b \in 0 .. 31,
         NEW modrm, modrm = 192 + 8 * Low3(a) + Low3(b),
         NEW orex, orex = High2(a) + 4 * High2(b)
  PROVE PairFields(modrm, orex, a, b)
<1> DEFINE la == a % 8  lb == b % 8  ha == (a \div 8) % 4  hb == (b \div 8) % 4
<1>1. /\ la \in 0 .. 7 /\ lb \in 0 .. 7 /\ ha \in 0 .. 3 /\ hb \in 0 .. 3
      /\ a = la + 8 * ha /\ b = lb + 8 * hb
      /\ a <= 7 => ha = 0
      /\ b <= 7 => hb = 0
  BY SMT
<1>2. modrm = 192 + 8 * la + lb /\ orex = ha + 4 * hb
  BY DEF Low3, High2
<1> HIDE DEF la, lb, ha, hb
<1>3. /\ modrm \div 64 = 3 /\ (modrm \div 8) % 8 = la
      /\ modrm % 8 = lb /\ modrm \in 0 .. 255
  BY <1>1, <1>2, SMT
<1>4. /\ 8 * ((orex \div 1) % 4) = 8 * ha /\ 8 * ((orex \div 4) % 4) = 8 * hb
      /\ orex \in 0 .. 15 /\ 8 * ((0 \div 1) % 4) = 0 /\ 8 * ((0 \div 4) % 4) = 0
  BY <1>1, <1>2, SMT
<1>5. /\ ExtraBits(orex, 1) = 8 * ha /\ ExtraBits(orex, 4) = 8 * hb
      /\ ExtraBits(0, 1) = 0 /\ ExtraBits(0, 4) = 0
  BY <1>4, Zenon DEF ExtraBits
<1>6. modrm \in Byte
  BY <1>3 DEF Byte
<1> HIDE DEF ExtraBits
<1>7. /\ ((modrm \div 8) % 8) + ExtraBits(orex, 1) = a
      /\ (modrm % 8) + ExtraBits(orex, 4) = b
  BY <1>1, <1>3, <1>5
<1>8. a <= 7 => ((modrm \div 8) % 8) + ExtraBits(0, 1) = a
  BY <1>1, <1>3, <1>5
<1>9. b <= 7 => (modrm % 8) + ExtraBits(0, 4) = b
  BY <1>1, <1>3, <1>5
<1> QED
  BY <1>3, <1>4, <1>6, <1>7, <1>8, <1>9 DEF PairFields

\* The bytes of two registers: ModR/M, and OREX if the prefix announces it.
PairAt(bytes, at, a, b, ext) ==
  /\ At(bytes, at) = 192 + 8 * Low3(a) + Low3(b)
  /\ ext => at + 2 <= Len(bytes) /\ At(bytes, at + 1) = High2(a) + 4 * High2(b)
  /\ ~ext => at + 1 <= Len(bytes) /\ a <= 7 /\ b <= 7

\* The size of those bytes.
PairSize(ext) == IF ext THEN 2 ELSE 1

\* getInstruction after the two registers.
Paired(r, c, bytes, m, ext, control, at, a, b) ==
  /\ Prefixed(r, bytes, m, ext, control, at)
  /\ r.opcode = c.opcode /\ r.name = c.name /\ r.form = c.form
  /\ r.reg = a /\ r.rm = b

\* getInstruction reads the two registers.
LEMMA PairRead ==
  ASSUME NEW bytes \in Seq(Byte), NEW c, NEW m, NEW ext \in BOOLEAN, NEW control, NEW at \in Nat,
         Prefixed(c, bytes, m, ext, control, at), c.form \notin MemoryForms,
         NEW a \in 0 .. 31, NEW b \in 0 .. 31, PairAt(bytes, at, a, b, ext),
         NEW r, r = ReadModRM(c), NEW end, end = at + PairSize(ext)
  PROVE Paired(r, c, bytes, m, ext, control, end, a, b)
<1> DEFINE modrm == At(c.bytes, c.at)
           mod == modrm \div 64
           sib == c.form \in MemoryForms /\ modrm % 8 = 4
           sibByte == At(c.bytes, c.at + 1)
           after == c.at + (IF sib THEN 2 ELSE 1)
           orex == IF c.extended THEN At(c.bytes, after) ELSE 0
           low == IF sib THEN sibByte % 8 ELSE modrm % 8
           next == after + (IF c.extended THEN 1 ELSE 0)
           reg == ((modrm \div 8) % 8) + ExtraBits(orex, 1)
           rm == low + (IF sib THEN ExtraBits(orex, 64) ELSE ExtraBits(orex, 4))
           index == IF sib THEN ((sibByte \div 8) % 8) + ExtraBits(orex, 16) ELSE 4
           scale == IF sib THEN 2 ^ (sibByte \div 64) ELSE 1
           bad == \/ ~Holds(c.bytes, c.at, 1)
                  \/ (c.form \in MemoryForms) = (mod = 3)
                  \/ sib /\ ~Holds(c.bytes, c.at + 1, 1)
                  \/ c.extended /\ (~Holds(c.bytes, after, 1) \/ (~sib /\ orex >= 16))
           opened == [c EXCEPT !.at = next, !.mod = mod, !.sib = sib, !.reg = reg, !.rm = rm,
                        !.index = index, !.scale = scale]
<1>1. /\ DOMAIN c = ReadingFields /\ c.ok = TRUE /\ c.bytes = bytes /\ c.at = at
      /\ (c.extended <=> ext) /\ Len(bytes) \in Nat
  BY LenProperties DEF Prefixed
<1>2. modrm = 192 + 8 * Low3(a) + Low3(b) /\ ~sib /\ after = at + 1
  BY <1>1 DEF PairAt
<1>21. PICK x, y : x = 192 + 8 * Low3(a) + Low3(b) /\ y = High2(a) + 4 * High2(b)
  OBVIOUS
<1>22. PairFields(x, y, a, b)
  BY <1>21, PairBits
<1>0. /\ x \div 64 = 3 /\ y \in 0 .. 15
      /\ ((x \div 8) % 8) + ExtraBits(y, 1) = a
      /\ (x % 8) + ExtraBits(y, 4) = b
      /\ a <= 7 => ((x \div 8) % 8) + ExtraBits(0, 1) = a
      /\ b <= 7 => (x % 8) + ExtraBits(0, 4) = b
  BY <1>22 DEF PairFields
<1>20. modrm = x
  BY <1>2, <1>21
<1>3. mod = 3
  BY <1>0, <1>20
<1>4. next = end
  <2> HIDE DEF after
  <2> QED
    BY <1>1, <1>2 DEF PairSize
<1>5. ext => orex = High2(a) + 4 * High2(b) /\ orex \in 0 .. 15
  <2>1. ASSUME ext PROVE orex = High2(a) + 4 * High2(b)
    <3> HIDE DEF after
    <3> QED
      BY <1>1, <1>2, <2>1 DEF PairAt
  <2> HIDE DEF orex
  <2> QED
    BY <1>0, <1>21, <2>1
<1>6. ~ext => orex = 0 /\ a <= 7 /\ b <= 7
  BY <1>1 DEF PairAt
<1>7. reg = a /\ rm = b
  <2>1. low = modrm % 8 /\ rm = low + ExtraBits(orex, 4)
    BY <1>2
  <2>2. CASE ext
    <3> HIDE DEF orex, modrm, low, rm
    <3>1. /\ ((modrm \div 8) % 8) + ExtraBits(orex, 1) = a
          /\ (modrm % 8) + ExtraBits(orex, 4) = b
      BY <1>0, <1>20, <1>21, <1>5, <2>2
    <3> QED
      BY <2>1, <3>1
  <2>3. CASE ~ext
    <3> HIDE DEF orex, modrm, low, rm
    <3>1. /\ ((modrm \div 8) % 8) + ExtraBits(0, 1) = a
          /\ (modrm % 8) + ExtraBits(0, 4) = b
      BY <1>0, <1>20, <1>6, <2>3
    <3> QED
      BY <1>6, <2>1, <2>3, <3>1
  <2> QED
    BY <2>2, <2>3
<1>8. ~bad
  <2>1. Holds(c.bytes, c.at, 1) /\ (ext => Holds(c.bytes, after, 1))
    <3> HIDE DEF after
    <3> QED
      BY <1>1, <1>2 DEF PairAt, Holds
  <2>2. ~(ext /\ orex >= 16)
    <3> HIDE DEF orex
    <3> QED
      BY <1>5
  <2>3. (c.form \in MemoryForms) # (mod = 3)
    BY <1>3
  <2> HIDE DEF orex, after, mod, sib
  <2> QED
    BY <1>1, <1>2, <2>1, <2>2, <2>3
<1>9. r = IF bad THEN Fail ELSE opened
  BY DEF ReadModRM
<1>10. /\ DOMAIN opened = ReadingFields /\ opened.ok = TRUE /\ opened.bytes = bytes
       /\ opened.at = next /\ opened.marker = c.marker /\ opened.extended = c.extended
       /\ opened.vector = c.vector /\ opened.width = c.width
       /\ opened.opcode = c.opcode /\ opened.name = c.name /\ opened.form = c.form
       /\ opened.reg = reg /\ opened.rm = rm
  <2> HIDE DEF next, mod, sib, reg, rm, index, scale
  <2>1. /\ DOMAIN opened = ReadingFields /\ opened.ok = TRUE /\ opened.bytes = bytes
        /\ opened.at = next /\ opened.marker = c.marker
    BY <1>1, ReadingNames
  <2>2. opened.extended = c.extended /\ opened.vector = c.vector /\ opened.width = c.width
    BY <1>1, ReadingNames
  <2>3. opened.opcode = c.opcode /\ opened.name = c.name /\ opened.form = c.form
    BY <1>1, ReadingNames
  <2>4. opened.reg = reg /\ opened.rm = rm
    BY <1>1, ReadingNames
  <2> QED
    BY <2>1, <2>2, <2>3, <2>4
<1> HIDE DEF opened, bad, next, reg, rm
<1>11. r = opened
  BY <1>8, <1>9
<1>12. Prefixed(r, bytes, m, ext, control, end)
  BY <1>4, <1>10, <1>11 DEF Prefixed
<1> QED
  BY <1>7, <1>10, <1>11, <1>12 DEF Paired

\* Where the parts of RegForm are: prefix, opcode, registers, tail.
RegFormAt(c, p, control, opcode, reg, rm, tail, ext, q) ==
  /\ q \in Nat /\ Has(c, p, Prefix(ext, control)) /\ Has(c, q, opcode)
  /\ PairAt(c, q + Len(opcode), reg, rm, ext)
  /\ Has(c, q + Len(opcode) + PairSize(ext), tail)
  /\ Len(RegForm(control, opcode, reg, rm, <<>>)) = (q - p) + Len(opcode) + PairSize(ext)

\* The length of RegForm without a tail.
RegFormIs(f, control, opcode, ext) ==
  Len(f) = Len(Prefix(ext, control)) + Len(opcode) + PairSize(ext)

\* The length of RegForm.
LEMMA RegFormLen ==
  ASSUME NEW control \in 0 .. 127, NEW opcode \in Seq(Byte), NEW reg \in 0 .. 31,
         NEW rm \in 0 .. 31, NEW ext \in BOOLEAN, ext <=> (reg > 7 \/ rm > 7),
         NEW f, f = RegForm(control, opcode, reg, rm, <<>>)
  PROVE RegFormIs(f, control, opcode, ext)
<1>1. PICK modrm, orex, x, pre : /\ modrm = 192 + 8 * Low3(reg) + Low3(rm)
                                 /\ orex = High2(reg) + 4 * High2(rm)
                                 /\ x = IF ext THEN <<orex>> ELSE <<>>
                                 /\ pre = Prefix(ext, control)
  OBVIOUS
<1>2. RegForm(control, opcode, reg, rm, <<>>) = (((pre \o opcode) \o <<modrm>>) \o x) \o <<>>
  BY <1>1, Zenon DEF RegForm
<1>3. modrm \in Byte /\ orex \in Byte
  <2>1. PairFields(modrm, orex, reg, rm)
    BY <1>1, PairBits
  <2> QED
    BY <2>1 DEF PairFields, Byte
<1>4. /\ pre \in Seq(Byte) /\ <<modrm>> \in Seq(Byte) /\ x \in Seq(Byte) /\ <<>> \in Seq(Byte)
      /\ Len(<<modrm>>) = 1 /\ Len(x) = IF ext THEN 1 ELSE 0
  <2>1. pre \in Seq(Byte)
    BY <1>1, PrefixString
  <2> QED
    BY <1>1, <1>3, <2>1, NoBytes, SingleByte
<1>5. PICK s1, s2, s3, t : s1 = pre \o opcode /\ s2 = s1 \o <<modrm>> /\ s3 = s2 \o x /\ t = s3 \o <<>>
  OBVIOUS
<1>0. PICK n, k : n = Len(opcode) /\ k = Len(Prefix(ext, control))
  OBVIOUS
<1>6. s1 \in Seq(Byte) /\ Len(s1) = Len(pre) + n
  BY <1>0, <1>4, <1>5, ConcatLen
<1>7. s2 \in Seq(Byte) /\ Len(s2) = Len(s1) + 1
  BY <1>4, <1>5, <1>6, ConcatLen
<1>8. s3 \in Seq(Byte) /\ Len(s3) = Len(s2) + Len(x)
  BY <1>4, <1>5, <1>7, ConcatLen
<1>9. Len(t) = Len(s3) + 0
  BY <1>4, <1>5, <1>8, ConcatLen, NoBytes
<1>10. Len(pre) = k /\ k \in Nat /\ n \in Nat
  BY <1>0, <1>1, <1>4, LenProperties
<1>11. Len(t) = k + n + PairSize(ext)
  BY <1>4, <1>6, <1>7, <1>8, <1>9, <1>10 DEF PairSize
<1> QED
  BY <1>0, <1>2, <1>5, <1>11 DEF RegFormIs

\* The parts of RegForm, one after the other.
LEMMA RegFormHas ==
  ASSUME NEW c \in Seq(Byte), NEW p \in Nat, NEW control \in 0 .. 127, NEW opcode \in Seq(Byte),
         NEW reg \in 0 .. 31, NEW rm \in 0 .. 31, NEW tail \in Seq(Byte),
         Has(c, p, RegForm(control, opcode, reg, rm, tail)),
         NEW ext \in BOOLEAN, ext <=> (reg > 7 \/ rm > 7),
         NEW q, q = p + Len(Prefix(ext, control))
  PROVE RegFormAt(c, p, control, opcode, reg, rm, tail, ext, q)
<1>1. PICK pre, modrm, orex : /\ pre = Prefix(ext, control)
                              /\ modrm = 192 + 8 * Low3(reg) + Low3(rm)
                              /\ orex = High2(reg) + 4 * High2(rm)
  OBVIOUS
<1>2. PICK x : x = IF ext THEN <<orex>> ELSE <<>>
  OBVIOUS
<1>3. modrm \in Byte /\ orex \in Byte
  <2>1. PairFields(modrm, orex, reg, rm)
    BY <1>1, PairBits
  <2> QED
    BY <2>1 DEF PairFields, Byte
<1>4. /\ pre \in Seq(Byte) /\ <<modrm>> \in Seq(Byte) /\ x \in Seq(Byte)
      /\ Len(<<modrm>>) = 1 /\ Len(x) = IF ext THEN 1 ELSE 0
  <2>1. pre \in Seq(Byte)
    BY <1>1, PrefixString
  <2>2. x \in Seq(Byte) /\ Len(x) = IF ext THEN 1 ELSE 0
    BY <1>2, <1>3, NoBytes, SingleByte
  <2> QED
    BY <1>3, <2>1, <2>2, SingleByte
<1>5. RegForm(control, opcode, reg, rm, tail) = (((pre \o opcode) \o <<modrm>>) \o x) \o tail
  BY <1>1, <1>2, Zenon DEF RegForm
<1>6. PICK s1, s2, s3 : s1 = pre \o opcode /\ s2 = s1 \o <<modrm>> /\ s3 = s2 \o x
  OBVIOUS
<1>7. s1 \in Seq(Byte) /\ Len(s1) = Len(pre) + Len(opcode)
  BY <1>4, <1>6, ConcatProperties
<1>8. s2 \in Seq(Byte) /\ Len(s2) = Len(s1) + 1
  BY <1>4, <1>6, <1>7, ConcatProperties
<1>9. s3 \in Seq(Byte) /\ Len(s3) = Len(s2) + Len(x)
  BY <1>4, <1>6, <1>8, ConcatProperties
<1>10. Has(c, p, s3 \o tail)
  BY <1>5, <1>6
<1>11. Has(c, p, s3) /\ Has(c, p + Len(s3), tail)
  BY <1>9, <1>10, HasConcat
<1>12. Has(c, p, s2) /\ Has(c, p + Len(s2), x)
  BY <1>4, <1>6, <1>8, <1>11, HasConcat
<1>13. Has(c, p, s1) /\ Has(c, p + Len(s1), <<modrm>>)
  BY <1>4, <1>6, <1>7, <1>12, HasConcat
<1>14. Has(c, p, pre) /\ Has(c, p + Len(pre), opcode)
  BY <1>4, <1>6, <1>13, HasConcat
<1>15. Len(pre) \in Nat /\ Len(opcode) \in Nat /\ Len(s1) \in Nat /\ Len(s2) \in Nat
       /\ Len(c) \in Nat
  BY <1>4, <1>7, <1>8, LenProperties
<1>16. /\ q = p + Len(pre) /\ q \in Nat
       /\ p + Len(s1) = q + Len(opcode) /\ p + Len(s2) = q + Len(opcode) + 1
       /\ p + Len(s3) = q + Len(opcode) + PairSize(ext)
  <2>1. q = p + Len(pre)
    BY <1>1
  <2>2. PICK a, b, c1, c2, c3, x1 : /\ a = Len(pre) /\ b = Len(opcode) /\ c1 = Len(s1)
                                    /\ c2 = Len(s2) /\ c3 = Len(s3) /\ x1 = Len(x)
    OBVIOUS
  <2>3. /\ a \in Nat /\ b \in Nat /\ q = p + a /\ c1 = a + b /\ c2 = c1 + 1 /\ c3 = c2 + x1
    BY <1>7, <1>8, <1>9, <1>15, <2>1, <2>2
  <2>31. q \in Nat /\ c1 \in Nat /\ c2 \in Nat
    BY <2>3
  <2>30. a \in Nat /\ b \in Nat /\ q = p + a /\ c1 = a + b
    BY <2>3
  <2>32. p + c1 = q + b
    BY <2>30
  <2>34. c2 = c1 + 1 /\ b \in Nat
    BY <2>3
  <2>33. p + c2 = q + b + 1
    BY <2>31, <2>32, <2>34
  <2>4. q \in Nat /\ p + c1 = q + b /\ p + c2 = q + b + 1
    BY <2>31, <2>32, <2>33
  <2>5. CASE ext
    <3>1. x1 = 1
      BY <1>4, <2>2, <2>5
    <3>2. p + c3 = q + b + 2
      BY <2>3, <3>1
    <3> QED
      BY <2>1, <2>2, <2>4, <2>5, <3>2 DEF PairSize
  <2>6. CASE ~ext
    <3>1. x1 = 0
      BY <1>4, <2>2, <2>6
    <3>2. p + c3 = q + b + 1
      BY <2>3, <3>1
    <3> QED
      BY <2>1, <2>2, <2>4, <2>6, <3>2 DEF PairSize
  <2> QED
    BY <2>5, <2>6
<1>17. At(c, q + Len(opcode)) = modrm /\ q + Len(opcode) + 1 <= Len(c)
  <2>1. PICK y : y = p + Len(s1)
    OBVIOUS
  <2>2. y \in Nat /\ Has(c, y, <<modrm>>)
    BY <1>13, <1>15, <2>1
  <2>3. At(c, y) = modrm /\ y + 1 <= Len(c)
    BY <2>2, HasOne
  <2> QED
    BY <1>16, <2>1, <2>3
<1>18. ext => At(c, q + Len(opcode) + 1) = orex /\ q + Len(opcode) + 2 <= Len(c)
  <2>0. SUFFICES ASSUME ext PROVE At(c, q + Len(opcode) + 1) = orex /\ q + Len(opcode) + 2 <= Len(c)
    OBVIOUS
  <2>1. PICK y : y = p + Len(s2)
    OBVIOUS
  <2>2. y \in Nat /\ Has(c, y, <<orex>>)
    BY <1>2, <1>12, <1>15, <2>0, <2>1
  <2>3. At(c, y) = orex /\ y + 1 <= Len(c)
    BY <2>2, HasOne
  <2> QED
    BY <1>15, <1>16, <2>1, <2>3
<1>19. PairAt(c, q + Len(opcode), reg, rm, ext)
  <2>1. ~ext => reg <= 7 /\ rm <= 7
    OBVIOUS
  <2> QED
    BY <1>1, <1>17, <1>18, <2>1 DEF PairAt
<1>20. Len(RegForm(control, opcode, reg, rm, <<>>)) = (q - p) + Len(opcode) + PairSize(ext)
  <2>1. PICK n, k, f : /\ n = Len(opcode) /\ k = Len(Prefix(ext, control))
                       /\ f = RegForm(control, opcode, reg, rm, <<>>)
    OBVIOUS
  <2>0. RegFormIs(f, control, opcode, ext)
    BY <2>1, RegFormLen
  <2>2. Len(f) = k + n + PairSize(ext)
    BY <2>0, <2>1 DEF RegFormIs
  <2>3. k = q - p
    BY <1>1, <1>15, <1>16, <2>1
  <2> QED
    BY <2>1, <2>2, <2>3
<1> QED
  BY <1>1, <1>11, <1>14, <1>16, <1>19, <1>20 DEF RegFormAt

\* RegForm with one register and nothing after it.
LEMMA OneRegisterHas ==
  ASSUME NEW c \in Seq(Byte), NEW p \in Nat, NEW opcode \in Seq(Byte), NEW rm \in 0 .. 31,
         Has(c, p, RegForm(0, opcode, 0, rm, <<>>)),
         NEW ext \in BOOLEAN, ext <=> (0 > 7 \/ rm > 7), NEW q, q = p + Len(Prefix(ext, 0))
  PROVE RegFormAt(c, p, 0, opcode, 0, rm, <<>>, ext, q)
<1>1. PICK zero, none : zero = 0 /\ none = <<>>
  OBVIOUS
<1>2. /\ zero \in 0 .. 127 /\ zero \in 0 .. 31 /\ none \in Seq(Byte)
      /\ Has(c, p, RegForm(zero, opcode, zero, rm, none))
      /\ ext <=> (zero > 7 \/ rm > 7)
      /\ q = p + Len(Prefix(ext, zero))
  BY <1>1, NoBytes
<1>3. RegFormAt(c, p, zero, opcode, zero, rm, none, ext, q)
  BY <1>2, RegFormHas
<1> QED
  BY <1>1, <1>3

\* The bytes of a marker.
MarkBytes(m) == IF m = 0 THEN <<>> ELSE <<253, m>>

\* The marker m stands at start, and at is after it.
Marked(c, start, m, at) ==
  m \in 0 .. 10 /\ at = start + Len(MarkBytes(m)) /\ Has(c, start, MarkBytes(m))

\* The opcode of a branch and the form getInstruction reads it by.
BranchName(n, op, form) ==
  /\ n \in DOMAIN Opcodes /\ n # "MOVrr" /\ GroupOf(n) = 0 /\ op = OpcodeOf(n)
  /\ op \in Byte /\ op \notin {253, 254, 255} /\ ReadingForm(n) = form

\* Without a prefix, the opcode follows the marker.
LEMMA OpcodeLeads ==
  ASSUME NEW c \in Seq(Byte), NEW start \in Nat, NEW m \in 0 .. 10, NEW op \in Byte,
         op \notin {253, 254}, NEW at, at = start + Len(MarkBytes(m)),
         Has(c, start, MarkBytes(m)), Has(c, at, <<op>>)
  PROVE Leads(c, start, m, FALSE, 0, at) /\ at \in Nat
<1>1. PICK mark : mark = MarkBytes(m)
  OBVIOUS
<1>2. Len(mark) \in Nat
  <2>1. Len(<<>>) = 0 /\ Len(<<253, m>>) = 2
    OBVIOUS
  <2> QED
    BY <1>1, <2>1 DEF MarkBytes
<1>3. at \in Nat /\ Len(c) \in Nat
  BY <1>1, <1>2, LenProperties
<1>4. At(c, at) = op /\ at + 1 <= Len(c)
  BY <1>3, HasOne
<1>5. Prefix(FALSE, 0) = <<>> /\ Len(<<>>) = 0
  BY DEF Prefix
<1>6. Has(c, at, <<>>)
  BY <1>3, <1>4, <1>5 DEF Has
<1>7. at < Len(c)
  BY <1>3, <1>4
<1>8. start + Len(mark) + 0 = start + Len(mark)
  BY <1>2
<1> QED
  BY <1>1, <1>3, <1>4, <1>5, <1>6, <1>7, <1>8 DEF Leads, MarkBytes

\* Where a prefix follows the marker and the opcode the prefix.
LEMMA PrefixLeads ==
  ASSUME NEW c \in Seq(Byte), NEW start \in Nat, NEW m \in 0 .. 10, NEW op, NEW ext \in BOOLEAN,
         NEW control \in 0 .. 127,
         op \notin {253, 254}, NEW p, p = start + Len(MarkBytes(m)),
         Has(c, start, MarkBytes(m)), Has(c, p, Prefix(ext, control)),
         NEW at \in Nat, at = p + Len(Prefix(ext, control)), At(c, at) = op, at < Len(c)
  PROVE Leads(c, start, m, ext, control, at)
BY DEF Leads, MarkBytes

-----------------------------------------------------------------------------
(* Branches, read by getInstruction.                                       *)
\* The marker ends somewhere.
LEMMA MarkLength == ASSUME NEW m PROVE Len(MarkBytes(m)) \in Nat
<1>1. Len(<<>>) = 0 /\ Len(<<253, m>>) = 2
  OBVIOUS
<1> QED
  BY <1>1 DEF MarkBytes

\* A short branch is read with the displacement its four bytes hold.
LEMMA ShortBranchRead ==
  ASSUME NEW bytes \in Seq(Byte), NEW n, NEW op, BranchName(n, op, "Branch"),
         NEW m, NEW at, Marked(bytes, 0, m, at),
         Has(bytes, at, <<op>>), NEW v \in Word32, Has(bytes, at + 1, LittleEndian(v, 4)),
         NEW is64, NEW r, r = GetInstruction(bytes, is64)
  PROVE r.ops = <<Imm(v)>>
<1> USE DEF BranchName, Marked
<1>1. at = 0 + Len(MarkBytes(m)) /\ 0 \in Nat
  OBVIOUS
<1>2. Leads(bytes, 0, m, FALSE, 0, at) /\ at \in Nat
  BY <1>1, OpcodeLeads
<1>3. PICK p, c : p = ReadPrefixes(bytes) /\ c = ReadOpcode(p)
  OBVIOUS
<1>4. Prefixed(p, bytes, m, FALSE, 0, at)
  <2>1. 0 % 8 = 0 /\ 0 \in 0 .. 127 /\ FALSE \in BOOLEAN
    OBVIOUS
  <2> QED
    BY <1>2, <1>3, <2>1, PrefixesRead
<1>5. PICK code, next : code = <<op>> /\ next = at + Len(code)
  OBVIOUS
<1>6. Chosen(c, bytes, m, FALSE, 0, next, n)
  <2>1. code = OpcodeAt(n)
    BY <1>5 DEF OpcodeAt
  <2>2. ~(n = "MOVrr" /\ p.vector)
    OBVIOUS
  <2>3. Has(bytes, at, code)
    BY <1>5
  <2>4. GroupOf(n) = 0 => OpcodeOf(n) # 255
    OBVIOUS
  <2> QED
    BY <1>2, <1>3, <1>4, <1>5, <2>1, <2>2, <2>3, <2>4, OpcodeRead
<1>7. next = at + 1
  <2>1. Len(code) = 1
    BY <1>5
  <2> QED
    BY <1>5, <2>1
<1>8. /\ c.ok = TRUE /\ c.bytes = bytes /\ c.at = at + 1 /\ c.form = "Branch"
  BY <1>6, <1>7 DEF Prefixed, Chosen
<1>81. ~c.extended /\ ~c.vector
  <2>1. (0 \div 64) % 2 # 1
    OBVIOUS
  <2> QED
    BY <1>6, <2>1 DEF Prefixed, Chosen
<1>9. Signed32(bytes, at + 1) = v /\ Holds(bytes, at + 1, 4)
  <2>1. PICK x : x = at + 1
    OBVIOUS
  <2>2. x \in Nat /\ Has(bytes, x, LittleEndian(v, 4))
    BY <1>2, <2>1
  <2>3. Signed32(bytes, x) = v /\ x + 4 <= Len(bytes)
    BY <2>2, ReadsWord
  <2> QED
    BY <2>1, <2>3 DEF Holds
<1>10. r = ReadBranch(c)
  <2>1. r = ReadInstruction(c, is64)
    BY <1>3 DEF GetInstruction
  <2> QED
    BY <1>6, <1>7, <1>8, <2>1 DEF ReadInstruction, Prefixed, Chosen
<1>11. r = Success(c, <<Imm(Signed32(bytes, at + 1))>>, at + 1 + 4)
  BY <1>8, <1>81, <1>9, <1>10 DEF ReadBranch
<1> QED
  BY <1>9, <1>11 DEF Success

\* A branch on a register is read with its register and displacement.
LEMMA RegisterBranchRead ==
  ASSUME NEW bytes \in Seq(Byte), NEW n, NEW op, BranchName(n, op, "RegCondBranch"),
         NEW rm \in 0 .. 31, NEW s, s = RegForm(0, <<op>>, 0, rm, <<>>),
         NEW m, NEW at, Marked(bytes, 0, m, at),
         Has(bytes, at, s), NEW v \in Word32, Has(bytes, at + Len(s), LittleEndian(v, 4)),
         NEW is64, NEW r, r = GetInstruction(bytes, is64)
  PROVE r.ops = <<GPR(rm), Imm(v)>>
<1> USE DEF BranchName, Marked
<1>1. at = 0 + Len(MarkBytes(m)) /\ 0 \in Nat /\ at \in Nat
  BY MarkLength
<1>2. PICK ext \in BOOLEAN : ext <=> (0 > 7 \/ rm > 7)
  OBVIOUS
<1>3. PICK pre, code : pre = Prefix(ext, 0) /\ code = <<op>>
  OBVIOUS
<1>4. code \in Seq(Byte) /\ Len(code) = 1 /\ <<>> \in Seq(Byte) /\ 0 \in 0 .. 127 /\ 0 \in 0 .. 31
  BY <1>3, SingleByte, NoBytes
<1>5. PICK q, next, end : q = at + Len(pre) /\ next = q + Len(code) /\ end = next + PairSize(ext)
  OBVIOUS
<1>6. RegFormAt(bytes, at, 0, code, 0, rm, <<>>, ext, q)
  <2>1. Has(bytes, at, RegForm(0, code, 0, rm, <<>>))
    BY <1>3
  <2>2. q = at + Len(Prefix(ext, 0))
    BY <1>3, <1>5
  <2> QED
    BY <1>1, <1>2, <1>4, <2>1, <2>2, OneRegisterHas
<1>61. /\ q \in Nat /\ Has(bytes, q, code) /\ PairAt(bytes, next, 0, rm, ext)
       /\ Has(bytes, at, Prefix(ext, 0)) /\ Len(s) = (q - at) + 1 + PairSize(ext)
  BY <1>3, <1>4, <1>5, <1>6 DEF RegFormAt
<1>12. next = q + 1 /\ next \in Nat /\ end \in Nat
  BY <1>4, <1>5, <1>61 DEF PairSize
<1>7. Leads(bytes, 0, m, ext, 0, q)
  <2>1. At(bytes, q) = op /\ q + 1 <= Len(bytes) /\ Len(bytes) \in Nat
    BY <1>3, <1>61, HasOne, LenProperties
  <2>2. q < Len(bytes)
    BY <1>61, <2>1
  <2>3. PICK mark : mark = MarkBytes(m)
    OBVIOUS
  <2>4. 0 + Len(mark) = at /\ q = at + Len(Prefix(ext, 0)) /\ At(bytes, q) \notin {253, 254}
    BY <1>1, <1>3, <1>5, <2>1, <2>3
  <2> QED
    BY <1>61, <2>2, <2>3, <2>4 DEF Leads, MarkBytes
<1>8. PICK p, c, f : p = ReadPrefixes(bytes) /\ c = ReadOpcode(p) /\ f = ReadModRM(c)
  OBVIOUS
<1>9. Prefixed(p, bytes, m, ext, 0, q)
  <2>1. 0 % 8 = 0
    OBVIOUS
  <2> QED
    BY <1>4, <1>7, <1>8, <2>1, PrefixesRead
<1>10. Chosen(c, bytes, m, ext, 0, next, n)
  <2>1. code = OpcodeAt(n)
    BY <1>3 DEF OpcodeAt
  <2>2. ~(n = "MOVrr" /\ p.vector)
    OBVIOUS
  <2>4. GroupOf(n) = 0 => OpcodeOf(n) # 255
    OBVIOUS
  <2> QED
    BY <1>5, <1>61, <1>8, <1>9, <2>1, <2>2, <2>4, OpcodeRead
<1>13. Paired(f, c, bytes, m, ext, 0, end, 0, rm)
  <2>1. c.form \notin MemoryForms /\ Prefixed(c, bytes, m, ext, 0, next)
    BY <1>10 DEF MemoryForms, Chosen
  <2>2. /\ next \in Nat /\ 0 \in 0 .. 31 /\ end = next + PairSize(ext)
        /\ PairAt(bytes, next, 0, rm, ext) /\ f = ReadModRM(c)
    BY <1>12, <1>4, <1>5, <1>61, <1>8
  <2> QED
    BY <2>1, <2>2, PairRead, ZenonT(60)
<1>131. /\ Prefixed(f, bytes, m, ext, 0, end)
        /\ f.opcode = n /\ f.form = "RegCondBranch" /\ f.reg = 0 /\ f.rm = rm
  BY <1>10, <1>13 DEF Paired, Chosen
<1>14. f.ok = TRUE /\ f.bytes = bytes /\ f.at = end /\ ~f.vector
  <2>1. (0 \div 64) % 2 # 1
    OBVIOUS
  <2> QED
    BY <1>131, <2>1 DEF Prefixed
<1>15. at + Len(s) = end
  <2>1. CASE ext
    <3>1. Len(s) = (q - at) + 1 + 2 /\ end = q + 1 + 2
      BY <1>5, <1>61, <1>12, <2>1 DEF PairSize
    <3> QED
      BY <1>1, <1>61, <3>1
  <2>2. CASE ~ext
    <3>1. Len(s) = (q - at) + 1 + 1 /\ end = q + 1 + 1
      BY <1>5, <1>61, <1>12, <2>2 DEF PairSize
    <3> QED
      BY <1>1, <1>61, <3>1
  <2> QED
    BY <2>1, <2>2
<1>16. Signed32(bytes, end) = v /\ Holds(bytes, end, 4)
  <2>1. Has(bytes, end, LittleEndian(v, 4))
    BY <1>15
  <2> QED
    BY <1>12, <2>1, ReadsWord DEF Holds
<1>17. ReadVectorCtl(f) = f
  BY <1>14 DEF ReadVectorCtl
<1>18. PICK g : g = ScalarName(f)
  OBVIOUS
<1>19. /\ g.ok = TRUE /\ g.form = "RegCondBranch" /\ g.bytes = bytes /\ g.at = end
       /\ g.reg = 0 /\ g.rm = rm
  <2>1. DOMAIN f = ReadingFields
    BY <1>131 DEF Prefixed
  <2>2. g = [f EXCEPT !.name = ScalarRecord(f)]
    BY <1>14, <1>18 DEF ScalarName
  <2> QED
    BY <1>131, <1>14, <2>1, <2>2, ReadingNames
<1>20. r = ReadOperands(g, is64)
  <2>1. r = ReadWithModRM(c, is64)
    <3>1. c.ok = TRUE /\ c.form = "RegCondBranch"
      BY <1>10 DEF Prefixed, Chosen
    <3> QED
      BY <1>8, <3>1 DEF GetInstruction, ReadInstruction
  <2> QED
    BY <1>8, <1>17, <1>18, <2>1 DEF ReadWithModRM
<1>21. r = ReadRegCondBranch(g)
  <2>1. "RegCondBranch" \notin MemoryForms
    BY DEF MemoryForms
  <2> QED
    BY <1>19, <1>20, <2>1 DEF ReadOperands
<1>22. r = Success(g, <<GPR(rm), Imm(Signed32(bytes, end))>>, end + 4)
  BY <1>16, <1>19, <1>21 DEF ReadRegCondBranch
<1> QED
  BY <1>16, <1>22 DEF Success

-----------------------------------------------------------------------------
(* Branches, read by decode_at.                                            *)
\* decode_at after the registers: what it had read before, and the two registers.
MachinePaired(r, d, end, a, b) ==
  /\ DOMAIN r = Fields /\ r.ok = TRUE /\ r.p = end /\ r.reg = a /\ r.rm = b
  /\ r.memory = FALSE /\ r.mod = 3 /\ r.index = 4 /\ r.scale = 1
  /\ r.marker = d.marker /\ r.opcode = d.opcode /\ r.group = d.group /\ r.sub = d.sub
  /\ r.has_vector = d.has_vector /\ r.width = d.width /\ r.scalar_fp = d.scalar_fp

\* decode_at reads the two registers.
LEMMA MachinePair ==
  ASSUME NEW c \in Seq(Byte), NEW d, NEW m, NEW ext \in BOOLEAN, NEW control, NEW op,
         NEW p \in Nat, Started(d, m, ext, control, p, op),
         NEW a \in 0 .. 31, NEW b \in 0 .. 31, PairAt(c, p, a, b, ext),
         NEW r, r = ReadFields(c, d), NEW end, end = p + PairSize(ext)
  PROVE MachinePaired(r, d, end, a, b)
<1> DEFINE modrm == At(c, d.p)
           memory == modrm \div 64 # 3
           sib == memory /\ modrm % 8 = 4
           sibByte == At(c, d.p + 1)
           after == d.p + (IF sib THEN 2 ELSE 1)
           orex == IF d.has_orex THEN At(c, after) ELSE 0
           next == after + (IF d.has_orex THEN 1 ELSE 0)
           reg == ((modrm \div 8) % 8) + ExtraBits(orex, 1)
           rm == IF sib THEN (sibByte % 8) + ExtraBits(orex, 64)
                        ELSE (modrm % 8) + ExtraBits(orex, 4)
           index == IF sib THEN ((sibByte \div 8) % 8) + ExtraBits(orex, 16) ELSE 4
           scale == IF sib THEN 2 ^ (sibByte \div 64) ELSE 1
           mod == modrm \div 64
           bad == \/ d.p >= Len(c)
                  \/ memory /\ ~(d.opcode \in MemoryOpcodes \/ VectorAccess(d) \/ d.scalar_fp)
                  \/ sib /\ ~Holds(c, d.p, 2)
                  \/ d.has_orex /\ after >= Len(c)
           opened == [d EXCEPT !.p = next, !.memory = memory, !.reg = reg, !.rm = rm,
                        !.index = index, !.scale = scale, !.mod = mod]
<1>0. DOMAIN d = Fields /\ d.ok = TRUE /\ (d.has_orex <=> ext) /\ d.p = p
  BY DEF Started
<1>1. Len(c) \in Nat
  BY LenProperties
<1>2. PICK x, y : x = 192 + 8 * Low3(a) + Low3(b) /\ y = High2(a) + 4 * High2(b)
  OBVIOUS
<1>3. PairFields(x, y, a, b)
  BY <1>2, PairBits
<1>4. /\ x \div 64 = 3 /\ y \in 0 .. 15
      /\ ((x \div 8) % 8) + ExtraBits(y, 1) = a
      /\ (x % 8) + ExtraBits(y, 4) = b
      /\ a <= 7 => ((x \div 8) % 8) + ExtraBits(0, 1) = a
      /\ b <= 7 => (x % 8) + ExtraBits(0, 4) = b
  BY <1>3 DEF PairFields
<1>5. modrm = x
  BY <1>0, <1>2 DEF PairAt
<1>6. ~memory /\ ~sib /\ mod = 3
  <2> HIDE DEF modrm
  <2> QED
    BY <1>4, <1>5
<1>7. after = p + 1
  BY <1>0, <1>6
<1>8. next = end
  <2> HIDE DEF after
  <2> QED
    BY <1>0, <1>7 DEF PairSize
<1>9. ext => orex = y
  <2> HIDE DEF after
  <2> QED
    BY <1>0, <1>2, <1>7 DEF PairAt
<1>10. ~ext => orex = 0 /\ a <= 7 /\ b <= 7
  BY <1>0 DEF PairAt
<1>11. reg = a /\ rm = b /\ index = 4 /\ scale = 1
  <2>1. rm = (modrm % 8) + ExtraBits(orex, 4) /\ index = 4 /\ scale = 1
    BY <1>6
  <2>2. CASE ext
    <3> HIDE DEF orex, modrm, rm
    <3> QED
      BY <1>4, <1>5, <1>9, <2>1, <2>2
  <2>3. CASE ~ext
    <3> HIDE DEF orex, modrm, rm
    <3> QED
      BY <1>4, <1>5, <1>10, <2>1, <2>3
  <2> QED
    BY <2>1, <2>2, <2>3
<1>12. ~bad
  <2>1. ~(d.p >= Len(c)) /\ ~(d.has_orex /\ after >= Len(c))
    <3> HIDE DEF after
    <3> QED
      BY <1>0, <1>1, <1>7 DEF PairAt
  <2> HIDE DEF memory, sib, after
  <2> QED
    BY <1>6, <2>1
<1>13. r = IF bad THEN Throws ELSE opened
  BY DEF ReadFields
<1>14. MachinePaired(opened, d, next, reg, rm)
  <2> HIDE DEF next, memory, reg, rm, index, scale, mod
  <2>1. DOMAIN opened = Fields /\ opened.ok = TRUE /\ opened.p = next /\ opened.reg = reg
        /\ opened.rm = rm /\ opened.memory = memory
    BY <1>0, FieldNames
  <2>2. opened.mod = mod /\ opened.index = index /\ opened.scale = scale
    BY <1>0, FieldNames
  <2>3. /\ opened.marker = d.marker /\ opened.opcode = d.opcode /\ opened.group = d.group
        /\ opened.sub = d.sub
    BY <1>0, FieldNames
  <2>4. /\ opened.has_vector = d.has_vector /\ opened.width = d.width
        /\ opened.scalar_fp = d.scalar_fp
    BY <1>0, FieldNames
  <2>5. memory = FALSE
    BY <1>6
  <2> QED
    BY <1>6, <1>11, <2>1, <2>2, <2>3, <2>4, <2>5 DEF MachinePaired
<1> HIDE DEF bad, opened, next, reg, rm
<1> QED
  BY <1>8, <1>11, <1>12, <1>13, <1>14

\* What Sized adds is the size.
LEMMA SizedKeeps ==
  ASSUME NEW d, DOMAIN d = Fields, d.ok = TRUE, NEW start
  PROVE Sized(d, start).immediate = d.immediate
BY FieldNames DEF Sized

\* The machine reads the displacement of a short branch.
LEMMA MachineShortBranch ==
  ASSUME NEW c \in Seq(Byte), NEW start \in Nat, NEW op \in Byte, op \in DirectOps,
         NEW m, NEW at, Marked(c, start, m, at),
         Has(c, at, <<op>>), NEW v \in Word32, Has(c, at + 1, LittleEndian(v, 4))
  PROVE DecodeAt(c, start).immediate = Imm(v)
<1> USE DEF Marked
<1>0. op \notin {253, 254}
  BY DEF DirectOps
<1>1. Leads(c, start, m, FALSE, 0, at) /\ at \in Nat
  BY <1>0, OpcodeLeads
<1>2. PICK d : d = ReadMarkerAndControl(c, start)
  OBVIOUS
<1>3. Started(d, m, FALSE, 0, at + 1, op)
  <2>1. 0 \in 0 .. 127 /\ FALSE \in BOOLEAN
    OBVIOUS
  <2>2. At(c, at) = op
    BY <1>1, HasOne
  <2>3. Started(d, m, FALSE, 0, at + 1, At(c, at))
    BY <1>1, <1>2, <2>1, MachinePrefixes
  <2> QED
    BY <2>2, <2>3
<1>4. DOMAIN d = Fields /\ d.ok = TRUE /\ d.p = at + 1 /\ d.opcode = op /\ d.group = 0
  BY <1>3 DEF Started
<1>5. Signed32(c, at + 1) = v /\ Holds(c, at + 1, 4)
  <2>1. PICK x : x = at + 1
    OBVIOUS
  <2>2. x \in Nat /\ Has(c, x, LittleEndian(v, 4))
    BY <1>1, <2>1
  <2> QED
    BY <2>1, <2>2, ReadsWord DEF Holds
<1>6. ReadExtension(c, d) = d
  BY <1>4 DEF ReadExtension, DirectOps
<1>8. PICK r : r = ReadRest(c, d)
  OBVIOUS
<1>9. r = [d EXCEPT !.p = @ + 4, !.immediate = Imm(Signed32(c, d.p))]
  BY <1>4, <1>5, <1>8 DEF ReadRest, HasNoModRM, ReadDirect
<1>10. DOMAIN r = Fields /\ r.ok = TRUE /\ r.immediate = Imm(v)
  BY <1>4, <1>5, <1>9, FieldNames
<1>11. DecodeAt(c, start) = Sized(r, start)
  BY <1>2, <1>6, <1>8 DEF DecodeAt
<1>12. Sized(r, start).immediate = r.immediate
  BY <1>10, SizedKeeps, ZenonT(60)
<1> QED
  BY <1>10, <1>11, <1>12

\* The machine reads the displacement of a branch on a register.
LEMMA MachineRegisterBranch ==
  ASSUME NEW c \in Seq(Byte), NEW start \in Nat,
         NEW rm \in 0 .. 31, NEW s, s = RegForm(0, << 109 >>, 0, rm, <<>>),
         NEW m, NEW at, Marked(c, start, m, at),
         Has(c, at, s), NEW v \in Word32, Has(c, at + Len(s), LittleEndian(v, 4))
  PROVE DecodeAt(c, start).immediate = Imm(v)
<1> USE DEF Marked
<1>1. at \in Nat
  BY MarkLength
<1>2. PICK ext \in BOOLEAN : ext <=> (0 > 7 \/ rm > 7)
  OBVIOUS
<1>3. PICK pre, code : pre = Prefix(ext, 0) /\ code = << 109 >>
  OBVIOUS
<1>4. code \in Seq(Byte) /\ Len(code) = 1 /\ <<>> \in Seq(Byte) /\ 0 \in 0 .. 127 /\ 0 \in 0 .. 31
  <2>1. 109 \in Byte
    BY DEF Byte
  <2> QED
    BY <1>3, <2>1, SingleByte, NoBytes
<1>5. PICK q, next, end : q = at + Len(pre) /\ next = q + Len(code) /\ end = next + PairSize(ext)
  OBVIOUS
<1>6. RegFormAt(c, at, 0, code, 0, rm, <<>>, ext, q)
  <2>1. Has(c, at, RegForm(0, code, 0, rm, <<>>))
    BY <1>3
  <2>2. q = at + Len(Prefix(ext, 0))
    BY <1>3, <1>5
  <2> QED
    BY <1>1, <1>2, <1>4, <2>1, <2>2, OneRegisterHas
<1>7. /\ q \in Nat /\ Has(c, q, code) /\ PairAt(c, next, 0, rm, ext)
      /\ Has(c, at, Prefix(ext, 0)) /\ Len(s) = (q - at) + 1 + PairSize(ext)
  BY <1>3, <1>4, <1>5, <1>6 DEF RegFormAt
<1>8. next = q + 1 /\ next \in Nat /\ end \in Nat
  BY <1>4, <1>5, <1>7 DEF PairSize
<1>9. At(c, q) = 109 /\ q < Len(c)
  <2>1. At(c, q) = 109 /\ q + 1 <= Len(c) /\ Len(c) \in Nat
    BY <1>3, <1>7, HasOne, LenProperties
  <2> QED
    BY <1>7, <2>1
<1>10. Leads(c, start, m, ext, 0, q)
  <2>1. 109 \notin {253, 254} /\ q = at + Len(Prefix(ext, 0))
    BY <1>3, <1>5
  <2>2. PICK op : op = 109
    OBVIOUS
  <2>3. op \notin {253, 254} /\ At(c, q) = op /\ q < Len(c)
    BY <1>9, <2>1, <2>2
  <2> QED
    BY <1>4, <1>7, <2>1, <2>3, PrefixLeads, ZenonT(60)
<1>11. PICK d, f : d = ReadMarkerAndControl(c, start) /\ f = ReadFields(c, d)
  OBVIOUS
<1>12. Started(d, m, ext, 0, next, 109)
  <2>1. Started(d, m, ext, 0, q + 1, At(c, q))
    BY <1>4, <1>10, <1>11, MachinePrefixes
  <2> QED
    BY <1>8, <1>9, <2>1
<1>13. /\ DOMAIN d = Fields /\ d.ok = TRUE /\ d.p = next /\ d.opcode = 109 /\ d.group = 0
       /\ (d.has_orex <=> ext) /\ ~d.has_vector
  <2>1. (0 \div 64) % 2 # 1
    OBVIOUS
  <2> QED
    BY <1>12, <2>1 DEF Started
<1>14. MachinePaired(f, d, end, 0, rm)
  <2>1. PairAt(c, next, 0, rm, ext) /\ 0 \in 0 .. 31 /\ next \in Nat
        /\ f = ReadFields(c, d) /\ end = next + PairSize(ext)
    BY <1>4, <1>5, <1>7, <1>8, <1>11
  <2> QED
    BY <1>12, <2>1, MachinePair, ZenonT(60)
<1>15. /\ DOMAIN f = Fields /\ f.ok = TRUE /\ f.p = end /\ f.memory = FALSE /\ f.opcode = 109
       /\ ~f.has_vector
  BY <1>13, <1>14 DEF MachinePaired
<1>16. at + Len(s) = end
  <2>1. CASE ext
    <3>1. Len(s) = (q - at) + 1 + 2 /\ end = q + 1 + 2
      BY <1>5, <1>7, <1>8, <2>1 DEF PairSize
    <3> QED
      BY <1>1, <1>7, <3>1
  <2>2. CASE ~ext
    <3>1. Len(s) = (q - at) + 1 + 1 /\ end = q + 1 + 1
      BY <1>5, <1>7, <1>8, <2>2 DEF PairSize
    <3> QED
      BY <1>1, <1>7, <3>1
  <2> QED
    BY <2>1, <2>2
<1>17. Signed32(c, end) = v /\ Holds(c, end, 4)
  <2>1. Has(c, end, LittleEndian(v, 4))
    BY <1>16
  <2> QED
    BY <1>8, <2>1, ReadsWord DEF Holds
<1>18. ReadExtension(c, d) = d
  BY <1>13 DEF ReadExtension
<1>19. ~HasNoModRM(d)
  BY <1>13 DEF HasNoModRM, IsWindowOp, DirectOps
<1>20. PICK g : g = ReadOperandBytes(c, f)
  OBVIOUS
<1>21. g = [f EXCEPT !.p = @ + 4, !.immediate = Imm(Signed32(c, f.p))]
  <2>1. 109 \notin SystemRegisterOps /\ 109 \in RegisterBranches
    BY DEF SystemRegisterOps, RegisterBranches
  <2> QED
    BY <1>15, <1>17, <1>20, <2>1 DEF ReadOperandBytes
<1>22. /\ DOMAIN g = Fields /\ g.ok = TRUE /\ g.immediate = Imm(v) /\ g.memory = FALSE
       /\ ~g.has_vector /\ g.opcode = 109
  <2>1. DOMAIN g = Fields /\ g.ok = TRUE /\ g.immediate = Imm(v)
    BY <1>15, <1>17, <1>21, FieldNames
  <2>2. g.memory = FALSE /\ ~g.has_vector /\ g.opcode = 109
    BY <1>15, <1>21, FieldNames
  <2> QED
    BY <2>1, <2>2
<1>23. ReadVectorControl(c, g) = g
  BY <1>22 DEF ReadVectorControl
<1>24. ReadImmediate(c, g) = g
  BY <1>22 DEF ReadImmediate
<1>25. ReadOffset(c, g) = g
  BY <1>22 DEF ReadOffset
<1>26. ReadRest(c, d) = g
  BY <1>11, <1>13, <1>19, <1>20, <1>23, <1>24, <1>25 DEF ReadRest, ReadForms
<1>27. DecodeAt(c, start) = Sized(g, start)
  BY <1>11, <1>18, <1>26 DEF DecodeAt
<1>28. Sized(g, start).immediate = g.immediate
  BY <1>22, SizedKeeps, ZenonT(60)
<1> QED
  BY <1>22, <1>27, <1>28

-----------------------------------------------------------------------------
(* The branches by name, and the bytes of a section inside an instruction. *)
\* The branch instructions: their opcodes and the forms they are read by.
LEMMA BranchRows ==
  ASSUME NEW n \in DOMAIN Records, ClassOf(n) \in BranchClasses
  PROVE /\ GroupOf(n) = 0
        /\ ClassOf(n) = "RegCondBranch" =>
             /\ BranchName(n, OpcodeOf(n), "RegCondBranch") /\ FormOf(n) = "RegCondBranch"
             /\ OpcodeOf(n) = 109
        /\ ClassOf(n) # "RegCondBranch" =>
             /\ BranchName(n, OpcodeOf(n), "Branch") /\ FormOf(n) = "BranchRel32"
             /\ n # "XBEGIN" => OpcodeOf(n) \in DirectOps
<1>1. \A k \in DOMAIN Variants : Variants[k][2] \notin BranchClasses
  BY SMT DEF Variants, BranchClasses
<1>2. n \in DOMAIN Opcodes
  <2>1. n \in DOMAIN Variants /\ n \notin DOMAIN Opcodes => Records[n] = Variants[n]
    BY DEF Records
  <2> QED
    BY <1>1, <2>1 DEF Records, ClassOf
<1>3. ClassOf(n) = Opcodes[n][2] /\ OpcodeOf(n) = Opcodes[n][1]
  BY <1>2 DEF Records, ClassOf, OpcodeOf
<1>4. \A k \in DOMAIN Opcodes :
        Opcodes[k][2] \in BranchClasses => k \in {"JMP", "CALL", "JE", "JZR", "XBEGIN"}
  BY SMTT(60) DEF Opcodes, BranchClasses
<1>5. n \in {"JMP", "CALL", "JE", "JZR", "XBEGIN"}
  BY <1>2, <1>3, <1>4
<1>6. /\ Opcodes["JMP"] = << 92, "UncondBranch">> /\ Opcodes["CALL"] = << 94, "Call">>
      /\ Opcodes["JE"] = << 97, "CondBranch">> /\ Opcodes["JZR"] = << 109, "RegCondBranch">>
      /\ Opcodes["XBEGIN"] = << 208, "TxnBeginRel">>
  BY SMTT(60) DEF Opcodes
<1>7. /\ DecodeForm["UncondBranch"] = "Branch" /\ DecodeForm["Call"] = "Branch"
      /\ DecodeForm["CondBranch"] = "Branch" /\ DecodeForm["TxnBeginRel"] = "Branch"
      /\ DecodeForm["RegCondBranch"] = "RegCondBranch"
  BY SMTT(60) DEF DecodeForm
<1>8. GroupOf(n) = 0
  BY LabelClassSizes DEF GroupOf, BranchClasses
<1>9. ReadingForm(n) = DecodeForm[ClassOf(n)]
  BY <1>8 DEF ReadingForm
<1>10. /\ ClassOf(n) = "RegCondBranch" => OpcodeOf(n) = 109
       /\ ClassOf(n) # "RegCondBranch" /\ n # "XBEGIN" => OpcodeOf(n) \in {92, 94, 97}
       /\ OpcodeOf(n) \in {92, 94, 97, 109, 208}
  BY <1>3, <1>5, <1>6
<1>11. ClassOf(n) # "RegCondBranch" => ClassOf(n) \in {"UncondBranch", "CondBranch", "Call", "TxnBeginRel"}
  BY DEF BranchClasses
<1>12. /\ ClassOf(n) = "RegCondBranch" => FormOf(n) = "RegCondBranch"
       /\ ClassOf(n) # "RegCondBranch" => FormOf(n) = "BranchRel32"
  BY <1>11, LabelClassSizes DEF FormOf
<1>13. /\ ClassOf(n) = "RegCondBranch" => ReadingForm(n) = "RegCondBranch"
       /\ ClassOf(n) # "RegCondBranch" => ReadingForm(n) = "Branch"
  BY <1>7, <1>9, <1>11
<1>14. n # "MOVrr"
  BY <1>5
<1>15. OpcodeOf(n) \in Byte /\ OpcodeOf(n) \notin {253, 254, 255}
  BY <1>10 DEF Byte
<1>16. ClassOf(n) # "RegCondBranch" /\ n # "XBEGIN" => OpcodeOf(n) \in DirectOps
  BY <1>10 DEF DirectOps
<1> QED
  BY <1>2, <1>8, <1>10, <1>12, <1>13, <1>14, <1>15, <1>16 DEF BranchName

\* The bytes of a section from start to end.
PieceAt(piece, c, start, end) ==
  /\ start \in Nat /\ end \in Nat /\ start <= end /\ end <= Len(c)
  /\ piece = SubSeq(c, start + 1, end)

\* They are bytes, as many as lie between.
LEMMA PieceOf ==
  ASSUME NEW c \in Seq(Byte), NEW piece, NEW start, NEW end, PieceAt(piece, c, start, end)
  PROVE /\ piece \in Seq(Byte) /\ Len(piece) = end - start
        /\ \A j \in 1 .. end - start : piece[j] = c[start + j]
<1>1. start \in Nat /\ end \in Nat /\ start <= end /\ end <= Len(c) /\ Len(c) \in Nat
  BY LenProperties DEF PieceAt
<1>2. PICK lo : lo = start + 1
  OBVIOUS
<1>3. lo \in 1 .. Len(c) + 1 /\ end \in lo - 1 .. Len(c) /\ lo \in Int /\ end \in Int
  BY <1>1, <1>2
<1>4. \A i \in lo .. end : c[i] \in Byte
  BY <1>1, <1>3, ElementOfSeq
<1>5. piece = SubSeq(c, lo, end)
  BY <1>2 DEF PieceAt
<1>6. SubSeq(c, lo, end) \in Seq(Byte)
  BY <1>3, <1>4, SubSeqProperties
<1>7. Len(SubSeq(c, lo, end)) = IF lo <= end THEN end - lo + 1 ELSE 0
  BY <1>3, <1>4, SubSeqProperties
<1>8. \A i \in 1 .. end - lo + 1 : SubSeq(c, lo, end)[i] = c[lo + i - 1]
  BY <1>3, <1>4, SubSeqProperties
<1>9. Len(piece) = end - start
  BY <1>1, <1>2, <1>5, <1>7
<1>10. ASSUME NEW j \in 1 .. end - start PROVE piece[j] = c[start + j]
  <2>1. j \in 1 .. end - lo + 1 /\ lo + j - 1 = start + j
    BY <1>1, <1>2
  <2> QED
    BY <1>5, <1>8, <2>1
<1> QED
  BY <1>5, <1>6, <1>9, <1>10

\* What a piece of the section holds, the piece alone holds at the same distance.
LEMMA HasWithin ==
  ASSUME NEW c \in Seq(Byte), NEW piece, NEW start, NEW end, PieceAt(piece, c, start, end),
         NEW p \in Nat, start <= p, NEW s \in Seq(Byte), Has(c, p, s), p + Len(s) <= end
  PROVE Has(piece, p - start, s)
<1>1. PICK k, q : k = Len(s) /\ q = p - start
  OBVIOUS
<1>2. /\ k \in Nat /\ Len(c) \in Nat /\ start \in Nat /\ end \in Nat /\ start <= end
      /\ end <= Len(c)
  BY <1>1, LenProperties DEF PieceAt
<1>3. /\ piece \in Seq(Byte) /\ Len(piece) = end - start
      /\ \A j \in 1 .. end - start : piece[j] = c[start + j]
  BY PieceOf
<1>4. q \in Nat /\ q + k <= end - start
  BY <1>1, <1>2
<1>5. ASSUME NEW j \in 1 .. k PROVE At(piece, q + j - 1) = s[j]
  <2>1. q + j - 1 < end - start /\ q + j \in 1 .. end - start /\ (q + j - 1) + 1 = q + j
    BY <1>2, <1>4
  <2>2. At(piece, q + j - 1) = piece[q + j]
    BY <1>3, <2>1 DEF At
  <2>3. start + (q + j) = (p + j - 1) + 1 /\ p + j - 1 < Len(c)
    BY <1>1, <1>2, <1>4
  <2>4. At(c, p + j - 1) = c[start + (q + j)]
    BY <2>3 DEF At
  <2>5. At(c, p + j - 1) = s[j]
    BY <1>1 DEF Has
  <2> QED
    BY <1>3, <2>1, <2>2, <2>4, <2>5
<1> QED
  BY <1>1, <1>3, <1>4, <1>5 DEF Has

-----------------------------------------------------------------------------
(* The records without a place of their own in the opcode map. *)
\* The record in the opcode map whose place a variant shares.
BaseOf ==
  [MOVV128 |-> "MOVrr",
   FADD32CG |-> "FADD64", FADD128CG |-> "FADD64", FSQRT32CG |-> "FSQRT64",
   FSQRT128CG |-> "FSQRT64", FCMP32CG |-> "FCMP64", FCMP128CG |-> "FCMP64",
   FMADD32CG |-> "FMADD64", FMADD128CG |-> "FMADD64", FMIN32CG |-> "FMIN64",
   FMIN128CG |-> "FMIN64", FCVTI32CG |-> "FCVTI64", FCVTI128CG |-> "FCVTI64",
   FCVTS32CG |-> "FCVTS64", FCVTS128CG |-> "FCVTS64", FCVTU32CG |-> "FCVTU64",
   FCVTU128CG |-> "FCVTU64", FLD32CG |-> "FLD64", FLD128CG |-> "FLD64",
   FST32CG |-> "FST64", FST128CG |-> "FST64"]
BaseName(n) == IF n \in DOMAIN Opcodes THEN n ELSE BaseOf[n]

\* The variants have the opcode and the class of their base.
LEMMA VariantBases ==
  \A v \in DOMAIN Variants :
    /\ BaseOf[v] \in DOMAIN Opcodes
    /\ Opcodes[BaseOf[v]][1] = Variants[v][1]
    /\ v # "MOVV128" => Opcodes[BaseOf[v]][2] = Variants[v][2]
<1>1. \A v \in DOMAIN Variants : BaseOf[v] \in
        {"MOVrr", "FADD64", "FSQRT64", "FCMP64", "FMADD64", "FMIN64", "FCVTI64", "FCVTS64",
         "FCVTU64", "FLD64", "FST64"}
  BY SMTT(60) DEF Variants, BaseOf
<1>2. {"MOVrr", "FADD64", "FSQRT64", "FCMP64", "FMADD64", "FMIN64", "FCVTI64", "FCVTS64",
         "FCVTU64", "FLD64", "FST64"} \subseteq DOMAIN Opcodes
  BY SMTT(60) DEF Opcodes
<1>3. /\ Opcodes["MOVrr"] = <<0, "CopyRR">> /\ Opcodes["FADD64"] = <<166, "FPBinary">>
      /\ Opcodes["FSQRT64"] = <<170, "FPUnary">> /\ Opcodes["FCMP64"] = <<171, "FPCompare">>
      /\ Opcodes["FMADD64"] = <<0, "FPXFused">> /\ Opcodes["FMIN64"] = <<4, "FPXBinary">>
      /\ Opcodes["FCVTI64"] = <<172, "IntToFP">> /\ Opcodes["FCVTS64"] = <<173, "FPToInt">>
      /\ Opcodes["FCVTU64"] = <<219, "IntToFP">> /\ Opcodes["FLD64"] = <<16, "FPXLoad">>
      /\ Opcodes["FST64"] = <<17, "FPXStore">>
  BY SMTT(60) DEF Opcodes
<1>4. \A v \in DOMAIN Variants :
    /\ Opcodes[BaseOf[v]][1] = Variants[v][1]
    /\ v # "MOVV128" => Opcodes[BaseOf[v]][2] = Variants[v][2]
  BY <1>3, SMTT(60) DEF Variants, BaseOf
<1> QED
  BY <1>1, <1>2, <1>4

\* The scalar variants of a base are told apart by their width.
LEMMA VariantWidths ==
  \A v \in DOMAIN Variants \ {"MOVV128"} :
    /\ BaseOf[v] \in DOMAIN ScalarVariants
    /\ \/ Variants[v][3] = 3 /\ ScalarVariants[BaseOf[v]][1] = v
       \/ Variants[v][3] = 5 /\ ScalarVariants[BaseOf[v]][2] = v
<1>1. \A v \in DOMAIN Variants \ {"MOVV128"} : BaseOf[v] \in DOMAIN ScalarVariants
  BY SMTT(60) DEF Variants, BaseOf, ScalarVariants
<1>2. /\ ScalarVariants["FADD64"][1] = "FADD32CG" /\ ScalarVariants["FADD64"][2] = "FADD128CG"
      /\ ScalarVariants["FSQRT64"][1] = "FSQRT32CG" /\ ScalarVariants["FSQRT64"][2] = "FSQRT128CG"
      /\ ScalarVariants["FCMP64"][1] = "FCMP32CG" /\ ScalarVariants["FCMP64"][2] = "FCMP128CG"
      /\ ScalarVariants["FMADD64"][1] = "FMADD32CG" /\ ScalarVariants["FMADD64"][2] = "FMADD128CG"
      /\ ScalarVariants["FMIN64"][1] = "FMIN32CG" /\ ScalarVariants["FMIN64"][2] = "FMIN128CG"
      /\ ScalarVariants["FCVTI64"][1] = "FCVTI32CG" /\ ScalarVariants["FCVTI64"][2] = "FCVTI128CG"
      /\ ScalarVariants["FCVTS64"][1] = "FCVTS32CG" /\ ScalarVariants["FCVTS64"][2] = "FCVTS128CG"
      /\ ScalarVariants["FCVTU64"][1] = "FCVTU32CG" /\ ScalarVariants["FCVTU64"][2] = "FCVTU128CG"
      /\ ScalarVariants["FLD64"][1] = "FLD32CG" /\ ScalarVariants["FLD64"][2] = "FLD128CG"
      /\ ScalarVariants["FST64"][1] = "FST32CG" /\ ScalarVariants["FST64"][2] = "FST128CG"
  BY SMTT(60) DEF ScalarVariants
<1>3. /\ Variants["FADD32CG"][3] = 3 /\ Variants["FADD128CG"][3] = 5
      /\ Variants["FSQRT32CG"][3] = 3 /\ Variants["FSQRT128CG"][3] = 5
      /\ Variants["FCMP32CG"][3] = 3 /\ Variants["FCMP128CG"][3] = 5
      /\ Variants["FMADD32CG"][3] = 3 /\ Variants["FMADD128CG"][3] = 5
      /\ Variants["FMIN32CG"][3] = 3 /\ Variants["FMIN128CG"][3] = 5
      /\ Variants["FCVTI32CG"][3] = 3 /\ Variants["FCVTI128CG"][3] = 5
      /\ Variants["FCVTS32CG"][3] = 3 /\ Variants["FCVTS128CG"][3] = 5
      /\ Variants["FCVTU32CG"][3] = 3 /\ Variants["FCVTU128CG"][3] = 5
      /\ Variants["FLD32CG"][3] = 3 /\ Variants["FLD128CG"][3] = 5
      /\ Variants["FST32CG"][3] = 3 /\ Variants["FST128CG"][3] = 5
  BY SMTT(60) DEF Variants
<1>4. /\ BaseOf["FADD32CG"] = "FADD64" /\ BaseOf["FADD128CG"] = "FADD64"
      /\ BaseOf["FSQRT32CG"] = "FSQRT64" /\ BaseOf["FSQRT128CG"] = "FSQRT64"
      /\ BaseOf["FCMP32CG"] = "FCMP64" /\ BaseOf["FCMP128CG"] = "FCMP64"
      /\ BaseOf["FMADD32CG"] = "FMADD64" /\ BaseOf["FMADD128CG"] = "FMADD64"
      /\ BaseOf["FMIN32CG"] = "FMIN64" /\ BaseOf["FMIN128CG"] = "FMIN64"
      /\ BaseOf["FCVTI32CG"] = "FCVTI64" /\ BaseOf["FCVTI128CG"] = "FCVTI64"
      /\ BaseOf["FCVTS32CG"] = "FCVTS64" /\ BaseOf["FCVTS128CG"] = "FCVTS64"
      /\ BaseOf["FCVTU32CG"] = "FCVTU64" /\ BaseOf["FCVTU128CG"] = "FCVTU64"
      /\ BaseOf["FLD32CG"] = "FLD64" /\ BaseOf["FLD128CG"] = "FLD64"
      /\ BaseOf["FST32CG"] = "FST64" /\ BaseOf["FST128CG"] = "FST64"
  BY SMTT(60) DEF BaseOf
<1>5. DOMAIN Variants \ {"MOVV128"} = {"FADD32CG", "FADD128CG", "FSQRT32CG", "FSQRT128CG", "FCMP32CG", "FCMP128CG"
        , "FMADD32CG", "FMADD128CG", "FMIN32CG", "FMIN128CG", "FCVTI32CG", "FCVTI128CG"
        , "FCVTS32CG", "FCVTS128CG", "FCVTU32CG", "FCVTU128CG", "FLD32CG", "FLD128CG"
        , "FST32CG", "FST128CG"}
  BY SMTT(60) DEF Variants
<1> DEFINE G(v) == \/ Variants[v][3] = 3 /\ ScalarVariants[BaseOf[v]][1] = v
                   \/ Variants[v][3] = 5 /\ ScalarVariants[BaseOf[v]][2] = v
<1>10. G("FADD32CG") /\ G("FADD128CG")
  BY <1>2, <1>3, <1>4
<1>11. G("FSQRT32CG") /\ G("FSQRT128CG")
  BY <1>2, <1>3, <1>4
<1>12. G("FCMP32CG") /\ G("FCMP128CG")
  BY <1>2, <1>3, <1>4
<1>13. G("FMADD32CG") /\ G("FMADD128CG")
  BY <1>2, <1>3, <1>4
<1>14. G("FMIN32CG") /\ G("FMIN128CG")
  BY <1>2, <1>3, <1>4
<1>15. G("FCVTI32CG") /\ G("FCVTI128CG")
  BY <1>2, <1>3, <1>4
<1>16. G("FCVTS32CG") /\ G("FCVTS128CG")
  BY <1>2, <1>3, <1>4
<1>17. G("FCVTU32CG") /\ G("FCVTU128CG")
  BY <1>2, <1>3, <1>4
<1>18. G("FLD32CG") /\ G("FLD128CG")
  BY <1>2, <1>3, <1>4
<1>19. G("FST32CG") /\ G("FST128CG")
  BY <1>2, <1>3, <1>4
<1> HIDE DEF G
<1>6. \A v \in DOMAIN Variants \ {"MOVV128"} : G(v)
  BY <1>5, <1>10, <1>11, <1>12, <1>13, <1>14, <1>15, <1>16, <1>17, <1>18, <1>19
<1> QED
  BY <1>1, <1>6 DEF G

\* The base of a record: its place in the opcode map, and its class.
LEMMA Bases ==
  ASSUME NEW n \in DOMAIN Records
  PROVE /\ BaseName(n) \in DOMAIN Opcodes /\ OpcodeOf(BaseName(n)) = OpcodeOf(n)
        /\ n # "MOVV128" => ClassOf(BaseName(n)) = ClassOf(n)
        /\ n \in DOMAIN Opcodes => WidthOf(n) = 0
        /\ n \notin DOMAIN Opcodes => n \in DOMAIN Variants
        /\ GroupOf(BaseName(n)) = GroupOf(n)
<1>1. CASE n \in DOMAIN Opcodes
  <2>1. WidthOf(n) = 0
    BY <1>1, RecordFields DEF Records, WidthOf
  <2> QED
    BY <1>1, <2>1 DEF BaseName
<1>2. CASE n \notin DOMAIN Opcodes
  <2>1. n \in DOMAIN Variants /\ Records[n] = Variants[n] /\ BaseName(n) = BaseOf[n]
    BY <1>2 DEF Records, BaseName
  <2>2. PICK b : b = BaseOf[n]
    OBVIOUS
  <2>3. b \in DOMAIN Opcodes
    BY <2>1, <2>2, VariantBases
  <2>4. Records[b] = <<Opcodes[b][1], Opcodes[b][2], 0>>
    BY <2>3 DEF Records
  <2>5. OpcodeOf(b) = OpcodeOf(n) /\ (n # "MOVV128" => ClassOf(b) = ClassOf(n))
    BY <2>1, <2>2, <2>3, <2>4, VariantBases DEF OpcodeOf, ClassOf
  <2>6. GroupOf(b) = GroupOf(n)
    <3>1. CASE n = "MOVV128"
      <4>1. ClassOf(n) = "CopyVV"
        BY <2>1, <3>1, SMT DEF Variants, ClassOf
      <4>2. b = "MOVrr"
        BY <2>2, <3>1, SMT DEF BaseOf
      <4>3. ClassOf(b) = "CopyRR"
        BY <2>4, <4>2, SMT DEF Opcodes, ClassOf
      <4>4. Class["CopyVV"][1] = 0 /\ Class["CopyRR"][1] = 0
        BY SMT DEF Class
      <4> QED
        BY <4>1, <4>3, <4>4 DEF GroupOf
    <3>2. CASE n # "MOVV128"
      BY <2>5, <3>2 DEF GroupOf
    <3> QED
      BY <3>1, <3>2
  <2> QED
    BY <1>2, <2>1, <2>2, <2>3, <2>5, <2>6
<1> QED
  BY <1>1, <1>2

\* The form getInstruction reads an instruction by: a move of vectors is told from one of
\* registers by the prefix.
FormFor(n) == IF n = "MOVV128" THEN "CopyVV" ELSE ReadingForm(n)

\* getInstruction after the opcode of a record, which ends at.
Picked(r, bytes, m, ext, control, at, n) ==
  /\ Prefixed(r, bytes, m, ext, control, at)
  /\ r.opcode = BaseName(n) /\ r.name = (IF n = "MOVV128" THEN n ELSE BaseName(n))
  /\ r.form = FormFor(n)

\* No opcode looks like a marker, a prefix or a group.
LEMMA OpcodesBelow == \A n \in DOMAIN Records : OpcodeOf(n) \in 0 .. 219
<1>1. \A n \in DOMAIN Opcodes : Opcodes[n][1] \in 0 .. 219
  BY SMTT(60) DEF Opcodes
<1>2. ASSUME NEW n \in DOMAIN Records PROVE OpcodeOf(n) \in 0 .. 219
  <2>1. PICK b : b = BaseName(n)
    OBVIOUS
  <2>2. b \in DOMAIN Opcodes /\ OpcodeOf(b) = OpcodeOf(n)
    BY <2>1, Bases
  <2>3. OpcodeOf(b) = Opcodes[b][1]
    BY <2>2 DEF OpcodeOf, Records
  <2> QED
    BY <1>1, <2>2, <2>3
<1> QED
  BY <1>2

\* The opcode map at the place of a register move.
LEMMA MovePlace ==
  /\ GroupOf("MOVV128") = 0 /\ OpcodeOf("MOVV128") = 0 /\ BaseName("MOVV128") = "MOVrr"
  /\ <<0, 0>> \in DOMAIN OpcodeMap /\ OpcodeMap[<<0, 0>>] = "MOVrr"
<1>1. "MOVV128" \in DOMAIN Records /\ "MOVV128" \notin DOMAIN Opcodes
  <2>1. "MOVV128" \in DOMAIN Variants
    BY SMT DEF Variants
  <2>2. "MOVV128" \notin DOMAIN Opcodes
    BY SMT DEF Opcodes
  <2> QED
    BY <2>1, <2>2 DEF Records
<1>2. BaseName("MOVV128") = "MOVrr"
  <2>1. BaseOf["MOVV128"] = "MOVrr"
    BY SMT DEF BaseOf
  <2> QED
    BY <1>1, <2>1 DEF BaseName
<1>3. "MOVrr" \in DOMAIN Opcodes /\ Opcodes["MOVrr"] = <<0, "CopyRR">>
  BY SMT DEF Opcodes
<1>4. Records["MOVrr"] = <<0, "CopyRR", 0>>
  <2>1. Records["MOVrr"] = <<Opcodes["MOVrr"][1], Opcodes["MOVrr"][2], 0>>
    BY <1>3 DEF Records
  <2> QED
    BY <1>3, <2>1
<1>5. Class["CopyRR"] = <<0, "CopyRR">>
  BY SMT DEF Class
<1>6. GroupOf("MOVrr") = 0 /\ OpcodeOf("MOVrr") = 0
  BY <1>4, <1>5 DEF GroupOf, ClassOf, OpcodeOf
<1>7. OpcodeKey("MOVrr") = << 0, 0 >>
  BY <1>6 DEF OpcodeKey
<1>8. << 0, 0 >> \in DOMAIN OpcodeMap /\ OpcodeMap[<< 0, 0 >>] = "MOVrr"
  BY <1>3, <1>7, OpcodeMapRead
<1>9. GroupOf("MOVV128") = 0 /\ OpcodeOf("MOVV128") = 0
  BY <1>1, <1>2, <1>6, Bases
<1> QED
  BY <1>2, <1>8, <1>9

\* Behind a vector prefix the opcode of a register move is that of a vector move.
LEMMA VectorMoveRead ==
  ASSUME NEW bytes \in Seq(Byte), NEW p, NEW m, NEW ext, NEW control,
         NEW at \in Nat, Prefixed(p, bytes, m, ext, control, at), Has(bytes, at, << 0 >>),
         p.vector, NEW r, r = ReadOpcode(p), NEW next, next = at + 1
  PROVE Picked(r, bytes, m, ext, control, next, "MOVV128")
<1>1. /\ DOMAIN p = ReadingFields /\ p.ok = TRUE /\ p.bytes = bytes /\ p.at = at
  BY DEF Prefixed
<1>2. At(bytes, at) = 0
  BY HasOne
<1>30. PICK group : group = IF At(p.bytes, p.at) = 255 /\ Holds(p.bytes, p.at, 3)
                            THEN At(p.bytes, p.at + 1) ELSE 0
  OBVIOUS
<1>31. PICK key : key = <<group, At(p.bytes, IF group = 0 THEN p.at ELSE p.at + 2)>>
  BY Zenon
<1>3. /\ group = IF At(p.bytes, p.at) = 255 /\ Holds(p.bytes, p.at, 3)
                 THEN At(p.bytes, p.at + 1) ELSE 0
      /\ key = <<group, At(p.bytes, IF group = 0 THEN p.at ELSE p.at + 2)>>
  BY <1>30, <1>31
<1>4. group = 0 /\ key = << 0, 0 >>
  BY <1>1, <1>2, <1>3
<1>5. key \in DOMAIN OpcodeMap /\ OpcodeMap[key] = "MOVrr"
  BY <1>4, MovePlace
<1>6. r = [p EXCEPT !.at = @ + 1, !.opcode = "MOVrr", !.name = "MOVV128", !.form = "CopyVV"]
  <2>1. r = [p EXCEPT !.at = @ + (IF group = 0 THEN 1 ELSE 3), !.opcode = OpcodeMap[key],
             !.name = IF p.vector /\ OpcodeMap[key] = "MOVrr" THEN "MOVV128" ELSE OpcodeMap[key],
             !.form = IF p.vector /\ OpcodeMap[key] = "MOVrr" THEN "CopyVV"
                      ELSE IF group = 0 THEN DecodeForm[ClassOf(OpcodeMap[key])]
                      ELSE FormTable[group][ClassOf(OpcodeMap[key])]]
    BY <1>1, <1>3, <1>5 DEF ReadOpcode
  <2> QED
    BY <1>4, <1>5, <2>1
<1>7. /\ DOMAIN r = ReadingFields /\ r.ok = TRUE /\ r.bytes = bytes /\ r.at = at + 1
      /\ r.marker = p.marker /\ r.extended = p.extended /\ r.vector = p.vector
      /\ r.width = p.width /\ r.opcode = "MOVrr" /\ r.name = "MOVV128" /\ r.form = "CopyVV"
  BY <1>1, <1>6, ReadingNames, Zenon
<1>8. Prefixed(r, bytes, m, ext, control, next)
  BY <1>7 DEF Prefixed
<1> QED
  BY <1>7, <1>8, MovePlace DEF Picked, FormFor

\* The opcode the emitter wrote leads to its record and form.
LEMMA NameRead ==
  ASSUME NEW bytes \in Seq(Byte), NEW n \in DOMAIN Records, NEW p, NEW m, NEW ext, NEW control,
         NEW at \in Nat, Prefixed(p, bytes, m, ext, control, at),
         NEW code, code = OpcodeAt(n), Has(bytes, at, code),
         n = "MOVV128" => p.vector, n = "MOVrr" => ~p.vector,
         NEW r, r = ReadOpcode(p), NEW next, next = at + Len(code)
  PROVE Picked(r, bytes, m, ext, control, next, n)
<1>1. CASE n = "MOVV128"
  <2>1. code = <<0>> /\ Len(code) = 1
    BY <1>1, MovePlace DEF OpcodeAt
  <2> QED
    BY <1>1, <2>1, VectorMoveRead, Zenon
<1>2. CASE n # "MOVV128"
  <2>1. PICK b : b = BaseName(n)
    OBVIOUS
  <2>2. /\ b \in DOMAIN Opcodes /\ OpcodeOf(b) = OpcodeOf(n) /\ ClassOf(b) = ClassOf(n)
        /\ GroupOf(b) = GroupOf(n)
    BY <1>2, <2>1, Bases
  <2>3. code = OpcodeAt(b) /\ ReadingForm(b) = ReadingForm(n)
    BY <2>2 DEF OpcodeAt, ReadingForm
  <2>4. GroupOf(b) = 0 => OpcodeOf(b) # 255
    <3>1. OpcodeOf(n) # 255
      <4>1. OpcodeOf(n) \in 0 .. 219
        BY OpcodesBelow, Zenon
      <4>2. PICK o \in 0 .. 219 : o = OpcodeOf(n)
        BY <4>1
      <4>3. o # 255
        OBVIOUS
      <4> QED
        BY <4>2, <4>3
    <3> QED
      BY <2>2, <3>1
  <2>5. ~(b = "MOVrr" /\ p.vector)
    <3>1. CASE n \in DOMAIN Opcodes
      BY <2>1, <3>1 DEF BaseName
    <3>2. CASE n \notin DOMAIN Opcodes
      <4>1. n \in DOMAIN Variants \ {"MOVV128"} /\ b = BaseOf[n]
        BY <1>2, <2>1, <3>2, Bases DEF BaseName
      <4>2. b \in DOMAIN ScalarVariants
        BY <4>1, VariantWidths
      <4>3. "MOVrr" \notin DOMAIN ScalarVariants
        BY SMT DEF ScalarVariants
      <4> QED
        BY <4>2, <4>3
    <3> QED
      BY <3>1, <3>2
  <2>6. Chosen(r, bytes, m, ext, control, next, b)
    BY <2>2, <2>3, <2>4, <2>5, OpcodeRead
  <2> QED
    BY <1>2, <2>1, <2>3, <2>6 DEF Chosen, Picked, FormFor
<1> QED
  BY <1>1, <1>2

-----------------------------------------------------------------------------
(* Instructions of two registers, read by getInstruction.                  *)
\* The tail of RegForm comes after the rest.
TailLast(control, opcode, reg, rm, tail) ==
  Len(RegForm(control, opcode, reg, rm, tail))
    = Len(RegForm(control, opcode, reg, rm, <<>>)) + Len(tail)

\* RegForm ends with its tail.
LEMMA RegFormTail ==
  ASSUME NEW control \in 0 .. 127, NEW opcode \in Seq(Byte), NEW reg \in 0 .. 31,
         NEW rm \in 0 .. 31, NEW tail \in Seq(Byte)
  PROVE TailLast(control, opcode, reg, rm, tail)
<1>1. PICK ext \in BOOLEAN : ext <=> (reg > 7 \/ rm > 7)
  BY Zenon
<1>2. PICK modrm, orex, pre : /\ modrm = 192 + 8 * Low3(reg) + Low3(rm)
                              /\ orex = High2(reg) + 4 * High2(rm)
                              /\ pre = Prefix(ext, control)
  OBVIOUS
<1>3. PICK x : x = IF ext THEN <<orex>> ELSE <<>>
  BY Zenon
<1>4. modrm \in Byte /\ orex \in Byte
  <2>1. PairFields(modrm, orex, reg, rm)
    BY <1>2, PairBits, Zenon
  <2> QED
    BY <2>1 DEF PairFields, Byte
<1>5. /\ pre \in Seq(Byte) /\ <<modrm>> \in Seq(Byte) /\ x \in Seq(Byte) /\ <<>> \in Seq(Byte)
  <2>1. pre \in Seq(Byte)
    BY <1>2, PrefixString, Zenon
  <2> QED
    BY <1>3, <1>4, <2>1, NoBytes, SingleByte
<1>6. PICK s1, s2, s3 : s1 = pre \o opcode /\ s2 = s1 \o <<modrm>> /\ s3 = s2 \o x
  BY Zenon
<1>7. s3 \in Seq(Byte)
  <2>1. s1 \in Seq(Byte)
    BY <1>5, <1>6, ConcatLen
  <2>2. s2 \in Seq(Byte)
    BY <1>5, <1>6, <2>1, ConcatLen
  <2> QED
    BY <1>5, <1>6, <2>2, ConcatLen
<1>8. RegForm(control, opcode, reg, rm, tail) = s3 \o tail
  BY <1>1, <1>2, <1>3, <1>6, Zenon DEF RegForm
<1>9. RegForm(control, opcode, reg, rm, <<>>) = s3 \o <<>>
  BY <1>1, <1>2, <1>3, <1>6, Zenon DEF RegForm
<1>10. Len(s3 \o tail) = Len(s3) + Len(tail) /\ Len(s3 \o <<>>) = Len(s3) + 0
  BY <1>5, <1>7, ConcatLen, NoBytes
<1>11. Len(s3) \in Nat
  BY <1>7, LenProperties
<1> QED
  BY <1>8, <1>9, <1>10, <1>11 DEF TailLast

\* The forms without ModR/M.
ShortBodys == {"NoOperand", "TrapImm", "FrameImm", "Branch"}

\* getInstruction after ModR/M of an instruction with two register fields.
RegState(f, bytes, i, a, b, vec, p) ==
  /\ DOMAIN f = ReadingFields /\ f.ok = TRUE /\ f.bytes = bytes /\ f.at = p
  /\ f.marker = i.marker /\ (f.vector <=> vec)
  /\ f.opcode = BaseName(i.name)
  /\ f.name = (IF i.name = "MOVV128" THEN i.name ELSE BaseName(i.name))
  /\ f.form = FormFor(i.name) /\ f.reg = a /\ f.rm = b

\* What is left to read: the tail, up to the end of the instruction.
RegOpened(bytes, i, a, b, vec, tail, end, r, is64, p, f) ==
  /\ p \in Nat /\ Has(bytes, p, tail) /\ end = p + Len(tail)
  /\ RegState(f, bytes, i, a, b, vec, p)
  /\ r = ReadOperands(ScalarName(ReadVectorCtl(f)), is64)

\* The instructions the prefix tells apart have the prefix they need.
PrefixFits(n, vec) == (n = "MOVV128" => vec) /\ (n = "MOVrr" => ~vec)

\* No opcode is a prefix byte.
LEMMA NoPrefixByte ==
  ASSUME NEW o \in 0 .. 219
  PROVE o # 253 /\ o # 254
  OBVIOUS

\* An instruction the emitter wrote with RegForm is read up to its tail.
LEMMA RegFormRead ==
  ASSUME NEW bytes \in Seq(Byte), NEW i, i.name \in DOMAIN Records,
         NEW at, Marked(bytes, 0, i.marker, at), NEW vec \in BOOLEAN,
         NEW control, control = (IF vec THEN 64 ELSE 0), PrefixFits(i.name, vec),
         FormFor(i.name) \notin MemoryForms, FormFor(i.name) \notin ShortBodys,
         NEW a \in 0 .. 31, NEW b \in 0 .. 31, NEW tail \in Seq(Byte),
         NEW s, s = RegForm(control, OpcodeBytes(i), a, b, tail), Has(bytes, at, s),
         NEW end, end = at + Len(s), NEW is64, NEW r, r = GetInstruction(bytes, is64)
  PROVE \E p, f : RegOpened(bytes, i, a, b, vec, tail, end, r, is64, p, f)
<1>1. PICK m, n, code : m = i.marker /\ n = i.name /\ code = OpcodeBytes(i)
  OBVIOUS
<1>2. m \in 0 .. 10 /\ at = 0 + Len(MarkBytes(m)) /\ at \in Nat /\ Has(bytes, 0, MarkBytes(m))
  BY <1>1, MarkLength DEF Marked
<1>3. code = OpcodeAt(n) /\ code \in Seq(Byte) /\ Len(code) > 0 /\ Len(code) \in Nat
  <2>1. code = OpcodeAt(n)
    BY <1>1 DEF OpcodeBytes, OpcodeAt
  <2>2. code \in Seq(Byte) /\ Len(code) > 0
    BY <1>1, OpcodeString
  <2> QED
    BY <2>1, <2>2, LenProperties
<1>4. PICK ext \in BOOLEAN : ext <=> (a > 7 \/ b > 7)
  BY Zenon
<1>5. control \in 0 .. 127 /\ control % 8 = 0 /\ (vec <=> (control \div 64) % 2 = 1)
  <2>1. CASE vec
    <3>1. control = 64
      BY <2>1
    <3> QED
      BY <2>1, <3>1
  <2>2. CASE ~vec
    <3>1. control = 0
      BY <2>2
    <3> QED
      BY <2>2, <3>1
  <2> QED
    BY <2>1, <2>2
<1>6. PICK pre : pre = Prefix(ext, control)
  OBVIOUS
<1>7. PICK q, next, p : q = at + Len(pre) /\ next = q + Len(code) /\ p = next + PairSize(ext)
  OBVIOUS
<1>8. RegFormAt(bytes, at, control, code, a, b, tail, ext, q)
  <2>1. Has(bytes, at, RegForm(control, code, a, b, tail))
    BY <1>1
  <2>2. q = at + Len(Prefix(ext, control))
    BY <1>6, <1>7
  <2> QED
    BY <1>2, <1>3, <1>4, <1>5, <2>1, <2>2, RegFormHas, Zenon
<1>9. /\ q \in Nat /\ Has(bytes, at, pre) /\ Has(bytes, q, code)
      /\ PairAt(bytes, next, a, b, ext) /\ Has(bytes, p, tail)
      /\ Len(RegForm(control, code, a, b, <<>>)) = (q - at) + Len(code) + PairSize(ext)
  BY <1>6, <1>7, <1>8 DEF RegFormAt
<1>10. next \in Nat /\ p \in Nat
  BY <1>3, <1>7, <1>9 DEF PairSize
<1>11. end = p + Len(tail)
  <2>1. PICK k, l, d, z : /\ k = Len(RegForm(control, code, a, b, <<>>)) /\ l = Len(tail)
                          /\ d = PairSize(ext) /\ z = Len(code)
    BY Zenon
  <2>20. s = RegForm(control, code, a, b, tail)
    BY <1>1
  <2>21. Len(RegForm(control, code, a, b, tail)) = Len(RegForm(control, code, a, b, <<>>)) + Len(tail)
    <3>1. control \in 0 .. 127
      BY <1>5
    <3>2. code \in Seq(Byte)
      BY <1>3
    <3>3. TailLast(control, code, a, b, tail)
      BY <3>1, <3>2, RegFormTail, ZenonT(60)
    <3> QED
      BY <3>3 DEF TailLast
  <2>2. Len(s) = k + l
    BY <2>1, <2>20, <2>21
  <2>3. l \in Nat /\ d \in Nat /\ z \in Nat
    BY <1>3, <2>1, LenProperties DEF PairSize
  <2>4. k = (q - at) + z + d /\ p = q + z + d
    BY <1>7, <1>9, <2>1
  <2>5. at \in Nat /\ q \in Nat
    BY <1>2, <1>9
  <2>6. PICK e : e = Len(s)
    OBVIOUS
  <2>7. end = at + e /\ e = k + l
    BY <2>2, <2>6
  <2>8. end = p + l
    BY <2>3, <2>4, <2>5, <2>7
  <2> QED
    BY <2>1, <2>8
<1>12. Leads(bytes, 0, m, ext, control, q)
  <2>1. code[1] \notin {253, 254}
    <3>1. OpcodeOf(n) \in 0 .. 219
      BY <1>1, OpcodesBelow, Zenon
    <3>2. PICK o \in 0 .. 219 : o = OpcodeOf(n)
      BY <3>1
    <3>3. code[1] = o \/ code[1] = 255
      BY <1>3, <3>2 DEF OpcodeAt
    <3>4. o # 253 /\ o # 254
      BY NoPrefixByte, Zenon
    <3>5. PICK c : c = code[1]
      OBVIOUS
    <3>6. c = o \/ c = 255
      BY <3>3, <3>5
    <3>7. c # 253 /\ c # 254
      BY <3>4, <3>6
    <3> QED
      BY <3>5, <3>7
  <2>20. 1 \in 1 .. Len(code)
    BY <1>3 DEF OpcodeAt
  <2>21. /\ q + Len(code) <= Len(bytes)
         /\ \A k \in 1 .. Len(code) : At(bytes, q + k - 1) = code[k]
    BY <1>9 DEF Has
  <2>2. At(bytes, q + 1 - 1) = code[1] /\ q + Len(code) <= Len(bytes)
    BY <2>20, <2>21, Zenon
  <2>3. q + 1 - 1 = q /\ q < Len(bytes)
    BY <1>3, <1>9, <2>2, LenProperties
  <2>4. PICK op : op = At(bytes, q)
    OBVIOUS
  <2>5. op \notin {253, 254}
    BY <2>1, <2>2, <2>3, <2>4
  <2>6. Has(bytes, at, Prefix(ext, control)) /\ q = at + Len(Prefix(ext, control))
    BY <1>6, <1>7, <1>9
  <2>7. 0 \in Nat /\ q \in Nat /\ At(bytes, q) = op
    BY <1>9, <2>4
  <2>8. PICK mark : mark = MarkBytes(m)
    OBVIOUS
  <2>9. 0 + Len(mark) = at /\ q < Len(bytes) /\ At(bytes, q) \notin {253, 254} /\ Has(bytes, 0, mark)
    BY <1>2, <2>3, <2>4, <2>5, <2>8
  <2> QED
    BY <2>6, <2>8, <2>9, Zenon DEF Leads, MarkBytes
<1>13. PICK x, c, f : x = ReadPrefixes(bytes) /\ c = ReadOpcode(x) /\ f = ReadModRM(c)
  OBVIOUS
<1>14. Prefixed(x, bytes, m, ext, control, q)
  BY <1>2, <1>5, <1>12, <1>13, PrefixesRead
<1>15. x.vector <=> vec
  BY <1>5, <1>14 DEF Prefixed
<1>16. Picked(c, bytes, m, ext, control, next, n)
  <2>1. n = "MOVV128" => x.vector
    BY <1>1, <1>15 DEF PrefixFits
  <2>2. n = "MOVrr" => ~x.vector
    BY <1>1, <1>15 DEF PrefixFits
  <2>3. n \in DOMAIN Records
    BY <1>1
  <2> QED
    BY <1>3, <1>7, <1>9, <1>13, <1>14, <2>1, <2>2, <2>3, NameRead, Zenon
<1>17. Prefixed(c, bytes, m, ext, control, next) /\ c.form = FormFor(n) /\ c.opcode = BaseName(n)
         /\ c.name = (IF n = "MOVV128" THEN n ELSE BaseName(n))
  BY <1>16 DEF Picked
<1>18. Paired(f, c, bytes, m, ext, control, p, a, b)
  <2>1. c.form \notin MemoryForms
    BY <1>1, <1>17
  <2>2. next \in Nat /\ p = next + PairSize(ext) /\ PairAt(bytes, next, a, b, ext) /\ f = ReadModRM(c)
    BY <1>7, <1>9, <1>10, <1>13
  <2> QED
    BY <1>17, <2>1, <2>2, PairRead, ZenonT(60)
<1>19. RegState(f, bytes, i, a, b, vec, p)
  BY <1>1, <1>5, <1>17, <1>18 DEF Paired, Prefixed, RegState
<1>20. r = ReadOperands(ScalarName(ReadVectorCtl(f)), is64)
  <2>1. r = ReadInstruction(c, is64)
    BY <1>13 DEF GetInstruction
  <2>2. c.ok = TRUE /\ c.form \notin {"NoOperand", "TrapImm", "FrameImm", "Branch"}
    BY <1>1, <1>17 DEF Prefixed, ShortBodys
  <2> QED
    BY <1>13, <2>1, <2>2 DEF ReadInstruction, ReadWithModRM
<1> QED
  BY <1>9, <1>10, <1>11, <1>19, <1>20, Zenon DEF RegOpened

-----------------------------------------------------------------------------
(* The record an instruction is read as, from its opcode and its width.    *)
\* The lanes VectorCtl announces for a record.
LaneOf(n) == IF WidthOf(n) # 0 THEN WidthOf(n) - 1 ELSE 3

\* The classes of the records that are read by name or by class alone.
LEMMA NamedRecords ==
  /\ ClassOf("MOVrr") = "CopyRR" /\ ClassOf("MOVV128") = "CopyVV"
  /\ ClassOf("FLD64") = "FPXLoad" /\ ClassOf("FST64") = "FPXStore"
  /\ \A n \in DOMAIN Records : ClassOf(n) = "CopyVV" => n = "MOVV128"
  /\ "MOVrr" \notin DOMAIN ScalarVariants /\ {"FLD64", "FST64"} \subseteq DOMAIN ScalarVariants
<1>1. "MOVrr" \in DOMAIN Opcodes /\ "FLD64" \in DOMAIN Opcodes /\ "FST64" \in DOMAIN Opcodes
  BY SMTT(60) DEF Opcodes
<1>2. Opcodes["MOVrr"][2] = "CopyRR" /\ Opcodes["FLD64"][2] = "FPXLoad" /\ Opcodes["FST64"][2] = "FPXStore"
  BY SMTT(60) DEF Opcodes
<1>3. \A n \in DOMAIN Opcodes : ClassOf(n) = Opcodes[n][2]
  BY DEF ClassOf, Records
<1>4. \A n \in DOMAIN Opcodes : Opcodes[n][2] # "CopyVV"
  BY SMTT(60) DEF Opcodes
<1>5. \A n \in DOMAIN Variants : n # "MOVV128" => Variants[n][2] # "CopyVV"
  BY SMTT(60) DEF Variants
<1>6. "MOVV128" \in DOMAIN Variants /\ Variants["MOVV128"][2] = "CopyVV"
  BY SMTT(60) DEF Variants
<1>7. "MOVV128" \notin DOMAIN Opcodes
  BY SMTT(60) DEF Opcodes
<1>8. ClassOf("MOVV128") = "CopyVV"
  BY <1>6, <1>7 DEF ClassOf, Records
<1>9. ASSUME NEW n \in DOMAIN Records, ClassOf(n) = "CopyVV" PROVE n = "MOVV128"
  <2>1. CASE n \in DOMAIN Opcodes
    BY <1>3, <1>4, <1>9, <2>1
  <2>2. CASE n \notin DOMAIN Opcodes
    <3>1. n \in DOMAIN Variants /\ ClassOf(n) = Variants[n][2]
      BY <2>2 DEF ClassOf, Records
    <3> QED
      BY <1>5, <1>9, <3>1
  <2> QED
    BY <2>1, <2>2
<1>10. "MOVrr" \notin DOMAIN ScalarVariants /\ {"FLD64", "FST64"} \subseteq DOMAIN ScalarVariants
  BY SMTT(60) DEF ScalarVariants
<1> QED
  BY <1>1, <1>2, <1>3, <1>8, <1>9, <1>10

\* Without VectorCtl the record is the one at the opcode.
LEMMA PlainRecord ==
  ASSUME NEW n \in DOMAIN Opcodes, ClassOf(n) \notin {"FPXLoad", "FPXStore"},
         NEW c, c.opcode = BaseName(n), c.name = (IF n = "MOVV128" THEN n ELSE BaseName(n)), ~c.vector
  PROVE ScalarRecord(c) = n
<1>1. n # "MOVV128" /\ c.name = n /\ c.opcode = n
  <2>1. "MOVV128" \notin DOMAIN Opcodes
    BY SMTT(60) DEF Opcodes
  <2> QED
    BY <2>1 DEF BaseName
<1>2. n \notin {"FLD64", "FST64"}
  BY NamedRecords
<1> QED
  BY <1>1, <1>2 DEF ScalarRecord

\* The lanes tell the binary32 and binary128 records from the binary64 one.
LEMMA LaneRecord ==
  ASSUME NEW n \in DOMAIN Records, ClassOf(n) \notin {"FPXLoad", "FPXStore"},
         NEW c, c.opcode = BaseName(n), c.name = (IF n = "MOVV128" THEN n ELSE BaseName(n)),
         c.vector, c.lane = LaneOf(n)
  PROVE ScalarRecord(c) = n
<1>1. CASE n = "MOVV128"
  <2>1. c.opcode = "MOVrr" /\ c.name = n /\ "MOVrr" \notin DOMAIN ScalarVariants
    BY <1>1, MovePlace, NamedRecords
  <2>2. c.lane = 3
    <3>1. Variants["MOVV128"] = <<0, "CopyVV", 0>> /\ "MOVV128" \notin DOMAIN Opcodes
      <4>1. Variants["MOVV128"] = <<0, "CopyVV", 0>>
        BY SMTT(60) DEF Variants
      <4>2. "MOVV128" \notin DOMAIN Opcodes
        BY SMTT(60) DEF Opcodes
      <4> QED
        BY <4>1, <4>2
    <3>2. WidthOf(n) = 0
      BY <1>1, <3>1 DEF WidthOf, Records
    <3> QED
      BY <3>2 DEF LaneOf
  <2>3. "MOVrr" \notin {"FLD64", "FST64"}
    OBVIOUS
  <2> QED
    BY <2>1, <2>2, <2>3 DEF ScalarRecord
<1>2. CASE n \in DOMAIN Opcodes
  <2>1. n # "MOVV128"
    BY <1>2, SMTT(60) DEF Opcodes
  <2>2. c.name = n /\ c.opcode = n /\ n \notin {"FLD64", "FST64"}
    BY <1>2, <2>1, NamedRecords DEF BaseName
  <2>3. c.lane = 3
    BY <1>2, Bases DEF LaneOf
  <2> QED
    BY <2>2, <2>3 DEF ScalarRecord
<1>3. CASE n # "MOVV128" /\ n \notin DOMAIN Opcodes
  <2>1. n \in DOMAIN Variants \ {"MOVV128"} /\ c.opcode = BaseOf[n]
    BY <1>3, Bases DEF BaseName
  <2>2. PICK b : b = BaseOf[n]
    OBVIOUS
  <2>3. /\ b \in DOMAIN ScalarVariants
        /\ \/ Variants[n][3] = 3 /\ ScalarVariants[b][1] = n
           \/ Variants[n][3] = 5 /\ ScalarVariants[b][2] = n
    BY <2>1, <2>2, VariantWidths
  <2>4. WidthOf(n) = Variants[n][3]
    BY <1>3, <2>1 DEF WidthOf, Records
  <2>5. ClassOf(b) = ClassOf(n)
    BY <1>3, <2>1, <2>2, Bases DEF BaseName
  <2>6. b \notin {"FLD64", "FST64"}
    BY <2>5, NamedRecords
  <2>7. CASE Variants[n][3] = 3 /\ ScalarVariants[b][1] = n
    <3>1. c.lane = 2
      BY <2>4, <2>7 DEF LaneOf
    <3> QED
      BY <2>1, <2>2, <2>3, <2>6, <2>7, <3>1 DEF ScalarRecord
  <2>8. CASE Variants[n][3] = 5 /\ ScalarVariants[b][2] = n
    <3>1. c.lane = 4
      BY <2>4, <2>8 DEF LaneOf
    <3> QED
      BY <2>1, <2>2, <2>3, <2>6, <2>8, <3>1 DEF ScalarRecord
  <2> QED
    BY <2>3, <2>7, <2>8
<1> QED
  BY <1>1, <1>2, <1>3

\* getInstruction before the operands of an instruction with two register fields.
RegReady(g, bytes, i, a, b, vec, p) ==
  /\ DOMAIN g = ReadingFields /\ g.ok = TRUE /\ g.bytes = bytes /\ g.at = p
  /\ g.marker = i.marker /\ (g.vector <=> vec) /\ g.name = i.name
  /\ g.form = FormFor(i.name) /\ g.reg = a /\ g.rm = b

\* VectorCtl announces one of three lanes.
LEMMA LaneRange ==
  ASSUME NEW n \in DOMAIN Records
  PROVE LaneOf(n) \in {2, 3, 4} /\ 8 * LaneOf(n) \in Byte
<1>1. WidthOf(n) \in {0, 3, 5}
  BY RecordRange
<1>2. LaneOf(n) \in {2, 3, 4}
  BY <1>1 DEF LaneOf
<1>3. 8 * 2 \in Byte /\ 8 * 3 \in Byte /\ 8 * 4 \in Byte
  BY DEF Byte
<1> QED
  BY <1>2, <1>3

\* The byte of the lanes of a record.
LEMMA LaneByte ==
  ASSUME NEW i, i.name \in DOMAIN Records
  PROVE ScalarVectorCtl(i) = 8 * LaneOf(i.name)
<1>1. WidthOf(i.name) \in {0, 3, 5}
  BY RecordRange
<1> QED
  BY <1>1 DEF LaneOf, ScalarVectorCtl

\* Without VectorCtl nothing but the name is found after the registers.
LEMMA PlainReady ==
  ASSUME NEW f, NEW bytes, NEW i, i.name \in DOMAIN Opcodes,
         ClassOf(i.name) \notin {"FPXLoad", "FPXStore"}, NEW a, NEW b, NEW p,
         RegState(f, bytes, i, a, b, FALSE, p), NEW g, g = ScalarName(ReadVectorCtl(f))
  PROVE RegReady(g, bytes, i, a, b, FALSE, p)
<1>1. PICK n : n = i.name
  OBVIOUS
<1>2. /\ f.ok = TRUE /\ ~f.vector /\ DOMAIN f = ReadingFields /\ f.opcode = BaseName(n)
      /\ f.name = (IF n = "MOVV128" THEN n ELSE BaseName(n))
  BY <1>1 DEF RegState
<1>3. ReadVectorCtl(f) = f
  BY <1>2 DEF ReadVectorCtl
<1>4. ScalarRecord(f) = n
  BY <1>1, <1>2, PlainRecord
<1>5. g = [f EXCEPT !.name = n]
  BY <1>2, <1>3, <1>4 DEF ScalarName
<1>6. /\ DOMAIN g = ReadingFields /\ g.ok = f.ok /\ g.bytes = f.bytes /\ g.at = f.at
      /\ g.marker = f.marker /\ g.vector = f.vector /\ g.name = n /\ g.form = f.form
      /\ g.reg = f.reg /\ g.rm = f.rm
  BY <1>2, <1>5, ReadingNames
<1> QED
  BY <1>1, <1>6 DEF RegState, RegReady

\* VectorCtl tells the lanes, and with them the name.
LEMMA VectorReady ==
  ASSUME NEW f, NEW bytes, NEW i, i.name \in DOMAIN Records,
         ClassOf(i.name) \notin {"FPXLoad", "FPXStore"}, NEW a, NEW b, NEW p \in Nat,
         RegState(f, bytes, i, a, b, TRUE, p), NEW next, next = p + 1, next <= Len(bytes),
         At(bytes, p) = 8 * LaneOf(i.name), NEW g, g = ScalarName(ReadVectorCtl(f))
  PROVE RegReady(g, bytes, i, a, b, TRUE, next)
<1>1. PICK n, lane : n = i.name /\ lane = LaneOf(i.name)
  OBVIOUS
<1>2. /\ f.ok = TRUE /\ f.vector /\ DOMAIN f = ReadingFields /\ f.opcode = BaseName(n)
      /\ f.name = (IF n = "MOVV128" THEN n ELSE BaseName(n)) /\ f.bytes = bytes /\ f.at = p
  BY <1>1 DEF RegState
<1>3. lane \in {2, 3, 4}
  BY <1>1, LaneRange
<1>4. PICK control : control = At(f.bytes, f.at)
  OBVIOUS
<1>5. control = 8 * lane
  BY <1>1, <1>2, <1>4
<1>6. control % 8 = 0 /\ ~(control >= 64) /\ control \div 8 = lane
  BY <1>3, <1>5
<1>7. PICK h : h = ReadVectorCtl(f)
  OBVIOUS
<1>8. h = [f EXCEPT !.at = @ + 1, !.lane = lane]
  <2>1. Holds(f.bytes, f.at, 1)
    BY <1>2 DEF Holds
  <2>2. h = [f EXCEPT !.at = @ + 1, !.lane = control \div 8]
    BY <1>2, <1>4, <1>6, <1>7, <2>1 DEF ReadVectorCtl
  <2> QED
    BY <1>6, <2>2, Zenon
<1>9. /\ DOMAIN h = ReadingFields /\ h.ok = f.ok /\ h.bytes = f.bytes /\ h.at = p + 1
      /\ h.marker = f.marker /\ h.vector = f.vector /\ h.name = f.name /\ h.form = f.form
      /\ h.reg = f.reg /\ h.rm = f.rm /\ h.lane = lane /\ h.opcode = f.opcode
  BY <1>2, <1>8, ReadingNames, Zenon
<1>10. ScalarRecord(h) = n
  BY <1>1, <1>2, <1>9, LaneRecord, Zenon
<1>11. g = [h EXCEPT !.name = n]
  BY <1>2, <1>7, <1>9, <1>10 DEF ScalarName
<1>12. /\ DOMAIN g = ReadingFields /\ g.ok = h.ok /\ g.bytes = h.bytes /\ g.at = h.at
      /\ g.marker = h.marker /\ g.vector = h.vector /\ g.name = n /\ g.form = h.form
      /\ g.reg = h.reg /\ g.rm = h.rm
  BY <1>9, <1>11, ReadingNames
<1> QED
  BY <1>1, <1>9, <1>12 DEF RegState, RegReady

\* The bytes of an instruction behind its marker, and what getInstruction makes of them.
Starts(bytes, i, is64, s, at, end, r) ==
  /\ bytes \in Seq(Byte) /\ i.name \in DOMAIN Records /\ is64 \in BOOLEAN
  /\ Marked(bytes, 0, i.marker, at) /\ Has(bytes, at, s) /\ end = at + Len(s)
  /\ r = GetInstruction(bytes, is64)

\* What encodeInstruction wrote for an instruction, and what getInstruction makes of it.
Emits(bytes, i, source, is64, body, at, end, r) ==
  /\ Filled(i, source) /\ body = EmitBody(i, is64) /\ body.ok
  /\ Starts(bytes, i, is64, body.bytes, at, end, r)

\* What is left of the bytes for the operands.
RegLeft(g, bytes, i, a, b, vec, p, rest, end, r, is64) ==
  /\ p \in Nat /\ Has(bytes, p, rest) /\ end = p + Len(rest) /\ bytes \in Seq(Byte)
  /\ RegReady(g, bytes, i, a, b, vec, p) /\ r = ReadOperands(g, is64)

\* The classes getInstruction reads by ModR/M with two registers.
RegisterRead(n) == FormFor(n) \notin MemoryForms /\ FormFor(n) \notin ShortBodys

\* The classes of which some records have no place of their own.
VariantClasses ==
  {"CopyVV", "FPBinary", "FPUnary", "FPCompare", "FPXFused", "FPXBinary", "IntToFP", "FPToInt",
   "FPXLoad", "FPXStore"}

\* The other classes have their own places.
LEMMA OwnPlace ==
  ASSUME NEW n \in DOMAIN Records, ClassOf(n) \notin VariantClasses
  PROVE n \in DOMAIN Opcodes
<1>1. \A v \in DOMAIN Variants : Variants[v][2] \in VariantClasses
  BY SMTT(60) DEF Variants, VariantClasses
<1>2. CASE n \notin DOMAIN Opcodes
  <2>1. n \in DOMAIN Variants /\ ClassOf(n) = Variants[n][2]
    BY <1>2 DEF ClassOf, Records
  <2> QED
    BY <1>1, <2>1
<1> QED
  BY <1>2

\* RegForm without VectorCtl is read up to its tail.
LEMMA PlainForm ==
  ASSUME NEW bytes, NEW i, NEW is64, NEW s, NEW at, NEW end, NEW r,
         Starts(bytes, i, is64, s, at, end, r), ClassOf(i.name) \notin VariantClasses,
         RegisterRead(i.name), NEW a \in 0 .. 31, NEW b \in 0 .. 31, NEW tail \in Seq(Byte),
         s = RegForm(0, OpcodeBytes(i), a, b, tail)
  PROVE \E p, g : RegLeft(g, bytes, i, a, b, FALSE, p, tail, end, r, is64)
<1> USE DEF Starts
<1>1. PICK control, vec : control = 0 /\ vec = FALSE
  BY Zenon
<1>2. vec \in BOOLEAN /\ control = (IF vec THEN 64 ELSE 0)
  BY <1>1, Zenon
<1>3. PrefixFits(i.name, vec)
  BY <1>1, NamedRecords DEF PrefixFits, VariantClasses
<1>4. /\ s = RegForm(control, OpcodeBytes(i), a, b, tail) /\ Has(bytes, at, s)
      /\ end = at + Len(s)
  BY <1>1
<1>5. PICK p, f : RegOpened(bytes, i, a, b, vec, tail, end, r, is64, p, f)
  BY <1>2, <1>3, <1>4, RegFormRead, Zenon DEF RegisterRead
<1>6. /\ p \in Nat /\ Has(bytes, p, tail) /\ end = p + Len(tail)
      /\ RegState(f, bytes, i, a, b, FALSE, p)
      /\ r = ReadOperands(ScalarName(ReadVectorCtl(f)), is64)
  BY <1>1, <1>5, Zenon DEF RegOpened
<1>7. PICK g : g = ScalarName(ReadVectorCtl(f))
  OBVIOUS
<1>8. RegReady(g, bytes, i, a, b, FALSE, p)
  <2>1. i.name \in DOMAIN Opcodes /\ ClassOf(i.name) \notin {"FPXLoad", "FPXStore"}
    BY OwnPlace DEF VariantClasses
  <2> QED
    BY <1>6, <1>7, <2>1, PlainReady, Zenon
<1> QED
  BY <1>6, <1>7, <1>8, Zenon DEF RegLeft

\* RegForm with VectorCtl is read up to what follows the lanes.
LEMMA VectorForm ==
  ASSUME NEW bytes, NEW i, NEW is64, NEW s, NEW at, NEW end, NEW r,
         Starts(bytes, i, is64, s, at, end, r),
         ClassOf(i.name) \notin {"CopyRR", "FPXLoad", "FPXStore"},
         RegisterRead(i.name), NEW a \in 0 .. 31, NEW b \in 0 .. 31, NEW rest \in Seq(Byte),
         NEW lanes, lanes = 8 * LaneOf(i.name),
         s = RegForm(64, OpcodeBytes(i), a, b, <<lanes>> \o rest)
  PROVE \E p, g : RegLeft(g, bytes, i, a, b, TRUE, p, rest, end, r, is64)
<1> USE DEF Starts
<1>1. PICK control, vec, tail, one :
        control = 64 /\ vec = TRUE /\ tail = one \o rest /\ one = <<lanes>>
  BY Zenon
<1>2. vec \in BOOLEAN /\ control = (IF vec THEN 64 ELSE 0)
  BY <1>1
<1>3. PrefixFits(i.name, vec)
  BY <1>1, NamedRecords DEF PrefixFits
<1>4. /\ s = RegForm(control, OpcodeBytes(i), a, b, tail) /\ Has(bytes, at, s)
      /\ end = at + Len(s)
  BY <1>1
<1>41. lanes \in Byte
  BY LaneRange
<1>42. one \in Seq(Byte) /\ Len(one) = 1
  BY <1>1, <1>41, SingleByte
<1>43. PICK k : k = Len(rest)
  OBVIOUS
<1>44. tail \in Seq(Byte) /\ Len(tail) = Len(one) + k
  BY <1>1, <1>42, <1>43, ConcatLen
<1>5. PICK q, f : RegOpened(bytes, i, a, b, vec, tail, end, r, is64, q, f)
  BY <1>2, <1>3, <1>4, <1>44, RegFormRead, Zenon DEF RegisterRead
<1>6. /\ q \in Nat /\ Has(bytes, q, tail) /\ end = q + Len(tail)
      /\ RegState(f, bytes, i, a, b, TRUE, q)
      /\ r = ReadOperands(ScalarName(ReadVectorCtl(f)), is64)
  BY <1>1, <1>5, Zenon DEF RegOpened
<1>7. PICK g, p : g = ScalarName(ReadVectorCtl(f)) /\ p = q + 1
  OBVIOUS
<1>8. Has(bytes, q, one) /\ Has(bytes, q + Len(one), rest)
  BY <1>1, <1>42, <1>6, HasConcat, Zenon
<1>9. Has(bytes, p, rest) /\ p \in Nat
  BY <1>42, <1>6, <1>7, <1>8
<1>10. At(bytes, q) = lanes /\ q + 1 <= Len(bytes)
  BY <1>1, <1>6, <1>8, HasOne
<1>11. RegReady(g, bytes, i, a, b, TRUE, p)
  BY <1>6, <1>7, <1>10, VectorReady, Zenon
<1>12. end = p + Len(rest)
  <2>1. k \in Nat
    BY <1>43, LenProperties
  <2> QED
    BY <1>42, <1>43, <1>44, <1>6, <1>7, <2>1
<1> QED
  BY <1>6, <1>7, <1>9, <1>11, <1>12, Zenon DEF RegLeft

-----------------------------------------------------------------------------
(* Instructions of registers and immediates come back as they were         *)
(* written.                                                                *)
\* An operand read is the one written; a label stands for any number, and an object of
\* 32-bit addresses keeps the low half.
Agrees(written, found, is64) ==
  \/ written[1] = "x"
  \/ written = found
  \/ ~is64 /\ written[1] = "i" /\ found[1] = "i" /\ written[2] = found[2]

\* What was read is the instruction that was written.
SameAs(r, i, end, is64) ==
  /\ r.ok = TRUE /\ r.name = i.name /\ r.marker = i.marker /\ r.size = end
  /\ Len(r.ops) = Len(i.ops) /\ \A k \in 1 .. Len(i.ops) : Agrees(i.ops[k], r.ops[k], is64)

\* An instruction read with the operands that were written.
LEMMA SuccessSame ==
  ASSUME NEW g, NEW i, g.name = i.name, g.marker = i.marker,
         NEW ops, NEW end, NEW r, r = Success(g, ops, end), NEW is64,
         Len(ops) = Len(i.ops), \A k \in 1 .. Len(i.ops) : Agrees(i.ops[k], ops[k], is64)
  PROVE SameAs(r, i, end, is64)
<1>1. r.ok = TRUE /\ r.name = g.name /\ r.marker = g.marker /\ r.ops = ops /\ r.size = end
  BY DEF Success
<1> QED
  BY <1>1 DEF SameAs

\* A register of a statement is a register operand.
LEMMA RegisterKind ==
  ASSUME NEW ops, NEW k, HoldsKind("r", ops, k)
  PROVE ops[k] = GPR(ops[k][2]) /\ ops[k][2] \in 0 .. 31 /\ ops[k][2] \in Byte
<1>1. ops[k][2] \in 0 .. 31 /\ ops[k] = GPR(ops[k][2])
  BY DEF HoldsKind, Spelled, HoldsReg
<1> QED
  BY <1>1 DEF Byte

\* A vector register of a statement is a vector operand.
LEMMA VectorKind ==
  ASSUME NEW ops, NEW k, HoldsKind("v", ops, k)
  PROVE ops[k] = Vec(ops[k][2]) /\ ops[k][2] \in 0 .. 31 /\ ops[k][2] \in Byte
<1>1. ops[k][2] \in 0 .. 31 /\ ops[k] = Vec(ops[k][2])
  BY DEF HoldsKind, Spelled, HoldsReg
<1> QED
  BY <1>1 DEF Byte

\* A number of a statement is an immediate of two words.
LEMMA ImmediateKind ==
  ASSUME NEW ops, NEW k, HoldsKind("i", ops, k), IsImm(ops[k])
  PROVE ops[k] = Wide(ops[k][2], ops[k][3]) /\ ops[k][2] \in Word32 /\ ops[k][3] \in Word32
BY DEF HoldsKind, Spelled, HoldsValue, IsImm

\* The form getInstruction reads a class by.
LEMMA FormForClass ==
  ASSUME NEW n \in DOMAIN Records, NEW c, c = ClassOf(n), c # "CopyVV",
         NEW form, form = (IF Class[c][1] = 0 THEN DecodeForm[c] ELSE FormTable[Class[c][1]][c])
  PROVE FormFor(n) = form
BY NamedRecords DEF FormFor, ReadingForm, GroupOf

\* A class read by one of these forms is read by ModR/M with two registers.
LEMMA RegisterForms ==
  ASSUME NEW n, FormFor(n) \in {"PairLoad", "RI64", "ALURI", "CompareRI", "IndirectCall",
           "RegCondBranch", "UnaryInPlace", "StackReg", "ReadReg", "ControlReg", "SysXWriteImm",
           "TernaryRI", "TernaryByte", "AVXRegImm", "AVXBinaryImm", "TernaryRR", "DSPTernary",
           "DSPQuaternary", "DSPDot", "DSPSumDot", "FPBinary", "VBinary", "FPXFused", "CopyVV",
           "IntToFP", "FPToInt", "CopyRR", "ALURR", "CompareRR", "UnaryRR"}
  PROVE RegisterRead(n)
BY DEF RegisterRead, MemoryForms, ShortBodys

\* Equal operands agree.
LEMMA EqualAgree == \A w, f, is64 : w = f => Agrees(w, f, is64)
BY DEF Agrees

\* The instructions two readers know by name have classes of their own.
LEMMA ReadByName ==
  ASSUME NEW n \in DOMAIN Records
  PROVE /\ n \in {"PUSHQ", "POPQ"} => ClassOf(n) \in {"PushReg", "PopReg"}
        /\ n \in {"VSHL128", "VSHR128"} <=> ClassOf(n) = "VShiftImm"
<1>1. \A m \in DOMAIN Opcodes : m \in {"PUSHQ", "POPQ"} => Opcodes[m][2] \in {"PushReg", "PopReg"}
  BY SMTT(60) DEF Opcodes
<1>2. \A m \in DOMAIN Opcodes : m \in {"VSHL128", "VSHR128"} <=> Opcodes[m][2] = "VShiftImm"
  BY SMTT(60) DEF Opcodes
<1>3. \A m \in DOMAIN Variants : m \notin {"PUSHQ", "POPQ", "VSHL128", "VSHR128"}
  BY SMTT(60) DEF Variants
<1>4. \A m \in DOMAIN Variants : Variants[m][2] # "VShiftImm"
  BY SMTT(60) DEF Variants
<1> QED
  BY <1>1, <1>2, <1>3, <1>4, RecordFields

\* A tail of one byte is read.
LEMMA ByteTail ==
  ASSUME NEW bytes \in Seq(Byte), NEW p \in Nat, NEW x, NEW tail, tail = <<x>>,
         Has(bytes, p, tail), NEW end, end = p + Len(tail)
  PROVE Holds(bytes, p, 1) /\ At(bytes, p) = x /\ end = p + 1
<1>1. Len(tail) = 1
  OBVIOUS
<1>2. At(bytes, p) = x /\ p + 1 <= Len(bytes)
  BY HasOne
<1> QED
  BY <1>1, <1>2 DEF Holds

\* A tail of two bytes is read.
LEMMA TwoTail ==
  ASSUME NEW bytes \in Seq(Byte), NEW p \in Nat, NEW x, NEW y, NEW tail, tail = <<x, y>>,
         Has(bytes, p, tail), NEW end, end = p + Len(tail)
  PROVE Holds(bytes, p, 2) /\ At(bytes, p) = x /\ At(bytes, p + 1) = y /\ end = p + 2
<1>1. Len(tail) = 2 /\ 1 \in 1 .. 2 /\ 2 \in 1 .. 2 /\ tail[1] = x /\ tail[2] = y
  OBVIOUS
<1>2. At(bytes, p + 1 - 1) = x /\ At(bytes, p + 2 - 1) = y /\ p + 2 <= Len(bytes)
  BY <1>1 DEF Has
<1>3. p + 1 - 1 = p /\ p + 2 - 1 = p + 1 /\ Len(bytes) \in Nat
  BY LenProperties
<1> QED
  BY <1>1, <1>2, <1>3 DEF Holds

\* A list is told by its length and its members.
LEMMA ListEqual ==
  ASSUME NEW S, NEW s \in Seq(S), NEW t \in Seq(S), Len(s) = Len(t),
         \A k \in 1 .. Len(s) : s[k] = t[k]
  PROVE s = t
BY SeqEqual

\* Short lists one after the other.
LEMMA ShortLists ==
  \A a, b, d, e :
    /\ <<>> \o <<a, b>> = <<a, b>> /\ <<a>> \o <<b, d>> = <<a, b, d>>
    /\ <<a, b>> \o <<d>> = <<a, b, d>> /\ <<a>> \o <<b>> = <<a, b>>
    /\ <<>> \o <<a>> = <<a>> /\ <<a>> \o <<>> = <<a>> /\ <<a, b>> \o <<>> = <<a, b>>
    /\ <<a, b>> \o <<d, e>> = <<a, b, d, e>>
<1> SUFFICES ASSUME NEW a, NEW b, NEW d, NEW e
             PROVE /\ <<>> \o <<a, b>> = <<a, b>> /\ <<a>> \o <<b, d>> = <<a, b, d>>
                   /\ <<a, b>> \o <<d>> = <<a, b, d>> /\ <<a>> \o <<b>> = <<a, b>>
                   /\ <<>> \o <<a>> = <<a>> /\ <<a>> \o <<>> = <<a>> /\ <<a, b>> \o <<>> = <<a, b>>
                   /\ <<a, b>> \o <<d, e>> = <<a, b, d, e>>
  OBVIOUS
<1>2. <<>> \o <<a, b>> = <<a, b>> /\ <<>> \o <<a>> = <<a>> /\ <<a>> \o <<>> = <<a>> /\ <<a, b>> \o <<>> = <<a, b>>
  OBVIOUS
<1>3. PICK S : S = {a, b, d, e}
  OBVIOUS
<1>4. /\ <<a>> \in Seq(S) /\ <<b>> \in Seq(S) /\ <<d>> \in Seq(S) /\ <<a, b>> \in Seq(S)
      /\ <<b, d>> \in Seq(S) /\ <<d, e>> \in Seq(S) /\ <<a, b, d>> \in Seq(S) /\ <<a, b, d, e>> \in Seq(S)
  BY <1>3
<1>5. <<a>> \o <<b>> = <<a, b>>
  <2>1. PICK s, t, u : s = <<a>> /\ t = <<b>> /\ u = <<a, b>>
    BY Zenon
  <2>2. Len(s \o t) = 2 /\ (s \o t)[1] = a /\ (s \o t)[2] = b /\ s \o t \in Seq(S)
    BY <1>4, <2>1, ConcatProperties
  <2>3. \A k \in 1 .. 2 : (s \o t)[k] = u[k]
    BY <2>1, <2>2
  <2> QED
    BY <1>4, <2>1, <2>2, <2>3, ListEqual, Zenon
<1>6. <<a>> \o <<b, d>> = <<a, b, d>>
  <2>1. PICK s, t, u : s = <<a>> /\ t = <<b, d>> /\ u = <<a, b, d>>
    BY Zenon
  <2>2. Len(s \o t) = 3 /\ (s \o t)[1] = a /\ (s \o t)[2] = b /\ (s \o t)[3] = d /\ s \o t \in Seq(S)
    BY <1>4, <2>1, ConcatProperties
  <2>3. \A k \in 1 .. 3 : (s \o t)[k] = u[k]
    BY <2>1, <2>2
  <2> QED
    BY <1>4, <2>1, <2>2, <2>3, ListEqual, Zenon
<1>7. <<a, b>> \o <<d>> = <<a, b, d>>
  <2>1. PICK s, t, u : s = <<a, b>> /\ t = <<d>> /\ u = <<a, b, d>>
    BY Zenon
  <2>2. Len(s \o t) = 3 /\ (s \o t)[1] = a /\ (s \o t)[2] = b /\ (s \o t)[3] = d /\ s \o t \in Seq(S)
    BY <1>4, <2>1, ConcatProperties
  <2>3. \A k \in 1 .. 3 : (s \o t)[k] = u[k]
    BY <2>1, <2>2
  <2> QED
    BY <1>4, <2>1, <2>2, <2>3, ListEqual, Zenon
<1>8. <<a, b>> \o <<d, e>> = <<a, b, d, e>>
  <2>1. PICK s, t, u : s = <<a, b>> /\ t = <<d, e>> /\ u = <<a, b, d, e>>
    BY Zenon
  <2>2. Len(s \o t) = 4 /\ (s \o t)[1] = a /\ (s \o t)[2] = b /\ (s \o t)[3] = d /\ (s \o t)[4] = e /\ s \o t \in Seq(S)
    BY <1>4, <2>1, ConcatProperties
  <2>3. \A k \in 1 .. 4 : (s \o t)[k] = u[k]
    BY <2>1, <2>2
  <2> QED
    BY <1>4, <2>1, <2>2, <2>3, ListEqual, Zenon
<1> QED
  BY <1>2, <1>5, <1>6, <1>7, <1>8

\* The instructions whose operands are vectors and a register are named by the emitter.
LEMMA DotNames ==
  ASSUME NEW n \in DOMAIN Records
  PROVE n \in {"DOTP", "SUMDOTP"} <=> ClassOf(n) \in {"DSPDot", "DSPSumDot"}
<1>1. \A m \in DOMAIN Opcodes : m \in {"DOTP", "SUMDOTP"} <=> Opcodes[m][2] \in {"DSPDot", "DSPSumDot"}
  BY SMTT(60) DEF Opcodes
<1>2. \A m \in DOMAIN Variants : m \notin {"DOTP", "SUMDOTP"}
  BY SMTT(60) DEF Variants
<1>3. \A m \in DOMAIN Variants : Variants[m][2] \notin {"DSPDot", "DSPSumDot"}
  BY SMTT(60) DEF Variants
<1> QED
  BY <1>1, <1>2, <1>3, RecordFields

\* The bytes of the registers of a signal instruction after the second.
ExtraBytes(i, vec) == [k \in 1 .. Len(i.ops) - 2 |-> Num(i, k + 2) + (IF vec THEN 32 ELSE 0)]

\* The bytes of a signal instruction, by its registers after the second.
LEMMA SignalBody ==
  ASSUME NEW i, i.name \in DOMAIN Records, GroupOf(i.name) = 3, FormOf(i.name) # "TernaryByte",
         NEW vec \in BOOLEAN, vec <=> ClassOf(i.name) \in {"DSPDot", "DSPSumDot"},
         NEW extras, extras = ExtraBytes(i, vec), NEW is64, NEW body, body = EmitBody(i, is64)
  PROVE /\ ~vec => body.bytes = RegForm(0, OpcodeBytes(i), Num(i, 1), Num(i, 2), <<>> \o extras)
        /\ vec => body.bytes = RegForm(64, OpcodeBytes(i), Num(i, 1), Num(i, 2), <<24>> \o extras)
<1>1. PICK vector : vector = (i.name \in {"DOTP", "SUMDOTP"})
  OBVIOUS
<1>2. vector = vec
  BY <1>1, DotNames
<1>3. body = EmitDSP(i)
  BY DEF EmitBody
<1>4. Bit(vector, 32) = (IF vec THEN 32 ELSE 0) /\ Bit(vector, 64) = (IF vec THEN 64 ELSE 0)
  BY <1>2 DEF Bit
<1>5. body = Bytes(RegForm(Bit(vector, 64), OpcodeBytes(i), Num(i, 1), Num(i, 2),
                           (IF vector THEN <<24>> ELSE <<>>) \o extras))
  BY <1>1, <1>3, <1>4, Zenon DEF EmitDSP, ExtraBytes
<1>6. CASE vec
  <2>1. vector = TRUE /\ Bit(vector, 64) = 64
    BY <1>2, <1>4, <1>6, Zenon
  <2>2. body = Bytes(RegForm(64, OpcodeBytes(i), Num(i, 1), Num(i, 2), <<24>> \o extras))
    BY <1>5, <2>1, Zenon
  <2> QED
    BY <1>6, <2>2 DEF Bytes, Emitted
<1>7. CASE ~vec
  <2>1. vector = FALSE /\ Bit(vector, 64) = 0
    BY <1>2, <1>4, <1>7
  <2>2. body = Bytes(RegForm(0, OpcodeBytes(i), Num(i, 1), Num(i, 2), <<>> \o extras))
    BY <1>5, <2>1
  <2> QED
    BY <1>7, <2>2 DEF Bytes, Emitted
<1> QED
  BY <1>6, <1>7

\* A byte on its own is its little-endian string.
LEMMA ByteString == ASSUME NEW x \in Byte PROVE LittleEndian(x, 1) = <<x>>
<1>1. x \in Int /\ x % 256 = x
  BY DEF Byte
<1>2. LittleEndian(x, 1)[1] = x
  BY <1>1, OneByte
<1>3. LittleEndian(x, 1) = [i \in 1 .. 1 |-> LittleEndian(x, 1)[i]]
  BY DEF LittleEndian
<1> QED
  BY <1>2, <1>3

\* The range of sixteen bits is 256 times a byte.
LEMMA SixteenBits == 2 ^ 16 = 256 * 256
BY SMT

\* The high byte of a number of sixteen bits.
LEMMA HighByte ==
  ASSUME NEW v \in 0 .. 2 ^ 16 - 1
  PROVE v \in Nat /\ v \div 256 \in 0 .. 255
<1>1. PICK y, q, m : y = 2 ^ 16 /\ q = v \div 256 /\ m = v % 256
  OBVIOUS
<1>2. y = 256 * 256 /\ v \in 0 .. y - 1
  BY <1>1, SixteenBits
<1>3. v \in Nat /\ v <= y - 1
  BY <1>2
<1>4. q \in Int /\ m \in 0 .. 255 /\ v = 256 * q + m
  BY <1>1, <1>3, SMTT(30)
<1>5. q >= 0 /\ q < 256
  BY <1>2, <1>3, <1>4
<1> QED
  BY <1>1, <1>3, <1>4, <1>5

\* The two bytes of a number of sixteen bits.
LEMMA ShortString ==
  ASSUME NEW v \in 0 .. 2 ^ 16 - 1
  PROVE LittleEndian(v, 2) = <<v % 256, v \div 256>> /\ v % 256 \in Byte /\ v \div 256 \in Byte
        /\ (v % 256) + 256 * (v \div 256) = v /\ v \in Nat
<1>1. v \in Nat /\ v \div 256 \in 0 .. 255
  BY HighByte, Zenon
<1>2. PICK x, y : x = v % 256 /\ y = v \div 256
  OBVIOUS
<1>3. y \in 0 .. 255 /\ y % 256 = y /\ x \in 0 .. 255 /\ x + 256 * y = v
  <2>1. y \in 0 .. 255
    BY <1>1, <1>2
  <2>2. y % 256 = y
    BY <2>1
  <2>3. x \in 0 .. 255 /\ x + 256 * y = v
    <3>1. PICK w \in Nat : w = v
      BY <1>1
    <3>2. w % 256 \in 0 .. 255 /\ (w % 256) + 256 * (w \div 256) = w
      OBVIOUS
    <3> QED
      BY <1>2, <3>1, <3>2
  <2> QED
    BY <2>1, <2>2, <2>3
<1>4. v \div 1 = v
  <2>1. PICK w \in Nat : w = v
    BY <1>1
  <2>2. w \div 1 = w
    OBVIOUS
  <2> QED
    BY <2>1, <2>2
<1>5. LittleEndian(v, 2) = <<(v \div 1) % 256, (v \div 256) % 256>>
  <2>1. 1 - 1 = 0 /\ 2 - 1 = 1 /\ 256 ^ 0 = 1 /\ 256 ^ 1 = 256
    BY PowersOf256
  <2>2. LittleEndian(v, 2) = <<(v \div (256 ^ (1 - 1))) % 256, (v \div (256 ^ (2 - 1))) % 256>>
    BY DEF LittleEndian
  <2> QED
    BY <2>1, <2>2
<1> QED
  BY <1>1, <1>2, <1>3, <1>4, <1>5 DEF Byte

\* A number the emitter tests to be a byte is written and read as that byte.
LEMMA ByteImmediate ==
  ASSUME NEW ops, NEW k, HoldsKind("i", ops, k), UInt(ops[k], 8)
  PROVE ops[k] = Imm(ops[k][2]) /\ ops[k][2] \in Byte /\ ops[k][2] % 256 = ops[k][2]
<1>1. 2 ^ 8 = 256
  BY SMT
<1>2. IsImm(ops[k]) /\ ops[k][3] = 0 /\ ops[k][2] \in 0 .. 255
  BY <1>1 DEF UInt
<1>3. ops[k] = Wide(ops[k][2], ops[k][3])
  BY <1>2, ImmediateKind
<1>4. PICK x : x = ops[k][2]
  OBVIOUS
<1>5. x \in 0 .. 255 /\ ops[k] = Wide(x, 0)
  BY <1>2, <1>3, <1>4
<1>6. Imm(x) = Wide(x, 0) /\ x % 256 = x /\ x \in Byte
  BY <1>5 DEF Imm, Wide, Byte
<1> QED
  BY <1>4, <1>5, <1>6

\* A number of sixteen bits is its low half.
LEMMA ShortImmediate ==
  ASSUME NEW ops, NEW k, HoldsKind("i", ops, k), UInt(ops[k], 16)
  PROVE ops[k] = Imm(ops[k][2]) /\ ops[k][2] \in 0 .. 2 ^ 16 - 1
<1>1. PICK y : y = 2 ^ 16
  OBVIOUS
<1>2. IsImm(ops[k]) /\ ops[k][3] = 0 /\ ops[k][2] \in 0 .. 2 ^ 16 - 1
  BY Zenon DEF UInt
<1>3. ops[k] = Wide(ops[k][2], ops[k][3])
  BY <1>2, ImmediateKind
<1>4. PICK x : x = ops[k][2]
  OBVIOUS
<1>5. x \in Nat /\ ops[k] = Wide(x, 0)
  <2>1. x \in 0 .. 2 ^ 16 - 1
    BY <1>2, <1>4, Zenon
  <2>2. x \in Nat
    BY <2>1, HighByte
  <2> QED
    BY <1>2, <1>3, <1>4, <2>2, Zenon
<1>6. Imm(x) = Wide(x, 0)
  <2> HIDE <1>1, <1>2
  <2> QED
    BY <1>5 DEF Imm, Wide
<1> QED
  BY <1>2, <1>4, <1>5, <1>6, Zenon

\* An address-wide number is read as it was written: both halves, or the low one.
LEMMA AddressRead ==
  ASSUME NEW bytes \in Seq(Byte), NEW p \in Nat, NEW is64 \in BOOLEAN, NEW imm,
         imm = Wide(imm[2], imm[3]), imm[2] \in Word32, imm[3] \in Word32,
         NEW tail, tail = AddressBytes(imm, is64), Has(bytes, p, tail), NEW end, end = p + Len(tail),
         NEW high
  PROVE /\ tail \in Seq(Byte) /\ end = p + AddressWidth(is64) /\ Holds(bytes, p, AddressWidth(is64))
        /\ Signed32(bytes, p) = imm[2]
        /\ is64 => ReadAddress(bytes, p, is64, high) = imm
        /\ ~is64 => ReadAddress(bytes, p, is64, high) = Wide(imm[2], high)
<1>1. imm[2] \in Int /\ imm[3] \in Int
  BY WordIsInteger
<1>2. PICK lo, hi : lo = imm[2] /\ hi = imm[3]
  OBVIOUS
<1>3. PICK s, t : s = LittleEndian(lo, 4) /\ t = LittleEndian(hi, 4)
  OBVIOUS
<1>4. s \in Seq(Byte) /\ Len(s) = 4 /\ t \in Seq(Byte) /\ Len(t) = 4
  BY <1>1, <1>2, <1>3, LittleEndianBytes, Zenon
<1>5. tail \in Seq(Byte) /\ Len(tail) = AddressWidth(is64)
  BY <1>1, AddressString DEF AddressWidth
<1>6. Holds(bytes, p, AddressWidth(is64)) /\ end = p + AddressWidth(is64)
  BY <1>5 DEF Has, Holds
<1>7. CASE is64
  <2>1. tail = s \o t
    BY <1>2, <1>3, <1>7 DEF AddressBytes
  <2>2. Has(bytes, p, s) /\ Has(bytes, p + Len(s), t)
    BY <1>4, <2>1, HasConcat, Zenon
  <2>3. PICK q : q = p + 4
    OBVIOUS
  <2>4. Has(bytes, q, t) /\ q \in Nat
    BY <1>4, <2>2, <2>3
  <2>5. Signed32(bytes, p) = lo /\ Signed32(bytes, q) = hi
    BY <1>2, <1>3, <2>2, <2>4, ReadsWord
  <2>6. ReadAddress(bytes, p, is64, high) = Wide(lo, hi)
    BY <1>7, <2>3, <2>5 DEF ReadAddress
  <2> QED
    BY <1>2, <1>5, <1>6, <1>7, <2>5, <2>6, Zenon
<1>8. CASE ~is64
  <2>1. tail = s \o <<>>
    BY <1>2, <1>3, <1>8 DEF AddressBytes
  <2>2. Has(bytes, p, s)
    BY <1>4, <2>1, HasConcat, NoBytes
  <2>3. Signed32(bytes, p) = lo
    BY <1>2, <1>3, <2>2, ReadsWord
  <2>4. ReadAddress(bytes, p, is64, high) = Wide(lo, high)
    BY <1>8, <2>3 DEF ReadAddress
  <2> QED
    BY <1>2, <1>5, <1>6, <1>8, <2>3, <2>4
<1> QED
  BY <1>7, <1>8

\* getInstruction before the operands of an instruction without ModR/M.
ShortLeft(c, bytes, i, p, tail, end, r, is64) ==
  /\ p \in Nat /\ Has(bytes, p, tail) /\ end = p + Len(tail) /\ bytes \in Seq(Byte)
  /\ c.ok = TRUE /\ c.bytes = bytes /\ c.at = p /\ c.marker = i.marker /\ c.name = i.name
  /\ ~c.extended /\ ~c.vector /\ c.form = FormFor(i.name) /\ r = ReadInstruction(c, is64)

\* An opcode and what follows it are read up to what follows.
LEMMA ShortBody ==
  ASSUME NEW bytes, NEW i, NEW is64, NEW s, NEW at, NEW end, NEW r,
         Starts(bytes, i, is64, s, at, end, r), ClassOf(i.name) \notin VariantClasses,
         FormFor(i.name) \in ShortBodys, NEW tail \in Seq(Byte), s = OpcodeBytes(i) \o tail
  PROVE \E p, c : ShortLeft(c, bytes, i, p, tail, end, r, is64)
<1> USE DEF Starts
<1>1. PICK m, n, code : m = i.marker /\ n = i.name /\ code = OpcodeBytes(i)
  OBVIOUS
<1>2. m \in 0 .. 10 /\ at = 0 + Len(MarkBytes(m)) /\ at \in Nat /\ Has(bytes, 0, MarkBytes(m))
  BY <1>1, MarkLength DEF Marked
<1>3. code = OpcodeAt(n) /\ code \in Seq(Byte) /\ Len(code) > 0 /\ Len(code) \in Nat
  <2>1. code = OpcodeAt(n)
    BY <1>1 DEF OpcodeBytes, OpcodeAt
  <2>2. code \in Seq(Byte) /\ Len(code) > 0
    BY <1>1, OpcodeString
  <2> QED
    BY <2>1, <2>2, LenProperties
<1>4. s = code \o tail
  BY <1>1
<1>5. Has(bytes, at, code) /\ Has(bytes, at + Len(code), tail)
  <2>1. Has(bytes, at, code \o tail) /\ bytes \in Seq(Byte)
    BY <1>4
  <2> QED
    BY <1>2, <1>3, <2>1, HasConcat, Zenon
<1>6. PICK p : p = at + Len(code)
  OBVIOUS
<1>7. p \in Nat /\ Has(bytes, p, tail)
  BY <1>2, <1>3, <1>5, <1>6
<1>8. end = p + Len(tail)
  <2>1. PICK l, z : l = Len(tail) /\ z = Len(code)
    BY Zenon
  <2>2. Len(code \o tail) = Len(code) + l
    BY <1>3, <2>1, ConcatLen
  <2>3. l \in Nat
    BY <2>1, LenProperties
  <2>4. PICK e : e = Len(s)
    OBVIOUS
  <2>5. e = z + l /\ end = at + e /\ p = at + z
    BY <1>4, <1>6, <2>1, <2>2, <2>4
  <2> QED
    BY <1>2, <1>3, <2>1, <2>3, <2>5
<1>9. PICK op : op = code[1]
  OBVIOUS
<1>10. op \notin {253, 254} /\ op \in Byte
  <2>1. OpcodeOf(n) \in 0 .. 219
    BY <1>1, OpcodesBelow, Zenon
  <2>2. PICK o \in 0 .. 219 : o = OpcodeOf(n)
    BY <2>1
  <2>3. op = o \/ op = 255
    BY <1>3, <1>9, <2>2 DEF OpcodeAt
  <2>4. CASE op = 255
    BY <2>4 DEF Byte
  <2>5. CASE op = o
    <3>1. o \in 0 .. 219
      OBVIOUS
    <3>2. op \in 0 .. 219
      BY <2>5, <3>1
    <3> QED
      BY <3>2 DEF Byte
  <2> QED
    BY <2>3, <2>4, <2>5
<1>11. Has(bytes, at, <<op>>)
  <2>10. 1 \in 1 .. Len(code)
    BY <1>3
  <2>1. At(bytes, at + 1 - 1) = op /\ at + Len(code) <= Len(bytes)
    BY <1>5, <1>9, <2>10, Zenon DEF Has
  <2>2. at + 1 <= Len(bytes)
    BY <1>2, <1>3, <2>1, LenProperties
  <2>3. PICK one : one = <<op>>
    BY Zenon
  <2>4. Len(one) = 1 /\ one[1] = op
    BY <2>3
  <2>5. \A k \in 1 .. Len(one) : At(bytes, at + k - 1) = one[k]
    BY <2>1, <2>4
  <2>6. Has(bytes, at, one)
    BY <2>2, <2>4, <2>5 DEF Has
  <2> QED
    BY <2>3, <2>6
<1>12. Leads(bytes, 0, m, FALSE, 0, at)
  <2>1. 0 \in Nat
    OBVIOUS
  <2> QED
    BY <1>2, <1>10, <1>11, <2>1, OpcodeLeads, Zenon
<1>13. PICK x, c : x = ReadPrefixes(bytes) /\ c = ReadOpcode(x)
  OBVIOUS
<1>14. Prefixed(x, bytes, m, FALSE, 0, at)
  <2>1. 0 % 8 = 0 /\ 0 \in 0 .. 127 /\ FALSE \in BOOLEAN
    OBVIOUS
  <2> QED
    BY <1>2, <1>12, <1>13, <2>1, PrefixesRead, Zenon
<1>15. n \in DOMAIN Opcodes /\ n # "MOVV128" /\ n # "MOVrr"
  <2>1. ClassOf(n) # "CopyVV"
    BY <1>1 DEF VariantClasses
  <2>2. n # "MOVV128"
    BY <2>1, NamedRecords
  <2>3. n # "MOVrr"
    <3>1. CASE n = "MOVrr"
      <4>1. FormFor(n) = "CopyRR"
        <5>1. ClassOf(n) = "CopyRR"
          BY <3>1, NamedRecords
        <5>2. DecodeForm["CopyRR"] = "CopyRR" /\ Class["CopyRR"][1] = 0
          BY SMT DEF DecodeForm, Class
        <5> QED
          BY <1>1, <5>1, <5>2, FormForClass
      <4> QED
        BY <1>1, <4>1 DEF ShortBodys
    <3> QED
      BY <3>1
  <2> QED
    BY <1>1, <2>2, <2>3, OwnPlace
<1>16. Picked(c, bytes, m, FALSE, 0, p, n)
  <2>1. n \in DOMAIN Records
    BY <1>1
  <2> QED
    BY <1>2, <1>3, <1>5, <1>6, <1>13, <1>14, <1>15, <2>1, NameRead, Zenon
<1>17. /\ c.ok = TRUE /\ c.bytes = bytes /\ c.at = p /\ c.marker = m /\ ~c.extended
       /\ (c.vector <=> (0 \div 64) % 2 = 1) /\ c.form = FormFor(n) /\ c.name = BaseName(n)
  BY <1>15, <1>16 DEF Picked, Prefixed
<1>18. ~c.vector
  <2>1. (0 \div 64) % 2 # 1
    OBVIOUS
  <2> QED
    BY <1>17, <2>1
<1>19. c.name = n
  BY <1>15, <1>17 DEF BaseName
<1>20. r = ReadInstruction(c, is64)
  BY <1>13 DEF GetInstruction
<1> QED
  BY <1>1, <1>7, <1>8, <1>17, <1>18, <1>19, <1>20, Zenon DEF ShortLeft

\* Instructions without operands come back.
LEMMA ReadsNothing ==
  ASSUME NEW bytes, NEW i, NEW source, NEW is64, NEW body, NEW at, NEW end, NEW r,
         Emits(bytes, i, source, is64, body, at, end, r),
         ClassOf(i.name) \in {"NoOperand", "SystemNoOperand", "TxnNoOperand", "Return", "AVXNoOperand",
           "SysXNoOperand", "WindowTransition"}
  PROVE SameAs(r, i, end, is64)
<1>1. PICK n, c, kinds : n = i.name /\ c = ClassOf(i.name) /\ kinds = OperandKinds[c]
  OBVIOUS
<1>2. /\ n \in DOMAIN Records /\ Filled(i, source) /\ is64 \in BOOLEAN /\ body = EmitBody(i, is64)
      /\ body.ok /\ bytes \in Seq(Byte) /\ Starts(bytes, i, is64, body.bytes, at, end, r)
  BY <1>1 DEF Emits, Starts
<1>3. c \in {"NoOperand", "SystemNoOperand", "TxnNoOperand", "Return", "AVXNoOperand",
             "SysXNoOperand", "WindowTransition"}
  BY <1>1
<1>4. kinds = <<>>
  BY <1>1, <1>3, SMT DEF OperandKinds
<1>5. c \notin Tied /\ c # "CopyVV" /\ c \notin VariantClasses
  BY <1>3, SMT DEF Tied, VariantClasses
<1>6. Class[c][1] \in {0, 1, 4} /\ Class[c][2] = "NoOperand"
  BY <1>3, SMT DEF Class
<1>7. GroupOf(n) \in {0, 1, 4} /\ FormOf(n) = "NoOperand"
  BY <1>1, <1>6 DEF GroupOf, FormOf
<1>8. FormFor(n) = "NoOperand"
  <2>1. (IF Class[c][1] = 0 THEN DecodeForm[c] ELSE FormTable[Class[c][1]][c]) = "NoOperand"
    <3>1. CASE c \in {"NoOperand", "SystemNoOperand", "TxnNoOperand", "Return"}
      <4>1. DecodeForm[c] = "NoOperand"
        BY <3>1, SMT DEF DecodeForm
      <4>2. Class[c][1] = 0
        BY <3>1, SMT DEF Class
      <4> QED
        BY <4>1, <4>2
    <3>2. CASE c = "AVXNoOperand"
      <4>1. FormTable[1] = AVXDecodeForm
        BY DEF FormTable
      <4>2. AVXDecodeForm[c] = "NoOperand"
        BY <3>2, SMT DEF AVXDecodeForm
      <4>3. Class[c][1] = 1
        BY <3>2, SMT DEF Class
      <4> QED
        BY <4>1, <4>2, <4>3
    <3>3. CASE c \in {"SysXNoOperand", "WindowTransition"}
      <4>1. FormTable[4] = SysXDecodeForm
        BY DEF FormTable
      <4>2. SysXDecodeForm[c] = "NoOperand"
        BY <3>3, SMT DEF SysXDecodeForm
      <4>3. Class[c][1] = 4
        BY <3>3, SMT DEF Class
      <4> QED
        BY <4>1, <4>2, <4>3
    <3> QED
      BY <1>3, <3>1, <3>2, <3>3
  <2> QED
    BY <1>1, <1>2, <1>5, <2>1, FormForClass
<1>9. Len(i.ops) = 0
  <2>1. Fills(i.ops, source, kinds, 0)
    BY <1>1, <1>2, <1>5 DEF Filled
  <2> QED
    BY <1>4, <2>1 DEF Fills, Place, Size
<1>10. PICK s : s = body.bytes
  OBVIOUS
<1>11. s = OpcodeBytes(i)
  <2>1. CASE GroupOf(n) = 0
    <3>1. body = EmitBase(i, is64)
      BY <1>1, <1>2, <2>1 DEF EmitBody
    <3>2. body = Bytes(OpcodeBytes(i))
      BY <1>1, <1>7, <3>1 DEF EmitBase
    <3> QED
      BY <1>10, <3>2 DEF Bytes, Emitted
  <2>2. CASE GroupOf(n) = 1
    <3>1. body = EmitAVX(i)
      BY <1>1, <1>2, <2>2 DEF EmitBody
    <3>2. body = Bytes(OpcodeBytes(i))
      BY <1>1, <1>7, <3>1 DEF EmitAVX
    <3> QED
      BY <1>10, <3>2 DEF Bytes, Emitted
  <2>3. CASE GroupOf(n) = 4
    <3>1. body = EmitSysX(i)
      BY <1>1, <1>2, <2>3 DEF EmitBody
    <3>2. body = Bytes(OpcodeBytes(i))
      BY <1>1, <1>2, <1>3, <1>7, <3>1, NamedClasses3, NamedClasses4 DEF EmitSysX
    <3> QED
      BY <1>10, <3>2 DEF Bytes, Emitted
  <2> QED
    BY <1>7, <2>1, <2>2, <2>3
<1>12. PICK tail : tail = <<>>
  OBVIOUS
<1>13. tail \in Seq(Byte) /\ s = OpcodeBytes(i) \o tail
  <2>1. OpcodeBytes(i) \in Seq(Byte)
    BY <1>1, <1>2, OpcodeString
  <2> QED
    BY <1>11, <1>12, <2>1, NoBytes
<1>14. PICK p, g : ShortLeft(g, bytes, i, p, tail, end, r, is64)
  BY <1>1, <1>2, <1>5, <1>8, <1>10, <1>13, ShortBody, Zenon DEF ShortBodys
<1>15. r = ReadNoOperand(g) /\ end = p /\ g.name = i.name /\ g.marker = i.marker /\ g.at = p
       /\ ~g.extended /\ ~g.vector
  BY <1>1, <1>8, <1>12, <1>14 DEF ShortLeft, ReadInstruction
<1>16. PICK ops : ops = <<>>
  OBVIOUS
<1>17. r = Success(g, ops, end)
  BY <1>15, <1>16 DEF ReadNoOperand
<1>18. Len(ops) = Len(i.ops) /\ \A k \in 1 .. Len(i.ops) : Agrees(i.ops[k], ops[k], is64)
  BY <1>9, <1>16
<1> QED
  BY <1>15, <1>17, <1>18, SuccessSame, Zenon

\* An address of a statement is two registers, a scale and a displacement.
LEMMA AddressKind ==
  ASSUME NEW ops, NEW k \in Nat, HoldsKind("m", ops, k)
  PROVE /\ ops[k] = GPR(ops[k][2]) /\ ops[k][2] \in 0 .. 31 /\ ops[k][2] \in Byte
        /\ ops[k + 1] = GPR(ops[k + 1][2]) /\ ops[k + 1][2] \in 0 .. 31 /\ ops[k + 1][2] \in Byte
        /\ ops[k + 2] = Imm(ops[k + 2][2]) /\ ops[k + 2][2] \in {1, 2, 4, 8}
        /\ ops[k + 3] = Imm(ops[k + 3][2])
<1>1. HoldsReg(ops, k) /\ HoldsReg(ops, k + 1) /\ Addressed(ops, k)
  BY DEF HoldsKind, HoldsMem, Spelled
<1>2. ops[k][2] \in 0 .. 31 /\ ops[k + 1][2] \in 0 .. 31
  BY <1>1 DEF HoldsReg
<1> QED
  BY <1>1, <1>2 DEF Addressed, Byte

\* A number written in bytes of an address is read with its low half, and with both where
\* addresses have two.
LEMMA AddressAgrees ==
  ASSUME NEW bytes \in Seq(Byte), NEW p \in Nat, NEW is64 \in BOOLEAN, NEW imm,
         imm = Wide(imm[2], imm[3]), imm[2] \in Word32, imm[3] \in Word32,
         NEW tail, tail = AddressBytes(imm, is64), Has(bytes, p, tail), NEW end, end = p + Len(tail),
         NEW high
  PROVE /\ Agrees(imm, ReadAddress(bytes, p, is64, high), is64)
        /\ end = p + AddressWidth(is64) /\ Holds(bytes, p, AddressWidth(is64))
<1>1. /\ end = p + AddressWidth(is64) /\ Holds(bytes, p, AddressWidth(is64))
      /\ is64 => ReadAddress(bytes, p, is64, high) = imm
      /\ ~is64 => ReadAddress(bytes, p, is64, high) = Wide(imm[2], high)
  BY AddressRead
<1>2. CASE is64
  BY <1>1, <1>2, Zenon DEF Agrees
<1>3. CASE ~is64
  <2>1. PICK lo, hi : lo = imm[2] /\ hi = imm[3]
    OBVIOUS
  <2>2. imm = Wide(lo, hi) /\ ReadAddress(bytes, p, is64, high) = Wide(lo, high)
    BY <1>1, <1>3, <2>1
  <2>3. imm[1] = "i" /\ Wide(lo, high)[1] = "i" /\ imm[2] = lo /\ Wide(lo, high)[2] = lo
    BY <2>2 DEF Wide
  <2>4. PICK f : f = Wide(lo, high)
    OBVIOUS
  <2>5. Agrees(imm, f, is64)
    BY <1>3, <2>3, <2>4 DEF Agrees
  <2> QED
    BY <1>1, <2>2, <2>4, <2>5
<1> QED
  BY <1>2, <1>3

\* A number of sixteen bits is read back.
LEMMA ShortRead ==
  ASSUME NEW bytes \in Seq(Byte), NEW p \in Nat, NEW v \in 0 .. 2 ^ 16 - 1,
         NEW tail, tail = LittleEndian(v, 2), Has(bytes, p, tail), NEW end, end = p + Len(tail)
  PROVE Holds(bytes, p, 2) /\ Unsigned16(bytes, p) = v /\ end = p + 2 /\ tail \in Seq(Byte)
<1>1. PICK x, y : x = v % 256 /\ y = v \div 256
  OBVIOUS
<1>2. LittleEndian(v, 2) = <<x, y>> /\ x \in Byte /\ y \in Byte /\ x + 256 * y = v
  BY <1>1, ShortString
<1>3. tail = <<x, y>>
  BY <1>2
<1>4. Holds(bytes, p, 2) /\ At(bytes, p) = x /\ At(bytes, p + 1) = y /\ end = p + 2
  BY <1>3, TwoTail
<1>5. Unsigned16(bytes, p) = v
  BY <1>2, <1>4 DEF Unsigned16
<1> QED
  BY <1>2, <1>3, <1>4, <1>5, TwoBytes
=============================================================================
