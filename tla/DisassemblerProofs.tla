------------------------- MODULE DisassemblerProofs --------------------------
(***************************************************************************)
(* Every instruction the emitter writes is read back by the disassembler,  *)
(* for all registers, addresses, immediates, markers and both sizes of     *)
(* address: first the address of an instruction, then the instructions     *)
(* without an address, class by class.                                     *)
(***************************************************************************)
EXTENDS CodeProofs

-----------------------------------------------------------------------------
(* The address of an instruction is read as it was written.                *)
\* The byte that names a vector register is read as that register.
LEMMA XopRead ==
  ASSUME NEW n \in 0 .. 31
  PROVE Xop(n) \in Byte /\ IsXop(Xop(n)) /\ Xop(n) % 32 = n
<1>1. PICK x : x = 32 + n
  OBVIOUS
<1>2. x \in Byte
  BY <1>1 DEF Byte
<1>3. x \div 32 = 1 /\ x % 32 = n
  BY <1>1
<1> QED
  BY <1>1, <1>2, <1>3 DEF Xop, IsXop

\* A class whose records have their own places announces binary64 lanes.
LEMMA OwnLanes ==
  ASSUME NEW n \in DOMAIN Records, ClassOf(n) \notin VariantClasses
  PROVE 8 * LaneOf(n) = 24
<1>1. n \in DOMAIN Opcodes
  BY OwnPlace
<1>2. WidthOf(n) = 0
  BY <1>1, Bases
<1> QED
  BY <1>2 DEF LaneOf

\* The bytes of the vector registers of an instruction after the second.
XopBytes(i) == [k \in 1 .. Len(i.ops) - 2 |-> Xop(Num(i, k + 2))]

\* The vector registers after the second, one by one.
LEMMA XopList ==
  ASSUME NEW i
  PROVE /\ Len(i.ops) = 2 => XopBytes(i) = <<>>
        /\ Len(i.ops) = 3 => XopBytes(i) = <<Xop(Num(i, 3))>>
        /\ Len(i.ops) = 4 => XopBytes(i) = <<Xop(Num(i, 3)), Xop(Num(i, 4))>>
<1>1. CASE Len(i.ops) = 2
  <2>1. XopBytes(i) = [k \in 1 .. 0 |-> Xop(Num(i, k + 2))]
    BY <1>1 DEF XopBytes
  <2>2. [k \in 1 .. 0 |-> Xop(Num(i, k + 2))] = <<>>
    OBVIOUS
  <2> QED
    BY <1>1, <2>1, <2>2
<1>2. CASE Len(i.ops) = 3
  <2>1. XopBytes(i) = [k \in 1 .. 1 |-> Xop(Num(i, k + 2))]
    BY <1>2 DEF XopBytes
  <2>2. [k \in 1 .. 1 |-> Xop(Num(i, k + 2))] = <<Xop(Num(i, 3))>>
    OBVIOUS
  <2> QED
    BY <1>2, <2>1, <2>2
<1>3. CASE Len(i.ops) = 4
  <2>1. XopBytes(i) = [k \in 1 .. 2 |-> Xop(Num(i, k + 2))]
    BY <1>3 DEF XopBytes
  <2>2. [k \in 1 .. 2 |-> Xop(Num(i, k + 2))] = <<Xop(Num(i, 3)), Xop(Num(i, 4))>>
    OBVIOUS
  <2> QED
    BY <1>3, <2>1, <2>2
<1> QED
  BY <1>1, <1>2, <1>3

\* Lists of bytes behind the lanes.
LEMMA LaneLists ==
  \A a, b, d :
    /\ <<a>> \o <<>> \o <<>> = <<a>> \o <<>>
    /\ <<a>> \o <<b>> \o <<>> = <<a>> \o <<b>>
    /\ <<a>> \o <<>> \o <<b>> = <<a>> \o <<b>>
    /\ <<a>> \o <<b>> \o <<d>> = <<a>> \o <<b, d>>
    /\ <<a, b>> = <<a>> \o <<b>> /\ <<a>> = <<a>> \o <<>>
<1> SUFFICES ASSUME NEW a, NEW b, NEW d
             PROVE /\ <<a>> \o <<>> \o <<>> = <<a>> \o <<>>
                   /\ <<a>> \o <<b>> \o <<>> = <<a>> \o <<b>>
                   /\ <<a>> \o <<>> \o <<b>> = <<a>> \o <<b>>
                   /\ <<a>> \o <<b>> \o <<d>> = <<a>> \o <<b, d>>
                   /\ <<a, b>> = <<a>> \o <<b>> /\ <<a>> = <<a>> \o <<>>
  OBVIOUS
<1>1. /\ <<a>> \o <<>> = <<a>> /\ <<a>> \o <<b>> = <<a, b>> /\ <<a, b>> \o <<>> = <<a, b>>
      /\ <<a, b>> \o <<d>> = <<a, b, d>> /\ <<a>> \o <<b, d>> = <<a, b, d>>
  <2>1. ASSUME NEW e
        PROVE /\ <<a>> \o <<>> = <<a>> /\ <<a>> \o <<b>> = <<a, b>> /\ <<a, b>> \o <<>> = <<a, b>>
              /\ <<a, b>> \o <<d>> = <<a, b, d>> /\ <<a>> \o <<b, d>> = <<a, b, d>>
    BY ShortLists
  <2> QED
    BY <2>1, Zenon
<1>2. <<a>> \o <<>> \o <<>> = <<a>> \o <<>>
  BY <1>1, Zenon
<1>3. <<a>> \o <<b>> \o <<>> = <<a>> \o <<b>>
  BY <1>1, Zenon
<1>4. <<a>> \o <<>> \o <<b>> = <<a>> \o <<b>>
  BY <1>1, Zenon
<1>5. <<a>> \o <<b>> \o <<d>> = <<a>> \o <<b, d>>
  BY <1>1, Zenon
<1> QED
  BY <1>1, <1>2, <1>3, <1>4, <1>5, Zenon

\* A vector in memory is announced as binary64 lanes.
LEMMA ScalarLanes ==
  ASSUME NEW i, i.name \in DOMAIN Records, ClassOf(i.name) \notin VariantClasses
  PROVE ScalarVectorCtl(i) = 24
<1>1. i.name \in DOMAIN Opcodes
  BY OwnPlace
<1>2. WidthOf(i.name) = 0
  BY <1>1, Bases
<1> QED
  BY <1>2 DEF ScalarVectorCtl

\* The bytes of a signal instruction on vectors.
LEMMA DotBody ==
  ASSUME NEW i, i.name \in DOMAIN Records, GroupOf(i.name) = 3, FormOf(i.name) # "TernaryByte",
         ClassOf(i.name) \in {"DSPDot", "DSPSumDot"},
         NEW extras, extras = ExtraBytes(i, TRUE), NEW is64, NEW body, body = EmitBody(i, is64)
  PROVE body.bytes = RegForm(64, OpcodeBytes(i), Num(i, 1), Num(i, 2), <<24>> \o extras)
<1>1. i.name \in {"DOTP", "SUMDOTP"}
  BY DotNames
<1>2. body = EmitDSP(i)
  BY DEF EmitBody
<1>3. extras = [k \in 1 .. Len(i.ops) - 2 |-> Num(i, k + 2) + 32]
  BY DEF ExtraBytes
<1>4. body = Bytes(RegForm(64, OpcodeBytes(i), Num(i, 1), Num(i, 2), <<24>> \o extras))
  BY <1>1, <1>2, <1>3, Zenon DEF EmitDSP, Bit
<1> QED
  BY <1>4 DEF Bytes, Emitted

-----------------------------------------------------------------------------
(* Addresses in memory: ModR/M, SIB, OREX and the displacement.            *)
\* A SIB byte follows ModR/M: there is an index, or the base would announce one.
Announced(b, x) == x # 4 \/ Low3(b) = 4

\* How the displacement is written: not at all, in a byte, or in four.
ModOf(b, d) == IF d = 0 /\ Low3(b) # 5 THEN 0 ELSE IF SInt8(d) THEN 1 ELSE 2

\* The three bytes of a register a, a base b and an index x scaled by s.
ModByte(a, b, sib, mod) == 64 * mod + 8 * Low3(a) + (IF sib THEN 4 ELSE Low3(b))
SIBByte(b, x, s) == 64 * ScaleBits(s) + 8 * Low3(x) + Low3(b)
OREXByte(a, b, x, sib) ==
  High2(a) + (IF sib THEN 16 * High2(x) + 64 * High2(b) ELSE 4 * High2(b))

\* What ReadModRM makes of those bytes.
AddressFields(mr, sb, ox, a, b, x, s, sib, mod) ==
  /\ mr \in Byte /\ sb \in Byte /\ ox \in Byte /\ mr \div 64 = mod /\ (mr % 8 = 4 <=> sib)
  /\ ((mr \div 8) % 8) + ExtraBits(ox, 1) = a
  /\ sib => /\ (sb % 8) + ExtraBits(ox, 64) = b
            /\ ((sb \div 8) % 8) + ExtraBits(ox, 16) = x
            /\ 2 ^ (sb \div 64) = s
  /\ ~sib => (mr % 8) + ExtraBits(ox, 4) = b /\ x = 4 /\ ox < 16
  /\ a <= 7 /\ b <= 7 /\ x <= 7 => ox = 0

\* The bits of a scale are the power of two it is.
LEMMA ScalePower ==
  ASSUME NEW s \in {1, 2, 4, 8}
  PROVE ScaleBits(s) \in 0 .. 3 /\ 2 ^ ScaleBits(s) = s
<1>1. 2 ^ 0 = 1 /\ 2 ^ 1 = 2 /\ 2 ^ 2 = 4 /\ 2 ^ 3 = 8
  BY PowersOf2
<1>2. 1 \div 2 = 0 /\ 2 \div 2 = 1 /\ 4 \div 2 = 2
  OBVIOUS
<1>3. ScaleBits(1) = 0 /\ ScaleBits(2) = 1 /\ ScaleBits(4) = 2 /\ ScaleBits(8) = 3
  BY <1>2 DEF ScaleBits
<1>4. PICK k : k = ScaleBits(s)
  OBVIOUS
<1>5. k \in 0 .. 3 /\ 2 ^ k = s
  <2>1. CASE s = 1
    <3>1. k = 0 /\ 2 ^ k = s
      BY <1>1, <1>3, <1>4, <2>1, Zenon
    <3> QED
      BY <3>1
  <2>2. CASE s = 2
    <3>1. k = 1 /\ 2 ^ k = s
      BY <1>1, <1>3, <1>4, <2>2, Zenon
    <3> QED
      BY <3>1
  <2>3. CASE s = 4
    <3>1. k = 2 /\ 2 ^ k = s
      BY <1>1, <1>3, <1>4, <2>3, Zenon
    <3> QED
      BY <3>1
  <2>4. CASE s = 8
    <3>1. k = 3 /\ 2 ^ k = s
      BY <1>1, <1>3, <1>4, <2>4, Zenon
    <3> QED
      BY <3>1
  <2> QED
    BY <2>1, <2>2, <2>3, <2>4
<1> QED
  BY <1>4, <1>5

\* The bytes of an address give back its registers and its scale.
LEMMA AddressBits ==
  ASSUME NEW a \in 0 .. 31, NEW b \in 0 .. 31, NEW x \in 0 .. 31, NEW s \in {1, 2, 4, 8},
         NEW mod \in 0 .. 2, NEW sib \in BOOLEAN, sib <=> Announced(b, x),
         NEW mr, mr = ModByte(a, b, sib, mod), NEW sb, sb = SIBByte(b, x, s),
         NEW ox, ox = OREXByte(a, b, x, sib)
  PROVE AddressFields(mr, sb, ox, a, b, x, s, sib, mod)
<1>1. PICK la, lb, lx, ha, hb, hx, k :
        /\ la = a % 8 /\ lb = b % 8 /\ lx = x % 8 /\ k = ScaleBits(s)
        /\ ha = (a \div 8) % 4 /\ hb = (b \div 8) % 4 /\ hx = (x \div 8) % 4
  OBVIOUS
<1>2. /\ la \in 0 .. 7 /\ lb \in 0 .. 7 /\ lx \in 0 .. 7 /\ ha \in 0 .. 3 /\ hb \in 0 .. 3 /\ hx \in 0 .. 3
      /\ a = la + 8 * ha /\ b = lb + 8 * hb /\ x = lx + 8 * hx
  BY <1>1, SMT
<1>3. k \in 0 .. 3 /\ 2 ^ k = s
  BY <1>1, ScalePower
<1>4. sib <=> (x # 4 \/ lb = 4)
  BY <1>1 DEF Announced, Low3
<1>5. sb = 64 * k + 8 * lx + lb
  BY <1>1 DEF SIBByte, Low3
<1>6. sb \in 0 .. 255 /\ sb % 8 = lb /\ (sb \div 8) % 8 = lx /\ sb \div 64 = k
  BY <1>2, <1>3, <1>5, SMT
<1>7. a <= 7 /\ b <= 7 /\ x <= 7 => ha = 0 /\ hb = 0 /\ hx = 0
  BY <1>2
<1>8. CASE sib
  <2>1. mr = 64 * mod + 8 * la + 4 /\ ox = ha + (16 * hx + 64 * hb)
    BY <1>1, <1>8 DEF ModByte, OREXByte, Low3, High2
  <2>2. mr \in 0 .. 255 /\ mr % 8 = 4 /\ (mr \div 8) % 8 = la /\ mr \div 64 = mod
    BY <1>2, <2>1, SMT
  <2>3. ox \in 0 .. 255 /\ (ox \div 1) % 4 = ha /\ (ox \div 16) % 4 = hx /\ (ox \div 64) % 4 = hb
    BY <1>2, <2>1, SMT
  <2>4. ExtraBits(ox, 1) = 8 * ha /\ ExtraBits(ox, 16) = 8 * hx /\ ExtraBits(ox, 64) = 8 * hb
    BY <2>3, Zenon DEF ExtraBits
  <2>5. /\ ((mr \div 8) % 8) + ExtraBits(ox, 1) = a /\ (sb % 8) + ExtraBits(ox, 64) = b
        /\ ((sb \div 8) % 8) + ExtraBits(ox, 16) = x /\ 2 ^ (sb \div 64) = s
    BY <1>2, <1>3, <1>6, <2>2, <2>4
  <2>6. a <= 7 /\ b <= 7 /\ x <= 7 => ox = 0
    BY <1>7, <2>1
  <2>7. mr \in Byte /\ sb \in Byte /\ ox \in Byte
    BY <1>6, <2>2, <2>3 DEF Byte
  <2> QED
    BY <1>8, <2>2, <2>5, <2>6, <2>7, Zenon DEF AddressFields
<1>9. CASE ~sib
  <2>1. mr = 64 * mod + 8 * la + lb /\ ox = ha + 4 * hb /\ x = 4 /\ lb # 4
    BY <1>1, <1>4, <1>9 DEF ModByte, OREXByte, Low3, High2
  <2>2. mr \in 0 .. 255 /\ mr % 8 = lb /\ (mr \div 8) % 8 = la /\ mr \div 64 = mod
    BY <1>2, <2>1, SMT
  <2>3. ox \in 0 .. 15 /\ (ox \div 1) % 4 = ha /\ (ox \div 4) % 4 = hb
    BY <1>2, <2>1, SMT
  <2>4. ExtraBits(ox, 1) = 8 * ha /\ ExtraBits(ox, 4) = 8 * hb
    BY <2>3, Zenon DEF ExtraBits
  <2>5. ((mr \div 8) % 8) + ExtraBits(ox, 1) = a /\ (mr % 8) + ExtraBits(ox, 4) = b
    BY <1>2, <2>2, <2>4, Zenon
  <2>6. a <= 7 /\ b <= 7 /\ x <= 7 => ox = 0
    BY <1>7, <2>1
  <2>7. mr \in Byte /\ sb \in Byte /\ ox \in Byte /\ ox < 16
    <3>1. ox \in 0 .. 255 /\ ox < 16
      BY <2>3
    <3> QED
      BY <1>6, <2>2, <3>1 DEF Byte
  <2> QED
    BY <1>9, <2>1, <2>2, <2>5, <2>6, <2>7 DEF AddressFields
<1> QED
  BY <1>8, <1>9

\* The bytes of an address in front of what comes before the displacement.
AddressAt(bytes, at, mr, sb, ox, sib, ext, end) ==
  /\ At(bytes, at) = mr /\ at + 1 <= Len(bytes)
  /\ sib => At(bytes, at + 1) = sb /\ at + 2 <= Len(bytes)
  /\ ext => /\ At(bytes, at + (IF sib THEN 2 ELSE 1)) = ox
            /\ at + (IF sib THEN 2 ELSE 1) + 1 <= Len(bytes)
  /\ ~ext => ox = 0
  /\ end = at + (IF sib THEN 2 ELSE 1) + (IF ext THEN 1 ELSE 0)

\* getInstruction after an address without its displacement.
Located(r, c, bytes, m, ext, control, at, a, b, x, s, sib, mod) ==
  /\ Prefixed(r, bytes, m, ext, control, at)
  /\ r.opcode = c.opcode /\ r.name = c.name /\ r.form = c.form
  /\ r.reg = a /\ r.rm = b /\ r.index = x /\ r.scale = (IF sib THEN s ELSE 1)
  /\ (r.sib <=> sib) /\ r.mod = mod

\* getInstruction reads the registers of an address.
LEMMA AddressLocated ==
  ASSUME NEW bytes \in Seq(Byte), NEW c, NEW m, NEW ext \in BOOLEAN, NEW control, NEW at \in Nat,
         Prefixed(c, bytes, m, ext, control, at), c.form \in MemoryForms,
         NEW mr, NEW sb, NEW ox, NEW a, NEW b, NEW x, NEW s, NEW sib \in BOOLEAN, NEW mod \in 0 .. 2,
         AddressFields(mr, sb, ox, a, b, x, s, sib, mod), NEW end,
         AddressAt(bytes, at, mr, sb, ox, sib, ext, end), NEW r, r = ReadModRM(c)
  PROVE Located(r, c, bytes, m, ext, control, end, a, b, x, s, sib, mod)
<1> DEFINE modrm == At(c.bytes, c.at)
           md == modrm \div 64
           si == c.form \in MemoryForms /\ modrm % 8 = 4
           sibByte == At(c.bytes, c.at + 1)
           after == c.at + (IF si THEN 2 ELSE 1)
           orex == IF c.extended THEN At(c.bytes, after) ELSE 0
           low == IF si THEN sibByte % 8 ELSE modrm % 8
           next == after + (IF c.extended THEN 1 ELSE 0)
           reg == ((modrm \div 8) % 8) + ExtraBits(orex, 1)
           rm == low + (IF si THEN ExtraBits(orex, 64) ELSE ExtraBits(orex, 4))
           index == IF si THEN ((sibByte \div 8) % 8) + ExtraBits(orex, 16) ELSE 4
           scale == IF si THEN 2 ^ (sibByte \div 64) ELSE 1
           bad == \/ ~Holds(c.bytes, c.at, 1)
                  \/ (c.form \in MemoryForms) = (md = 3)
                  \/ si /\ ~Holds(c.bytes, c.at + 1, 1)
                  \/ c.extended /\ (~Holds(c.bytes, after, 1) \/ (~si /\ orex >= 16))
           opened == [c EXCEPT !.at = next, !.mod = md, !.sib = si, !.reg = reg, !.rm = rm,
                        !.index = index, !.scale = scale]
<1>1. /\ DOMAIN c = ReadingFields /\ c.ok = TRUE /\ c.bytes = bytes /\ c.at = at
      /\ (c.extended <=> ext) /\ Len(bytes) \in Nat
  BY LenProperties DEF Prefixed
<1>2. modrm = mr
  BY <1>1 DEF AddressAt
<1>3. md = mod /\ (si <=> sib)
  BY <1>2 DEF AddressFields
<1>4. after = at + (IF sib THEN 2 ELSE 1) /\ after \in Nat
  BY <1>1, <1>3
<1> HIDE DEF modrm, md, si, after
<1>5. orex = ox
  <2>1. CASE ext
    BY <1>1, <1>4, <2>1 DEF AddressAt
  <2>2. CASE ~ext
    BY <1>1, <2>2 DEF AddressAt
  <2> QED
    BY <2>1, <2>2
<1>6. sib => sibByte = sb
  BY <1>1 DEF AddressAt
<1>7. next = end
  BY <1>1, <1>4 DEF AddressAt
<1> HIDE DEF orex, sibByte
<1>8. reg = a
  BY <1>2, <1>5 DEF AddressFields
<1>9. rm = b /\ index = x /\ scale = (IF sib THEN s ELSE 1)
  <2>1. CASE sib
    <3>1. /\ (sb % 8) + ExtraBits(ox, 64) = b /\ ((sb \div 8) % 8) + ExtraBits(ox, 16) = x
          /\ 2 ^ (sb \div 64) = s
      BY <2>1 DEF AddressFields
    <3>2. rm = (sibByte % 8) + ExtraBits(orex, 64) /\ index = ((sibByte \div 8) % 8) + ExtraBits(orex, 16)
          /\ scale = 2 ^ (sibByte \div 64)
      BY <1>3, <2>1
    <3> QED
      BY <1>5, <1>6, <2>1, <3>1, <3>2
  <2>2. CASE ~sib
    <3>1. (mr % 8) + ExtraBits(ox, 4) = b /\ x = 4
      BY <2>2 DEF AddressFields
    <3>2. rm = (modrm % 8) + ExtraBits(orex, 4) /\ index = 4 /\ scale = 1
      BY <1>3, <2>2
    <3> QED
      BY <1>2, <1>5, <2>2, <3>1, <3>2
  <2> QED
    BY <2>1, <2>2
<1> HIDE DEF reg, rm, index, scale, next
<1>10. ~bad
  <2>1. Holds(c.bytes, c.at, 1)
    BY <1>1 DEF AddressAt, Holds
  <2>2. ~(si /\ ~Holds(c.bytes, c.at + 1, 1))
    <3>1. sib => at + 2 <= Len(bytes)
      BY DEF AddressAt
    <3> QED
      BY <1>1, <1>3, <3>1 DEF Holds
  <2>3. ext => Holds(c.bytes, after, 1)
    <3>1. ext => at + (IF sib THEN 2 ELSE 1) + 1 <= Len(bytes)
      BY DEF AddressAt
    <3> QED
      BY <1>1, <1>4, <3>1 DEF Holds
  <2>4. ~(~si /\ orex >= 16)
    <3>1. ~sib => ox < 16 /\ ox \in 0 .. 255
      BY DEF AddressFields, Byte
    <3>2. orex = ox /\ (si <=> sib)
      BY <1>3, <1>5
    <3>3. ASSUME ~si, orex >= 16 PROVE FALSE
      <4>1. ox < 16 /\ ox \in 0 .. 255
        BY <3>1, <3>2, <3>3
      <4>2. ox >= 16
        BY <3>2, <3>3
      <4> QED
        BY <4>1, <4>2
    <3> QED
      BY <3>3
  <2>5. (c.form \in MemoryForms) # (md = 3)
    BY <1>3
  <2> QED
    BY <1>1, <2>1, <2>2, <2>3, <2>4, <2>5
<1>11. r = IF bad THEN Fail ELSE opened
  BY DEF ReadModRM, modrm, md, si, after, orex, sibByte, reg, rm, index, scale, next
<1>12. /\ DOMAIN opened = ReadingFields /\ opened.ok = TRUE /\ opened.bytes = bytes
       /\ opened.at = next /\ opened.marker = c.marker /\ opened.extended = c.extended
       /\ opened.vector = c.vector /\ opened.width = c.width
       /\ opened.opcode = c.opcode /\ opened.name = c.name /\ opened.form = c.form
       /\ opened.reg = reg /\ opened.rm = rm /\ opened.index = index /\ opened.scale = scale
       /\ opened.sib = si /\ opened.mod = md
  <2>1. /\ DOMAIN opened = ReadingFields /\ opened.ok = TRUE /\ opened.bytes = bytes
        /\ opened.at = next /\ opened.marker = c.marker
    BY <1>1, ReadingNames
  <2>2. opened.extended = c.extended /\ opened.vector = c.vector /\ opened.width = c.width
    BY <1>1, ReadingNames
  <2>3. opened.opcode = c.opcode /\ opened.name = c.name /\ opened.form = c.form
    BY <1>1, ReadingNames
  <2>4. opened.reg = reg /\ opened.rm = rm
    BY <1>1, ReadingNames
  <2>5. opened.index = index /\ opened.scale = scale
    BY <1>1, ReadingNames
  <2>6. opened.sib = si /\ opened.mod = md
    BY <1>1, ReadingNames
  <2> QED
    BY <2>1, <2>2, <2>3, <2>4, <2>5, <2>6
<1> HIDE DEF opened, bad
<1>13. r = opened
  BY <1>10, <1>11
<1>14. Prefixed(r, bytes, m, ext, control, end)
  BY <1>1, <1>7, <1>12, <1>13 DEF Prefixed
<1> QED
  BY <1>3, <1>8, <1>9, <1>12, <1>13, <1>14 DEF Located
\* The displacement in the bytes ModR/M announces.
DispBytes(mod, d) == CASE mod = 0 -> <<>> [] mod = 1 -> LittleEndian(d, 1) [] mod = 2 -> LittleEndian(d, 4)

\* The operand group of an address.
IsAddress(mem, b, x, s, d) == mem[1] = GPR(b) /\ mem[2] = GPR(x) /\ mem[3] = Imm(s) /\ mem[4] = Imm(d)

\* The bytes of an address and of the instruction around it, part by part.
MemParted(control, code, a, b, x, s, d, middle, sib, ext, mod) ==
  (((((Prefix(ext, control) \o code) \o <<ModByte(a, b, sib, mod)>>)
      \o (IF sib THEN <<SIBByte(b, x, s)>> ELSE <<>>))
     \o (IF ext THEN <<OREXByte(a, b, x, sib)>> ELSE <<>>)) \o middle) \o DispBytes(mod, d)

\* OREX is written for a register above the seventh.
NeedsOrex(ext, a, b, x) == ext <=> (a > 7 \/ b > 7 \/ x > 7)

\* The SIB byte is written as ModR/M announces.
Tells(sib, b, x) == sib <=> Announced(b, x)

\* Without OREX no register needs its high bits.
NoHigh(ext, ox) == ~ext => ox = 0

\* What MemForm is given and what it writes.
MemGiven(control, code, a, b, x, s, d, mem, middle, f) ==
  /\ a \in 0 .. 31 /\ b \in 0 .. 31 /\ x \in 0 .. 31 /\ IsAddress(mem, b, x, s, d)
  /\ f = MemForm(control, code, a, mem, middle) /\ f.ok

\* How the address is spelt.
MemSpelt(b, x, a, d, sib, ext, mod) ==
  /\ sib \in BOOLEAN /\ ext \in BOOLEAN /\ Tells(sib, b, x) /\ NeedsOrex(ext, a, b, x) /\ mod = ModOf(b, d)

\* MemForm writes those parts.
LEMMA MemFormIs ==
  ASSUME NEW control, NEW code, NEW a, NEW b, NEW x, NEW s, NEW d, NEW mem, NEW middle, NEW f,
         MemGiven(control, code, a, b, x, s, d, mem, middle, f),
         NEW sib, NEW ext, NEW mod, MemSpelt(b, x, a, d, sib, ext, mod)
  PROVE d \in Word32 /\ f.bytes = MemParted(control, code, a, b, x, s, d, middle, sib, ext, mod)
<1>a. /\ a \in 0 .. 31 /\ b \in 0 .. 31 /\ x \in 0 .. 31 /\ IsAddress(mem, b, x, s, d)
      /\ f = MemForm(control, code, a, mem, middle) /\ f.ok
  BY DEF MemGiven
<1>b. sib \in BOOLEAN /\ ext \in BOOLEAN /\ Tells(sib, b, x) /\ NeedsOrex(ext, a, b, x) /\ mod = ModOf(b, d)
  BY DEF MemSpelt
<1> DEFINE base == mem[1][2]
           indexed == HasIndex(mem[2])
           index == IF indexed THEN mem[2][2] ELSE 4
           disp == mem[4][2]
           si == indexed \/ Low3(base) = 4
           md == IF disp = 0 /\ Low3(base) # 5 THEN 0 ELSE IF SInt8(disp) THEN 1 ELSE 2
           extended == a > 7 \/ base > 7 \/ (indexed /\ index > 7)
           orex == High2(a) + (IF si THEN 16 * High2(index) + 64 * High2(base)
                                   ELSE 4 * High2(base))
           modrm == 64 * md + 8 * Low3(a) + (IF si THEN 4 ELSE Low3(base))
           sibs == IF si THEN <<64 * ScaleBits(mem[3][2]) + 8 * Low3(index) + Low3(base)>>
                       ELSE <<>>
           orexes == IF extended THEN <<orex>> ELSE <<>>
           tail == CASE md = 0 -> <<>>
                  [] md = 1 -> LittleEndian(disp, 1)
                  [] md = 2 -> LittleEndian(disp, 4)
           bytes == (((((Prefix(extended, control) \o code) \o <<modrm>>) \o sibs)
                      \o orexes) \o middle) \o tail
<1>1. f = IF ~SInt32(mem[4]) THEN Rejected ELSE Bytes(bytes)
  BY <1>a, Zenon DEF MemForm
<1>2. base = b /\ mem[2] = GPR(x) /\ mem[2][2] = x /\ mem[3][2] = s /\ disp = d
  BY <1>a DEF IsAddress, GPR, Imm
<1>3. SInt32(mem[4])
  BY <1>1, <1>a DEF Rejected
<1>4. d \in Word32
  BY <1>2, <1>3 DEF SInt32
<1>5. f.bytes = bytes
  <2> HIDE DEF bytes
  <2> QED
    BY <1>1, <1>3 DEF Bytes, Emitted
<1>6. indexed <=> x # 4
  <2>1. GPR(x) # NoIndex /\ (GPR(x) = GPR(4) <=> x = 4)
    BY <1>a DEF GPR, NoIndex
  <2> QED
    BY <1>2, <2>1 DEF HasIndex
<1>7. index = x
  <2> HIDE DEF indexed
  <2> QED
    BY <1>2, <1>6
<1> HIDE DEF base, indexed, index, disp
<1>8. (si <=> sib) /\ (extended <=> ext) /\ md = mod
  BY <1>a, <1>b, <1>2, <1>6, <1>7 DEF Announced, ModOf, NeedsOrex, Tells
<1> HIDE DEF si, extended, md
<1>9. modrm = ModByte(a, b, sib, mod)
  BY <1>2, <1>8 DEF ModByte
<1>10. sibs = IF sib THEN <<SIBByte(b, x, s)>> ELSE <<>>
  <2>1. 64 * ScaleBits(mem[3][2]) + 8 * Low3(index) + Low3(base) = SIBByte(b, x, s)
    BY <1>2, <1>7 DEF SIBByte
  <2> QED
    BY <1>8, <2>1
<1>11. orex = OREXByte(a, b, x, sib)
  BY <1>2, <1>7, <1>8 DEF OREXByte
<1> HIDE DEF orex, modrm, sibs
<1>12. orexes = IF ext THEN <<OREXByte(a, b, x, sib)>> ELSE <<>>
  BY <1>8, <1>11
<1>13. tail = DispBytes(mod, d)
  BY <1>2, <1>8 DEF DispBytes
<1>14. Prefix(extended, control) = Prefix(ext, control)
  BY <1>8 DEF Prefix, Bit
<1> HIDE DEF orexes, tail
<1> QED
  BY <1>4, <1>5, <1>9, <1>10, <1>12, <1>13, <1>14 DEF MemParted

\* The parts of a memory form as one string.
Strung(w, control, code, mr, sb, ox, sib, ext, middle, tail) ==
  w = (((((Prefix(ext, control) \o code) \o <<mr>>) \o (IF sib THEN <<sb>> ELSE <<>>))
         \o (IF ext THEN <<ox>> ELSE <<>>)) \o middle) \o tail

\* Where the parts are: prefix, opcode, registers, middle, displacement.
MemFormAt(c, p, control, code, mr, sb, ox, sib, ext, q, e, middle, g, tail, end) ==
  /\ q \in Nat /\ Has(c, p, Prefix(ext, control)) /\ Has(c, q, code)
  /\ AddressAt(c, q + Len(code), mr, sb, ox, sib, ext, e)
  /\ e \in Nat /\ Has(c, e, middle) /\ g = e + Len(middle) /\ g \in Nat /\ Has(c, g, tail) /\ end = g + Len(tail)

\* Lengths one after the other.
LEMMA SumsShift ==
  \A i \in Nat, j \in Nat, k \in Nat : (i + j) + k = i + (j + k) /\ i + j \in Nat /\ (i + j) + k \in Nat
OBVIOUS

\* The parts of MemForm have their types.
MemPieces(control, code, mr, sb, ox, sib, ext, middle, tail) ==
  /\ control \in 0 .. 127 /\ code \in Seq(Byte) /\ mr \in Byte /\ sb \in Byte /\ ox \in Byte
  /\ middle \in Seq(Byte) /\ tail \in Seq(Byte) /\ sib \in BOOLEAN /\ ext \in BOOLEAN /\ NoHigh(ext, ox)

\* A string stands at p and ends at end.
StandsAt(c, p, w, end) == c \in Seq(Byte) /\ p \in Nat /\ Has(c, p, w) /\ end = p + Len(w)

\* The parts of MemForm, one after the other.
LEMMA MemFormHas ==
  ASSUME NEW c, NEW p, NEW control, NEW code, NEW mr, NEW sb, NEW ox, NEW middle, NEW tail,
         NEW sib, NEW ext, MemPieces(control, code, mr, sb, ox, sib, ext, middle, tail),
         NEW w, Strung(w, control, code, mr, sb, ox, sib, ext, middle, tail),
         NEW end, StandsAt(c, p, w, end), NEW q, q = p + Len(Prefix(ext, control))
  PROVE \E e, g : MemFormAt(c, p, control, code, mr, sb, ox, sib, ext, q, e, middle, g, tail, end)
<1>a. /\ control \in 0 .. 127 /\ code \in Seq(Byte) /\ mr \in Byte /\ sb \in Byte /\ ox \in Byte
      /\ middle \in Seq(Byte) /\ tail \in Seq(Byte) /\ sib \in BOOLEAN /\ ext \in BOOLEAN
  BY DEF MemPieces
<1>b. ~ext => ox = 0
  BY DEF MemPieces, NoHigh
<1>c. c \in Seq(Byte) /\ p \in Nat
  BY DEF StandsAt
<1>d. Has(c, p, w) /\ end = p + Len(w)
  BY DEF StandsAt
<1> USE <1>a, <1>b, <1>c, <1>d
<1>1. PICK pre, one, y, z : /\ pre = Prefix(ext, control) /\ one = <<mr>>
                            /\ y = (IF sib THEN <<sb>> ELSE <<>>) /\ z = (IF ext THEN <<ox>> ELSE <<>>)
  BY Zenon
<1>2. /\ pre \in Seq(Byte) /\ one \in Seq(Byte) /\ Len(one) = 1
      /\ y \in Seq(Byte) /\ Len(y) = (IF sib THEN 1 ELSE 0)
      /\ z \in Seq(Byte) /\ Len(z) = (IF ext THEN 1 ELSE 0)
  <2>1. pre \in Seq(Byte)
    BY <1>1, PrefixString, Zenon
  <2>2. y \in Seq(Byte) /\ Len(y) = (IF sib THEN 1 ELSE 0)
    BY <1>1, NoBytes, SingleByte
  <2>3. z \in Seq(Byte) /\ Len(z) = (IF ext THEN 1 ELSE 0)
    BY <1>1, NoBytes, SingleByte
  <2> QED
    BY <1>1, <2>1, <2>2, <2>3, SingleByte
<1>3. PICK s1, s2, s3, s4, s5 : /\ s1 = pre \o code /\ s2 = s1 \o one /\ s3 = s2 \o y
                                /\ s4 = s3 \o z /\ s5 = s4 \o middle
  BY Zenon
<1>4. w = s5 \o tail
  BY <1>1, <1>3 DEF Strung
<1>5. PICK l0, l1, l2, l3, l4, l5, lc, ly, lz, lm, lt :
        /\ l0 = Len(pre) /\ l1 = Len(s1) /\ l2 = Len(s2) /\ l3 = Len(s3) /\ l4 = Len(s4) /\ l5 = Len(s5)
        /\ lc = Len(code) /\ ly = Len(y) /\ lz = Len(z) /\ lm = Len(middle) /\ lt = Len(tail)
  BY Zenon
<1>51. /\ pre \in Seq(Byte) /\ one \in Seq(Byte) /\ y \in Seq(Byte) /\ z \in Seq(Byte)
       /\ Len(one) = 1 /\ Len(y) = ly /\ Len(z) = lz /\ Len(middle) = lm /\ Len(tail) = lt
  BY <1>2, <1>5
<1>52. ly = (IF sib THEN 1 ELSE 0) /\ lz = (IF ext THEN 1 ELSE 0)
  BY <1>2, <1>5
<1>6. s1 \in Seq(Byte) /\ l1 = l0 + lc
  BY <1>2, <1>3, <1>5, ConcatLen
<1>7. s2 \in Seq(Byte) /\ l2 = l1 + 1
  <2>1. s1 \o one \in Seq(Byte) /\ Len(s1 \o one) = Len(s1) + 1
    BY <1>6, <1>51, ConcatLen, Zenon
  <2> QED
    BY <1>3, <1>5, <2>1
<1>8. s3 \in Seq(Byte) /\ l3 = l2 + ly
  <2>1. s2 \o y \in Seq(Byte) /\ Len(s2 \o y) = Len(s2) + ly
    BY <1>7, <1>51, ConcatLen, Zenon
  <2> QED
    BY <1>3, <1>5, <2>1
<1>9. s4 \in Seq(Byte) /\ l4 = l3 + lz
  <2>1. s3 \o z \in Seq(Byte) /\ Len(s3 \o z) = Len(s3) + lz
    BY <1>8, <1>51, ConcatLen, Zenon
  <2> QED
    BY <1>3, <1>5, <2>1
<1>10. s5 \in Seq(Byte) /\ l5 = l4 + lm
  <2>1. s4 \o middle \in Seq(Byte) /\ Len(s4 \o middle) = Len(s4) + lm
    BY <1>9, <1>51, ConcatLen, Zenon
  <2> QED
    BY <1>3, <1>5, <2>1
<1>11. Len(w) = l5 + lt
  <2>1. Len(s5 \o tail) = Len(s5) + lt
    BY <1>10, <1>51, ConcatLen, Zenon
  <2>2. w = s5 \o tail
    BY <1>4
  <2> QED
    BY <1>5, <2>1, <2>2
<1>12. /\ l0 \in Nat /\ l1 \in Nat /\ l2 \in Nat /\ l3 \in Nat /\ l4 \in Nat /\ l5 \in Nat
       /\ lc \in Nat /\ lm \in Nat /\ lt \in Nat /\ Len(c) \in Nat
  BY <1>2, <1>5, <1>6, <1>7, <1>8, <1>9, <1>10, LenProperties
<1>13. Has(c, p, s5) /\ Has(c, p + l5, tail)
  <2>1. Has(c, p, s5 \o tail)
    BY <1>4
  <2> QED
    BY <1>5, <1>10, <2>1, HasConcat, Zenon
<1>14. Has(c, p, s4) /\ Has(c, p + l4, middle)
  <2>1. Has(c, p, s4 \o middle)
    BY <1>3, <1>13
  <2> QED
    BY <1>5, <1>9, <2>1, HasConcat, Zenon
<1>15. Has(c, p, s3) /\ Has(c, p + l3, z)
  <2>1. Has(c, p, s3 \o z)
    BY <1>3, <1>14
  <2> QED
    BY <1>2, <1>5, <1>8, <2>1, HasConcat, Zenon
<1>16. Has(c, p, s2) /\ Has(c, p + l2, y)
  <2>1. Has(c, p, s2 \o y)
    BY <1>3, <1>15
  <2> QED
    BY <1>2, <1>5, <1>7, <2>1, HasConcat, Zenon
<1>17. Has(c, p, s1) /\ Has(c, p + l1, one)
  <2>1. Has(c, p, s1 \o one)
    BY <1>3, <1>16
  <2> QED
    BY <1>2, <1>5, <1>6, <2>1, HasConcat, Zenon
<1>18. Has(c, p, pre) /\ Has(c, p + l0, code)
  <2>1. Has(c, p, pre \o code)
    BY <1>3, <1>17
  <2> QED
    BY <1>2, <1>5, <2>1, HasConcat, Zenon
<1>19. PICK at, as, az, e, g : at = p + l1 /\ as = p + l2 /\ az = p + l3 /\ e = p + l4 /\ g = p + l5
  OBVIOUS
<1>20. /\ q = p + l0 /\ q \in Nat /\ at = q + lc /\ at \in Nat /\ as = at + 1 /\ as \in Nat
       /\ az = as + ly /\ az \in Nat /\ e = az + lz /\ e \in Nat /\ g = e + lm /\ g \in Nat
       /\ end = g + lt
  <2>10. q = p + l0
    BY <1>1, <1>5
  <2>11. l0 \in Nat /\ lc \in Nat /\ l1 = l0 + lc /\ at = p + l1
    BY <1>6, <1>12, <1>19
  <2>12. (p + l0) + lc = p + (l0 + lc) /\ p + l0 \in Nat /\ (p + l0) + lc \in Nat
    BY <2>11, SumsShift
  <2>1. q = p + l0 /\ q \in Nat /\ at = q + lc /\ at \in Nat
    BY <2>10, <2>11, <2>12, Zenon
  <2>2. as = at + 1 /\ as \in Nat
    BY <1>7, <1>12, <1>19
  <2>3. ly \in Nat /\ lz \in Nat
    BY <1>52
  <2>4. az = as + ly /\ az \in Nat
    BY <1>8, <1>12, <1>19, <2>3
  <2>5. e = az + lz /\ e \in Nat
    BY <1>9, <1>12, <1>19, <2>3
  <2>6. g = e + lm /\ g \in Nat
    BY <1>10, <1>12, <1>19
  <2>70. PICK lw : lw = Len(w)
    BY Zenon
  <2>71. end = p + lw /\ lw = l5 + lt /\ g = p + l5 /\ l5 \in Nat /\ lt \in Nat
    BY <1>11, <1>12, <1>19, <2>70
  <2>72. (p + l5) + lt = p + (l5 + lt)
    BY <2>71, SumsShift
  <2>7. end = g + lt
    BY <2>71, <2>72, Zenon
  <2> QED
    BY <2>1, <2>2, <2>4, <2>5, <2>6, <2>7
<1>21. At(c, at) = mr /\ at + 1 <= Len(c)
  BY <1>1, <1>17, <1>19, <1>20, HasOne, Zenon
<1>22. sib => At(c, at + 1) = sb /\ at + 2 <= Len(c)
  <2>1. SUFFICES ASSUME sib PROVE At(c, at + 1) = sb /\ at + 2 <= Len(c)
    OBVIOUS
  <2>2. Has(c, as, <<sb>>)
    BY <1>1, <1>16, <1>19, <2>1
  <2>3. At(c, as) = sb /\ as + 1 <= Len(c)
    BY <1>20, <2>2, HasOne, Zenon
  <2> QED
    BY <1>12, <1>20, <2>3
<1>23. az = at + (IF sib THEN 2 ELSE 1)
  <2>1. as = at + 1 /\ az = as + ly /\ at \in Nat
    BY <1>20
  <2>2. CASE sib
    <3>1. ly = 1
      BY <1>52, <2>2
    <3> QED
      BY <2>1, <2>2, <3>1
  <2>3. CASE ~sib
    <3>1. ly = 0
      BY <1>52, <2>3
    <3> QED
      BY <2>1, <2>3, <3>1
  <2> QED
    BY <2>2, <2>3
<1>24. ext => At(c, az) = ox /\ az + 1 <= Len(c)
  <2>1. SUFFICES ASSUME ext PROVE At(c, az) = ox /\ az + 1 <= Len(c)
    OBVIOUS
  <2>2. Has(c, az, <<ox>>)
    BY <1>1, <1>15, <1>19, <2>1
  <2> QED
    BY <1>20, <2>2, HasOne, Zenon
<1>25. AddressAt(c, at, mr, sb, ox, sib, ext, e)
  <2>1. e = at + (IF sib THEN 2 ELSE 1) + (IF ext THEN 1 ELSE 0)
    <3>1. lz = IF ext THEN 1 ELSE 0
      BY <1>52
    <3> QED
      BY <1>20, <1>23, <3>1
  <2>2. ext => /\ At(c, at + (IF sib THEN 2 ELSE 1)) = ox
               /\ at + (IF sib THEN 2 ELSE 1) + 1 <= Len(c)
    BY <1>23, <1>24
  <2> QED
    BY <1>21, <1>22, <2>1, <2>2 DEF AddressAt, NoHigh
<1>26. Has(c, e, middle) /\ Has(c, g, tail)
  BY <1>13, <1>14, <1>19
<1>27. at = q + Len(code) /\ g = e + Len(middle) /\ end = g + Len(tail) /\ Has(c, q, code)
       /\ Has(c, p, Prefix(ext, control))
  BY <1>1, <1>5, <1>18, <1>20
<1>28. MemFormAt(c, p, control, code, mr, sb, ox, sib, ext, q, e, middle, g, tail, end)
  BY <1>20, <1>25, <1>26, <1>27 DEF MemFormAt
<1> QED
  BY <1>28
\* getInstruction after the registers of an address.
MemState(f, bytes, i, a, b, x, s, d, control, e) ==
  /\ DOMAIN f = ReadingFields /\ f.ok = TRUE /\ f.bytes = bytes /\ f.at = e
  /\ f.marker = i.marker /\ (f.vector <=> (control \div 64) % 2 = 1)
  /\ f.width = (control \div 8) % 8
  /\ f.opcode = BaseName(i.name)
  /\ f.name = (IF i.name = "MOVV128" THEN i.name ELSE BaseName(i.name))
  /\ f.form = FormFor(i.name) /\ f.reg = a /\ f.rm = b /\ f.index = x
  /\ f.scale = (IF Announced(b, x) THEN s ELSE 1) /\ (f.sib <=> Announced(b, x))
  /\ f.mod = ModOf(b, d)

\* The displacement stands at g and ends the instruction.
Displaced(bytes, b, d, g, end) ==
  /\ g \in Nat /\ d \in Word32 /\ Has(bytes, g, DispBytes(ModOf(b, d), d))
  /\ end = g + Len(DispBytes(ModOf(b, d), d))

\* What is left to read: the bytes before the displacement, and the displacement.
MemOpened(bytes, i, a, b, x, s, d, control, middle, e, g, f, end, r, is64) ==
  /\ e \in Nat /\ Has(bytes, e, middle) /\ g = e + Len(middle) /\ Displaced(bytes, b, d, g, end)
  /\ MemState(f, bytes, i, a, b, x, s, d, control, e)
  /\ r = ReadOperands(ScalarName(ReadVectorCtl(f)), is64)

\* The displacement is a byte string.
LEMMA DispString ==
  ASSUME NEW d \in Word32, NEW mod \in 0 .. 2
  PROVE DispBytes(mod, d) \in Seq(Byte)
<1>1. d \in Int
  BY WordIsInteger
<1>2. LittleEndian(d, 1) \in Seq(Byte) /\ LittleEndian(d, 4) \in Seq(Byte)
  BY <1>1, LittleEndianBytes
<1> QED
  BY <1>2, NoBytes DEF DispBytes

\* The way a displacement is written is one of three.
LEMMA ModRange == \A b, d : ModOf(b, d) \in 0 .. 2
BY DEF ModOf

\* An opcode does not begin like a marker or a prefix.
LEMMA NoMarker ==
  ASSUME NEW n \in DOMAIN Records PROVE OpcodeAt(n)[1] \notin {253, 254}
<1>1. PICK o \in 0 .. 219 : o = OpcodeOf(n)
  BY OpcodesBelow, Zenon
<1>2. o # 253 /\ o # 254
  OBVIOUS
<1>3. OpcodeAt(n)[1] = o \/ OpcodeAt(n)[1] = 255
  BY <1>1 DEF OpcodeAt
<1> QED
  BY <1>2, <1>3

\* The bytes of a memory instruction behind its marker, and what getInstruction makes of them.
MemStarts(bytes, i, is64, w, at, end, r) ==
  /\ bytes \in Seq(Byte) /\ i.name \in DOMAIN Records /\ FormFor(i.name) \in MemoryForms
  /\ Marked(bytes, 0, i.marker, at) /\ w.ok /\ Has(bytes, at, w.bytes)
  /\ end = at + Len(w.bytes) /\ r = GetInstruction(bytes, is64)

\* An instruction written with MemForm: its control byte, its register and its address.
MemWritten(i, control, a, b, x, s, d, mem, middle, w) ==
  /\ control \in 0 .. 127 /\ control % 8 = 0 /\ PrefixFits(i.name, (control \div 64) % 2 = 1)
  /\ a \in 0 .. 31 /\ b \in 0 .. 31 /\ x \in 0 .. 31 /\ s \in {1, 2, 4, 8}
  /\ IsAddress(mem, b, x, s, d) /\ middle \in Seq(Byte)
  /\ w = MemForm(control, OpcodeBytes(i), a, mem, middle)

\* An instruction the emitter wrote with MemForm is read up to the registers of its address.
LEMMA MemFormRead ==
  ASSUME NEW bytes, NEW i, NEW is64, NEW control, NEW a, NEW b, NEW x, NEW s, NEW d, NEW mem,
         NEW middle, NEW w, NEW at, NEW end, NEW r, MemStarts(bytes, i, is64, w, at, end, r),
         MemWritten(i, control, a, b, x, s, d, mem, middle, w)
  PROVE \E e, g, f : MemOpened(bytes, i, a, b, x, s, d, control, middle, e, g, f, end, r, is64)
<1>a. /\ bytes \in Seq(Byte) /\ i.name \in DOMAIN Records /\ FormFor(i.name) \in MemoryForms
      /\ Marked(bytes, 0, i.marker, at) /\ w.ok /\ Has(bytes, at, w.bytes)
      /\ end = at + Len(w.bytes) /\ r = GetInstruction(bytes, is64)
  BY DEF MemStarts
<1>b. /\ control \in 0 .. 127 /\ control % 8 = 0
      /\ PrefixFits(i.name, (control \div 64) % 2 = 1)
  BY DEF MemWritten
<1>c. /\ a \in 0 .. 31 /\ b \in 0 .. 31 /\ x \in 0 .. 31 /\ s \in {1, 2, 4, 8}
      /\ IsAddress(mem, b, x, s, d)
  BY DEF MemWritten
<1>d. middle \in Seq(Byte) /\ w = MemForm(control, OpcodeBytes(i), a, mem, middle)
  BY DEF MemWritten
<1>1. PICK m, n, code : m = i.marker /\ n = i.name /\ code = OpcodeBytes(i)
  OBVIOUS
<1>2. m \in 0 .. 10 /\ at = 0 + Len(MarkBytes(m)) /\ at \in Nat /\ Has(bytes, 0, MarkBytes(m))
  BY <1>1, <1>a, MarkLength DEF Marked
<1>3. code = OpcodeAt(n) /\ code \in Seq(Byte) /\ Len(code) > 0 /\ Len(code) \in Nat
  <2>1. code = OpcodeAt(n)
    BY <1>1 DEF OpcodeBytes, OpcodeAt
  <2>2. code \in Seq(Byte) /\ Len(code) > 0
    BY <1>1, <1>a, OpcodeString
  <2> QED
    BY <2>1, <2>2, LenProperties
<1>4. PICK ext \in BOOLEAN, sib \in BOOLEAN : NeedsOrex(ext, a, b, x) /\ Tells(sib, b, x)
  BY Zenon DEF NeedsOrex, Tells
<1>41. ext \in BOOLEAN /\ sib \in BOOLEAN
  OBVIOUS
<1>42. sib <=> Announced(b, x)
  BY <1>4 DEF Tells
<1>5. PICK mod : mod = ModOf(b, d)
  OBVIOUS
<1>6. mod \in 0 .. 2
  BY <1>5, ModRange
<1>7. PICK mr, sb, ox : mr = ModByte(a, b, sib, mod) /\ sb = SIBByte(b, x, s) /\ ox = OREXByte(a, b, x, sib)
  OBVIOUS
<1>8. AddressFields(mr, sb, ox, a, b, x, s, sib, mod)
  BY <1>c, <1>41, <1>42, <1>6, <1>7, AddressBits, Zenon
<1>9. mr \in Byte /\ sb \in Byte /\ ox \in Byte /\ NoHigh(ext, ox)
  <2>1. ~ext => a <= 7 /\ b <= 7 /\ x <= 7
    BY <1>c, <1>4 DEF NeedsOrex
  <2> QED
    BY <1>8, <2>1 DEF AddressFields, NoHigh
<1>10. d \in Word32 /\ w.bytes = MemParted(control, code, a, b, x, s, d, middle, sib, ext, mod)
  <2>1. w = MemForm(control, code, a, mem, middle)
    BY <1>1, <1>d
  <2> QED
    <3>1. MemGiven(control, code, a, b, x, s, d, mem, middle, w)
      BY <1>a, <1>c, <2>1 DEF MemGiven
    <3>2. MemSpelt(b, x, a, d, sib, ext, mod)
      BY <1>4, <1>41, <1>5 DEF MemSpelt
    <3> QED
      BY <3>1, <3>2, MemFormIs
<1>11. PICK tail : tail = DispBytes(mod, d)
  OBVIOUS
<1>12. tail \in Seq(Byte)
  BY <1>6, <1>10, <1>11, DispString
<1>13. PICK v : v = w.bytes
  OBVIOUS
<1>14. Strung(v, control, code, mr, sb, ox, sib, ext, middle, tail)
  BY <1>7, <1>10, <1>11, <1>13, Zenon DEF MemParted, Strung
<1>15. PICK pre, q : pre = Prefix(ext, control) /\ q = at + Len(pre)
  OBVIOUS
<1>16. PICK e, g : MemFormAt(bytes, at, control, code, mr, sb, ox, sib, ext, q, e, middle, g, tail, end)
  <2>1. Has(bytes, at, v) /\ end = at + Len(v)
    BY <1>a, <1>13
  <2>2. q = at + Len(Prefix(ext, control))
    BY <1>15
  <2> QED
    <3>1. MemPieces(control, code, mr, sb, ox, sib, ext, middle, tail)
      BY <1>b, <1>d, <1>3, <1>9, <1>12, <1>41 DEF MemPieces
    <3>2. StandsAt(bytes, at, v, end)
      BY <1>a, <1>2, <2>1 DEF StandsAt
    <3> QED
      BY <1>14, <2>2, <3>1, <3>2, MemFormHas
<1>17. PICK next : next = q + Len(code)
  OBVIOUS
<1>18. /\ q \in Nat /\ Has(bytes, at, pre) /\ Has(bytes, q, code) /\ next \in Nat
       /\ AddressAt(bytes, next, mr, sb, ox, sib, ext, e)
       /\ e \in Nat /\ Has(bytes, e, middle) /\ g = e + Len(middle) /\ g \in Nat /\ Has(bytes, g, tail)
       /\ end = g + Len(tail)
  BY <1>3, <1>15, <1>16, <1>17 DEF MemFormAt
<1>19. Leads(bytes, 0, m, ext, control, q)
  <2>1. code[1] \notin {253, 254}
    BY <1>1, <1>a, <1>3, NoMarker
  <2>2. At(bytes, q + 1 - 1) = code[1] /\ q + Len(code) <= Len(bytes)
    <3>1. 1 \in 1 .. Len(code)
      BY <1>3
    <3> QED
      BY <1>18, <3>1 DEF Has
  <2>3. q + 1 - 1 = q /\ q < Len(bytes)
    BY <1>a, <1>3, <1>18, <2>2, LenProperties
  <2>4. PICK op : op = At(bytes, q)
    OBVIOUS
  <2>5. op \notin {253, 254}
    BY <2>1, <2>2, <2>3, <2>4
  <2>6. Has(bytes, at, Prefix(ext, control)) /\ q = at + Len(Prefix(ext, control))
    BY <1>15, <1>18
  <2>8. PICK mark : mark = MarkBytes(m)
    OBVIOUS
  <2>9. 0 + Len(mark) = at /\ q < Len(bytes) /\ At(bytes, q) \notin {253, 254} /\ Has(bytes, 0, mark)
    BY <1>2, <2>3, <2>4, <2>5, <2>8
  <2> QED
    BY <2>6, <2>8, <2>9 DEF Leads, MarkBytes
<1>20. PICK y, c, f : y = ReadPrefixes(bytes) /\ c = ReadOpcode(y) /\ f = ReadModRM(c)
  OBVIOUS
<1>21. Prefixed(y, bytes, m, ext, control, q)
  BY <1>a, <1>b, <1>2, <1>41, <1>19, <1>20, PrefixesRead, Zenon
<1>22. y.vector <=> (control \div 64) % 2 = 1
  BY <1>21 DEF Prefixed
<1>23. Picked(c, bytes, m, ext, control, next, n)
  <2>1. n = "MOVV128" => y.vector
    BY <1>1, <1>b, <1>22 DEF PrefixFits
  <2>2. n = "MOVrr" => ~y.vector
    BY <1>1, <1>b, <1>22 DEF PrefixFits
  <2>3. n \in DOMAIN Records
    BY <1>1, <1>a
  <2> QED
    BY <1>a, <1>3, <1>17, <1>18, <1>20, <1>21, <2>1, <2>2, <2>3, NameRead
<1>24. Prefixed(c, bytes, m, ext, control, next) /\ c.form = FormFor(n) /\ c.opcode = BaseName(n)
         /\ c.name = (IF n = "MOVV128" THEN n ELSE BaseName(n))
  BY <1>23 DEF Picked
<1>25. Located(f, c, bytes, m, ext, control, e, a, b, x, s, sib, mod)
  <2>1. c.form \in MemoryForms
    BY <1>1, <1>a, <1>24
  <2> QED
    BY <1>a, <1>41, <1>6, <1>8, <1>18, <1>20, <1>24, <2>1, AddressLocated, ZenonT(60)
<1>26. MemState(f, bytes, i, a, b, x, s, d, control, e)
  <2>1. /\ DOMAIN f = ReadingFields /\ f.ok = TRUE /\ f.bytes = bytes /\ f.at = e /\ f.marker = m
        /\ (f.vector <=> (control \div 64) % 2 = 1) /\ f.width = (control \div 8) % 8
        /\ f.opcode = c.opcode /\ f.name = c.name /\ f.form = c.form
        /\ f.reg = a /\ f.rm = b /\ f.index = x /\ f.scale = (IF sib THEN s ELSE 1)
        /\ (f.sib <=> sib) /\ f.mod = mod
    BY <1>25 DEF Located, Prefixed
  <2>2. f.scale = (IF Announced(b, x) THEN s ELSE 1)
    BY <1>42, <2>1
  <2> QED
    BY <1>1, <1>42, <1>5, <1>24, <2>1, <2>2 DEF MemState
<1>27. r = ReadOperands(ScalarName(ReadVectorCtl(f)), is64)
  <2>1. r = ReadInstruction(c, is64)
    BY <1>a, <1>20 DEF GetInstruction
  <2>2. c.ok = TRUE /\ c.form \notin {"NoOperand", "TrapImm", "FrameImm", "Branch"}
    <3>1. c.form \in MemoryForms
      BY <1>1, <1>a, <1>24
    <3> QED
      BY <1>24, <3>1 DEF Prefixed, MemoryForms
  <2> QED
    BY <1>20, <2>1, <2>2 DEF ReadInstruction, ReadWithModRM
<1>28. Displaced(bytes, b, d, g, end)
  BY <1>5, <1>10, <1>11, <1>18 DEF Displaced
<1> QED
  BY <1>18, <1>26, <1>27, <1>28 DEF MemOpened

\* getInstruction before the displacement of an address.
MemReady(h, bytes, i, a, b, x, s, d, vec, p) ==
  /\ DOMAIN h = ReadingFields /\ h.ok = TRUE /\ h.bytes = bytes /\ h.at = p
  /\ h.marker = i.marker /\ (h.vector <=> vec) /\ h.name = i.name
  /\ h.form = FormFor(i.name) /\ h.reg = a /\ h.rm = b /\ h.index = x
  /\ h.scale = (IF Announced(b, x) THEN s ELSE 1) /\ (h.sib <=> Announced(b, x))
  /\ h.mod = ModOf(b, d)

\* A name given to what has been read changes nothing else.
LEMMA MemNamed ==
  ASSUME NEW f, NEW bytes, NEW i, NEW a, NEW b, NEW x, NEW s, NEW d, NEW control, NEW e, NEW vec,
         MemState(f, bytes, i, a, b, x, s, d, control, e), vec <=> (control \div 64) % 2 = 1,
         NEW n, n = i.name, NEW h, h = [f EXCEPT !.name = n]
  PROVE MemReady(h, bytes, i, a, b, x, s, d, vec, e)
<1>1. /\ DOMAIN f = ReadingFields /\ f.ok = TRUE /\ f.bytes = bytes /\ f.at = e
      /\ f.marker = i.marker /\ (f.vector <=> vec) /\ f.form = FormFor(i.name)
      /\ f.reg = a /\ f.rm = b /\ f.index = x
      /\ f.scale = (IF Announced(b, x) THEN s ELSE 1) /\ (f.sib <=> Announced(b, x))
      /\ f.mod = ModOf(b, d)
  BY DEF MemState
<1>2. /\ DOMAIN h = ReadingFields /\ h.ok = f.ok /\ h.bytes = f.bytes /\ h.at = f.at
      /\ h.marker = f.marker /\ h.vector = f.vector /\ h.name = n /\ h.form = f.form
      /\ h.reg = f.reg /\ h.rm = f.rm /\ h.index = f.index /\ h.scale = f.scale
      /\ h.sib = f.sib /\ h.mod = f.mod
  BY <1>1, ReadingNames
<1> QED
  BY <1>1, <1>2 DEF MemReady

\* Without VectorCtl nothing but the name is found after an address.
LEMMA MemPlain ==
  ASSUME NEW f, NEW bytes, NEW i, i.name \in DOMAIN Opcodes, ClassOf(i.name) \notin {"FPXLoad", "FPXStore"},
         NEW a, NEW b, NEW x, NEW s, NEW d, NEW e, MemState(f, bytes, i, a, b, x, s, d, 0, e),
         NEW h, h = ScalarName(ReadVectorCtl(f))
  PROVE MemReady(h, bytes, i, a, b, x, s, d, FALSE, e)
<1>1. PICK n : n = i.name
  OBVIOUS
<1>2. (0 \div 64) % 2 = 0
  OBVIOUS
<1>3. /\ f.ok = TRUE /\ ~f.vector /\ f.opcode = BaseName(n)
      /\ f.name = (IF n = "MOVV128" THEN n ELSE BaseName(n))
  BY <1>1, <1>2 DEF MemState
<1>4. ReadVectorCtl(f) = f
  BY <1>3 DEF ReadVectorCtl
<1>5. ScalarRecord(f) = n
  BY <1>1, <1>3, PlainRecord
<1>6. h = [f EXCEPT !.name = n]
  BY <1>3, <1>4, <1>5 DEF ScalarName
<1>7. PICK control : control = 0
  OBVIOUS
<1>8. MemState(f, bytes, i, a, b, x, s, d, control, e) /\ (FALSE <=> (control \div 64) % 2 = 1)
  BY <1>2, <1>7
<1> QED
  BY <1>1, <1>6, <1>8, MemNamed, Zenon

\* VectorCtl stands before the displacement.
LEMMA MemVector ==
  ASSUME NEW f, NEW bytes, NEW i, i.name \in DOMAIN Records, ClassOf(i.name) \notin {"FPXLoad", "FPXStore"},
         NEW a, NEW b, NEW x, NEW s, NEW d, NEW e \in Nat, MemState(f, bytes, i, a, b, x, s, d, 64, e),
         NEW next, next = e + 1, next <= Len(bytes), At(bytes, e) = 8 * LaneOf(i.name),
         NEW h, h = ScalarName(ReadVectorCtl(f))
  PROVE MemReady(h, bytes, i, a, b, x, s, d, TRUE, next)
<1>1. PICK n, lane : n = i.name /\ lane = LaneOf(i.name)
  OBVIOUS
<1>2. (64 \div 64) % 2 = 1
  OBVIOUS
<1>3. /\ DOMAIN f = ReadingFields /\ f.ok = TRUE /\ f.vector /\ f.opcode = BaseName(n)
      /\ f.name = (IF n = "MOVV128" THEN n ELSE BaseName(n)) /\ f.bytes = bytes /\ f.at = e
  BY <1>1, <1>2 DEF MemState
<1>4. lane \in {2, 3, 4}
  BY <1>1, LaneRange
<1>5. PICK control : control = At(f.bytes, f.at)
  OBVIOUS
<1>6. control = 8 * lane
  BY <1>1, <1>3, <1>5
<1>7. control % 8 = 0 /\ ~(control >= 64) /\ control \div 8 = lane
  BY <1>4, <1>6
<1>8. PICK g : g = ReadVectorCtl(f)
  OBVIOUS
<1>9. g = [f EXCEPT !.at = @ + 1, !.lane = lane]
  <2>1. Holds(f.bytes, f.at, 1)
    BY <1>3 DEF Holds
  <2>2. g = [f EXCEPT !.at = @ + 1, !.lane = control \div 8]
    BY <1>3, <1>5, <1>7, <1>8, <2>1 DEF ReadVectorCtl
  <2> QED
    BY <1>7, <2>2, Zenon
<1>10. /\ DOMAIN g = ReadingFields /\ g.ok = f.ok /\ g.bytes = f.bytes /\ g.at = next
       /\ g.marker = f.marker /\ g.vector = f.vector /\ g.name = f.name /\ g.form = f.form
       /\ g.reg = f.reg /\ g.rm = f.rm /\ g.lane = lane /\ g.opcode = f.opcode
       /\ g.width = f.width /\ g.index = f.index /\ g.scale = f.scale /\ g.sib = f.sib
       /\ g.mod = f.mod
  BY <1>3, <1>9, ReadingNames, Zenon
<1>11. ScalarRecord(g) = n
  <2>1. g.opcode = BaseName(n) /\ g.name = (IF n = "MOVV128" THEN n ELSE BaseName(n))
        /\ g.vector /\ g.lane = LaneOf(n)
    BY <1>1, <1>3, <1>10
  <2> QED
    BY <1>1, <2>1, LaneRecord
<1>12. h = [g EXCEPT !.name = n]
  BY <1>3, <1>8, <1>10, <1>11 DEF ScalarName
<1>13. MemState(g, bytes, i, a, b, x, s, d, 64, next)
  BY <1>10 DEF MemState
<1>14. PICK c : c = 64
  OBVIOUS
<1>15. MemState(g, bytes, i, a, b, x, s, d, c, next) /\ (TRUE <=> (c \div 64) % 2 = 1)
  BY <1>2, <1>13, <1>14
<1> QED
  BY <1>1, <1>12, <1>15, MemNamed, Zenon

\* The width of a scalar in memory, as the prefix announces it.
ScalarWidth(n) == IF WidthOf(n) # 0 THEN WidthOf(n) ELSE 4

\* The width tells the binary32 and binary128 loads and stores from the binary64 ones.
LEMMA WidthRecord ==
  ASSUME NEW n \in DOMAIN Records, ClassOf(n) \in {"FPXLoad", "FPXStore"},
         NEW c, c.opcode = BaseName(n), c.name = (IF n = "MOVV128" THEN n ELSE BaseName(n)),
         ~c.vector, c.width = ScalarWidth(n)
  PROVE ScalarRecord(c) = n
<1>1. n # "MOVV128"
  <2>1. ClassOf("MOVV128") = "CopyVV"
    <3>1. "MOVV128" \in DOMAIN Variants /\ "MOVV128" \notin DOMAIN Opcodes
      <4>1. "MOVV128" \in DOMAIN Variants
        BY SMT DEF Variants
      <4>2. "MOVV128" \notin DOMAIN Opcodes
        BY SMT DEF Opcodes
      <4> QED
        BY <4>1, <4>2
    <3>2. Variants["MOVV128"][2] = "CopyVV"
      BY SMTT(60) DEF Variants
    <3> QED
      BY <3>1, <3>2 DEF ClassOf, Records
  <2> QED
    BY <2>1
<1>2. PICK b : b = BaseName(n)
  OBVIOUS
<1>3. b \in DOMAIN Opcodes /\ ClassOf(b) \in {"FPXLoad", "FPXStore"} /\ c.opcode = b /\ c.name = b
  BY <1>1, <1>2, Bases
<1>4. b \in {"FLD64", "FST64"}
  <2>1. \A m \in DOMAIN Opcodes : Opcodes[m][2] \in {"FPXLoad", "FPXStore"} => m \in {"FLD64", "FST64"}
    BY SMTT(60) DEF Opcodes
  <2>2. b \in DOMAIN Records
    BY <1>3 DEF Records
  <2>3. ClassOf(b) = Opcodes[b][2]
    BY <1>3, <2>2, RecordFields
  <2> QED
    BY <1>3, <2>1, <2>3
<1>5. b \in DOMAIN ScalarVariants
  BY <1>4, SMT DEF ScalarVariants
<1>6. CASE n \in DOMAIN Opcodes
  <2>1. b = n /\ WidthOf(n) = 0
    BY <1>2, <1>6, Bases DEF BaseName
  <2>2. c.width = 4
    BY <2>1 DEF ScalarWidth
  <2> QED
    BY <1>3, <1>4, <1>5, <2>1, <2>2 DEF ScalarRecord
<1>7. CASE n \notin DOMAIN Opcodes
  <2>1. n \in DOMAIN Variants \ {"MOVV128"} /\ b = BaseOf[n]
    BY <1>1, <1>2, <1>7, Bases DEF BaseName
  <2>2. \/ Variants[n][3] = 3 /\ ScalarVariants[b][1] = n
        \/ Variants[n][3] = 5 /\ ScalarVariants[b][2] = n
    BY <2>1, VariantWidths
  <2>3. WidthOf(n) = Variants[n][3]
    BY <1>7, <2>1 DEF WidthOf, Records
  <2>4. CASE Variants[n][3] = 3 /\ ScalarVariants[b][1] = n
    <3>1. c.width = 3
      BY <2>3, <2>4 DEF ScalarWidth
    <3> QED
      BY <1>3, <1>4, <1>5, <2>4, <3>1 DEF ScalarRecord
  <2>5. CASE Variants[n][3] = 5 /\ ScalarVariants[b][2] = n
    <3>1. c.width = 5
      BY <2>3, <2>5 DEF ScalarWidth
    <3> QED
      BY <1>3, <1>4, <1>5, <2>5, <3>1 DEF ScalarRecord
  <2> QED
    BY <2>2, <2>4, <2>5
<1> QED
  BY <1>6, <1>7

\* A scalar load or store is named by the width in its prefix.
LEMMA MemScalar ==
  ASSUME NEW f, NEW bytes, NEW i, i.name \in DOMAIN Records, ClassOf(i.name) \in {"FPXLoad", "FPXStore"},
         NEW a, NEW b, NEW x, NEW s, NEW d, NEW e, NEW control, control = ScalarOperandControl(i),
         MemState(f, bytes, i, a, b, x, s, d, control, e),
         NEW h, h = ScalarName(ReadVectorCtl(f))
  PROVE MemReady(h, bytes, i, a, b, x, s, d, FALSE, e)
<1>1. PICK n, w : n = i.name /\ w = WidthOf(i.name)
  OBVIOUS
<1>2. w \in {0, 3, 5}
  BY <1>1, RecordRange
<1>3. control = (IF w # 0 THEN 8 * w ELSE 32)
  BY <1>1 DEF ScalarOperandControl
<1>4. (control \div 64) % 2 = 0 /\ (control \div 8) % 8 = (IF w # 0 THEN w ELSE 4)
  BY <1>2, <1>3
<1>5. /\ f.ok = TRUE /\ ~f.vector /\ f.opcode = BaseName(n) /\ f.width = ScalarWidth(n)
      /\ f.name = (IF n = "MOVV128" THEN n ELSE BaseName(n))
  BY <1>1, <1>4 DEF MemState, ScalarWidth
<1>6. ReadVectorCtl(f) = f
  BY <1>5 DEF ReadVectorCtl
<1>7. ScalarRecord(f) = n
  BY <1>1, <1>5, WidthRecord
<1>8. h = [f EXCEPT !.name = n]
  BY <1>5, <1>6, <1>7 DEF ScalarName
<1>9. FALSE <=> (control \div 64) % 2 = 1
  BY <1>4
<1> QED
  BY <1>1, <1>8, <1>9, MemNamed, Zenon

\* getInstruction at the end of an address.
MemDone(h, i, a, b, x, s, d, vec, extra, end) ==
  /\ h.ok = TRUE /\ h.marker = i.marker /\ h.name = i.name /\ h.form = FormFor(i.name)
  /\ h.reg = a /\ h.rm = b /\ h.index = x /\ h.scale = (IF Announced(b, x) THEN s ELSE 1)
  /\ h.disp = d /\ h.extra = extra /\ h.at = end /\ (h.vector <=> vec)

\* The displacement is read as it was written.
LEMMA DisplacementReadBack ==
  ASSUME NEW c, NEW bytes \in Seq(Byte), NEW i, NEW a, NEW b \in 0 .. 31, NEW x, NEW s, NEW d, NEW vec,
         NEW p, MemReady(c, bytes, i, a, b, x, s, d, vec, p), NEW end, Displaced(bytes, b, d, p, end),
         NEW extra, c.extra = extra, NEW h, h = ReadDisplacement(c)
  PROVE MemDone(h, i, a, b, x, s, d, vec, extra, end)
<1>1. PICK mod : mod = ModOf(b, d)
  BY Zenon
<1>2. /\ p \in Nat /\ d \in Word32 /\ Has(bytes, p, DispBytes(mod, d)) /\ end = p + Len(DispBytes(mod, d))
  BY <1>1 DEF Displaced
<1>3. /\ DOMAIN c = ReadingFields /\ c.ok = TRUE /\ c.bytes = bytes /\ c.at = p /\ c.rm = b
      /\ (c.sib <=> Announced(b, x)) /\ c.mod = mod
  BY <1>1 DEF MemReady
<1>4. mod \in 0 .. 2 /\ (mod = 0 => d = 0 /\ b % 8 # 5) /\ (mod = 1 => SInt8(d))
  BY <1>1 DEF ModOf, Low3
<1>5. d \in Int
  BY <1>2, WordIsInteger
<1>6. PICK q, v : /\ q = p + (CASE mod = 0 -> 0 [] mod = 1 -> 1 [] mod = 2 -> 4)
                  /\ v = (CASE mod = 0 -> 0 [] mod = 1 -> Signed8(At(bytes, p))
                            [] mod = 2 -> Signed32(bytes, p))
  BY Zenon
<1>7. /\ q = end /\ v = d /\ ~(mod = 1 /\ ~Holds(bytes, p, 1)) /\ ~(mod = 2 /\ ~Holds(bytes, p, 4))
  <2>1. CASE mod = 0
    <3>1. DispBytes(mod, d) = <<>> /\ Len(<<>>) = 0
      BY <2>1 DEF DispBytes
    <3>2. q = p /\ v = 0 /\ p + 0 = p
      BY <1>2, <1>6, <2>1
    <3> QED
      BY <1>2, <1>4, <2>1, <3>1, <3>2
  <2>2. CASE mod = 1
    <3>1. PICK t : t = LittleEndian(d, 1)
      OBVIOUS
    <3>2. DispBytes(mod, d) = t
      BY <2>2, <3>1 DEF DispBytes
    <3>3. t \in Seq(Byte) /\ Len(t) = 1 /\ t[1] = d % 256
      BY <1>5, <3>1, LittleEndianBytes, OneByte
    <3>4. Has(bytes, p, t) /\ end = p + 1
      BY <1>2, <3>2, <3>3
    <3>5. At(bytes, p + 1 - 1) = t[1] /\ p + 1 <= Len(bytes)
      <4>1. 1 \in 1 .. Len(t)
        BY <3>3
      <4> QED
        BY <3>3, <3>4, <4>1 DEF Has
    <3>6. At(bytes, p) = d % 256
      <4>1. p + 1 - 1 = p
        BY <1>2
      <4> QED
        BY <3>3, <3>5, <4>1
    <3>7. Signed8(d % 256) = d
      BY <1>4, <2>2, ByteFromByte
    <3>8. q = p + 1 /\ v = Signed8(At(bytes, p))
      BY <1>6, <2>2
    <3>9. Holds(bytes, p, 1)
      BY <1>2, <3>5, LenProperties DEF Holds
    <3> QED
      BY <2>2, <3>4, <3>6, <3>7, <3>8, <3>9
  <2>3. CASE mod = 2
    <3>1. PICK t : t = LittleEndian(d, 4)
      OBVIOUS
    <3>2. DispBytes(mod, d) = t
      BY <2>3, <3>1 DEF DispBytes
    <3>3. t \in Seq(Byte) /\ Len(t) = 4
      BY <1>5, <3>1, LittleEndianBytes
    <3>4. Has(bytes, p, t) /\ end = p + 4
      BY <1>2, <3>2, <3>3
    <3>5. Signed32(bytes, p) = d /\ p + 4 <= Len(bytes)
      BY <1>2, <3>1, <3>4, ReadsWord
    <3>6. q = p + 4 /\ v = Signed32(bytes, p)
      BY <1>6, <2>3
    <3>7. Holds(bytes, p, 4)
      BY <1>2, <3>5, LenProperties DEF Holds
    <3> QED
      BY <2>3, <3>4, <3>5, <3>6, <3>7
  <2> QED
    BY <1>4, <2>1, <2>2, <2>3
<1>8. h = [c EXCEPT !.at = q, !.disp = v]
  <2>1. ~(~c.sib /\ c.mod = 0 /\ c.rm % 8 = 5)
    BY <1>3, <1>4
  <2> QED
    BY <1>3, <1>6, <1>7, <2>1, Zenon DEF ReadDisplacement
<1>9. /\ DOMAIN h = ReadingFields /\ h.ok = c.ok /\ h.at = q
      /\ h.marker = c.marker /\ h.vector = c.vector /\ h.name = c.name /\ h.form = c.form
      /\ h.reg = c.reg /\ h.rm = c.rm /\ h.index = c.index /\ h.scale = c.scale
      /\ h.disp = v /\ h.extra = c.extra
  BY <1>3, <1>8, ReadingNames
<1> QED
  BY <1>7, <1>9 DEF MemReady, MemDone

\* What is left of the bytes for an address: the byte before the displacement, and it.
MemLeft(h, bytes, i, a, b, x, s, d, vec, rest, p, g, end, r, is64) ==
  /\ bytes \in Seq(Byte) /\ p \in Nat /\ Has(bytes, p, rest) /\ g = p + Len(rest)
  /\ Displaced(bytes, b, d, g, end) /\ MemReady(h, bytes, i, a, b, x, s, d, vec, p)
  /\ b \in 0 .. 31 /\ FormFor(i.name) \in MemoryForms /\ r = ReadOperands(h, is64)

\* What an address is read as.
MemResult(h, i, a, b, x, s, d, vec, extra, end, r) ==
  MemDone(h, i, a, b, x, s, d, vec, extra, end) /\ r = ReadMemory(h)

\* An address without a byte of its own before the displacement.
LEMMA AddressOnly ==
  ASSUME NEW h, NEW bytes, NEW i, NEW a, NEW b, NEW x, NEW s, NEW d, NEW vec, NEW rest, rest = <<>>,
         NEW p, NEW g, NEW end, NEW r, NEW is64,
         MemLeft(h, bytes, i, a, b, x, s, d, vec, rest, p, g, end, r, is64),
         FormFor(i.name) \notin ExtraByteForms
  PROVE \E k, extra : MemResult(k, i, a, b, x, s, d, vec, extra, end, r)
<1>1. /\ bytes \in Seq(Byte) /\ p \in Nat /\ g = p + Len(rest)
      /\ Displaced(bytes, b, d, g, end) /\ MemReady(h, bytes, i, a, b, x, s, d, vec, p)
      /\ b \in 0 .. 31 /\ FormFor(i.name) \in MemoryForms /\ r = ReadOperands(h, is64)
  BY DEF MemLeft
<1>2. Displaced(bytes, b, d, p, end)
  <2>1. Len(rest) = 0 /\ p + 0 = p
    BY <1>1
  <2>2. g = p
    BY <1>1, <2>1
  <2> QED
    BY <1>1, <2>2
<1>3. h.ok = TRUE /\ h.form = FormFor(i.name)
  BY <1>1 DEF MemReady
<1>4. r = ReadMemory(ReadDisplacement(h))
  <2>1. r = ReadMemoryForm(h)
    BY <1>1, <1>3 DEF ReadOperands, MemoryForms
  <2>2. ReadExtraByte(h) = h
    BY <1>3 DEF ReadExtraByte
  <2> QED
    BY <2>1, <2>2 DEF ReadMemoryForm
<1>5. PICK k, extra : k = ReadDisplacement(h) /\ extra = h.extra
  OBVIOUS
<1>6. MemDone(k, i, a, b, x, s, d, vec, extra, end)
  BY <1>1, <1>2, <1>5, DisplacementReadBack, Zenon
<1> QED
  BY <1>4, <1>5, <1>6 DEF MemResult

\* An address with a byte before the displacement: a register, or a mask.
LEMMA AddressAndByte ==
  ASSUME NEW h, NEW bytes, NEW i, NEW a, NEW b, NEW x, NEW s, NEW d, NEW vec, NEW rest, NEW extra,
         rest = <<extra>>, NEW p, NEW g, NEW end, NEW r, NEW is64,
         MemLeft(h, bytes, i, a, b, x, s, d, vec, rest, p, g, end, r, is64),
         FormFor(i.name) \in ExtraByteForms,
         FormFor(i.name) \in {"AVXGather", "AVXScatter"} => vec,
         FormFor(i.name) \in {"PairStore", "AtomicCAS"} => ~(extra > 31)
  PROVE \E k : MemResult(k, i, a, b, x, s, d, vec, extra, end, r)
<1>1. /\ bytes \in Seq(Byte) /\ p \in Nat /\ Has(bytes, p, rest) /\ g = p + Len(rest)
      /\ Displaced(bytes, b, d, g, end) /\ MemReady(h, bytes, i, a, b, x, s, d, vec, p)
      /\ b \in 0 .. 31 /\ FormFor(i.name) \in MemoryForms /\ r = ReadOperands(h, is64)
  BY DEF MemLeft
<1>2. Holds(bytes, p, 1) /\ At(bytes, p) = extra /\ g = p + 1
  BY <1>1, ByteTail
<1>3. /\ DOMAIN h = ReadingFields /\ h.ok = TRUE /\ h.form = FormFor(i.name) /\ h.bytes = bytes
      /\ h.at = p /\ (h.vector <=> vec)
  BY <1>1 DEF MemReady
<1>4. PICK c : c = ReadExtraByte(h)
  OBVIOUS
<1>5. c = [h EXCEPT !.at = @ + 1, !.extra = extra]
  BY <1>2, <1>3, <1>4 DEF ReadExtraByte
<1>6. /\ DOMAIN c = ReadingFields /\ c.ok = h.ok /\ c.bytes = h.bytes /\ c.at = g
      /\ c.marker = h.marker /\ c.vector = h.vector /\ c.name = h.name /\ c.form = h.form
      /\ c.reg = h.reg /\ c.rm = h.rm /\ c.index = h.index /\ c.scale = h.scale
      /\ c.sib = h.sib /\ c.mod = h.mod /\ c.extra = extra
  BY <1>2, <1>3, <1>5, ReadingNames
<1>7. MemReady(c, bytes, i, a, b, x, s, d, vec, g)
  <2>1. MemReady(h, bytes, i, a, b, x, s, d, vec, p)
    BY <1>1
  <2> QED
    BY <1>6, <2>1 DEF MemReady
<1>8. r = ReadMemory(ReadDisplacement(c))
  <2>1. r = ReadMemoryForm(h)
    BY <1>1, <1>3 DEF ReadOperands, MemoryForms
  <2> QED
    BY <1>4, <2>1 DEF ReadMemoryForm
<1>9. PICK k : k = ReadDisplacement(c)
  OBVIOUS
<1>10. MemDone(k, i, a, b, x, s, d, vec, extra, end)
  BY <1>1, <1>6, <1>7, <1>9, DisplacementReadBack, Zenon
<1> QED
  BY <1>8, <1>9, <1>10 DEF MemResult

\* An address operand of an instruction, as the disassembler finds it: an index it does not
\* read has no scale.
MemoryRead(h, i, a, m, vec, extra, end, r) ==
  /\ h.ok = TRUE /\ h.marker = i.marker /\ h.name = i.name /\ h.form = FormFor(i.name)
  /\ h.reg = a /\ h.at = end /\ (h.vector <=> vec) /\ h.extra = extra
  /\ GPR(h.rm) = i.ops[m] /\ GPR(h.index) = i.ops[m + 1] /\ Imm(h.disp) = i.ops[m + 3]
  /\ Imm(h.scale) = i.ops[m + 2] \/ (i.ops[m + 1] = GPR(4) /\ h.scale = 1)
  /\ r = ReadMemory(h)

\* The registers and numbers of an address of an instruction.
HasAddress(i, m, mem, b, x, s, d) ==
  /\ b \in 0 .. 31 /\ x \in 0 .. 31 /\ s \in {1, 2, 4, 8} /\ IsAddress(mem, b, x, s, d)
  /\ i.ops[m] = GPR(b) /\ i.ops[m + 1] = GPR(x) /\ i.ops[m + 2] = Imm(s) /\ i.ops[m + 3] = Imm(d)

\* A memory operand is an address.
LEMMA OperandAddress ==
  ASSUME NEW i, NEW m \in Nat \ {0}, HoldsKind("m", i.ops, m), NEW mem, mem = Mem(i, m)
  PROVE \E b, x, s, d : HasAddress(i, m, mem, b, x, s, d)
<1>1. PICK b, x, s, d : /\ b = i.ops[m][2] /\ x = i.ops[m + 1][2]
                        /\ s = i.ops[m + 2][2] /\ d = i.ops[m + 3][2]
  BY Zenon
<1>2. PICK ops : ops = i.ops
  OBVIOUS
<1>3. m \in Nat /\ HoldsKind("m", ops, m)
  BY <1>2
<1>4. /\ ops[m] = GPR(b) /\ ops[m + 1] = GPR(x) /\ ops[m + 2] = Imm(s) /\ ops[m + 3] = Imm(d)
      /\ b \in 0 .. 31 /\ x \in 0 .. 31 /\ s \in {1, 2, 4, 8}
  BY <1>1, <1>2, <1>3, AddressKind
<1>5. IsAddress(mem, b, x, s, d)
  BY <1>2, <1>4, MemParts DEF IsAddress
<1> QED
  BY <1>2, <1>4, <1>5 DEF HasAddress

\* What is read of an address is what it has.
LEMMA ResultRead ==
  ASSUME NEW i, NEW m, NEW mem, NEW b, NEW x, NEW s, NEW d, HasAddress(i, m, mem, b, x, s, d),
         NEW h, NEW a, NEW vec, NEW extra, NEW end, NEW r, MemResult(h, i, a, b, x, s, d, vec, extra, end, r)
  PROVE MemoryRead(h, i, a, m, vec, extra, end, r)
<1>1. /\ h.ok = TRUE /\ h.marker = i.marker /\ h.name = i.name /\ h.form = FormFor(i.name)
      /\ h.reg = a /\ h.rm = b /\ h.index = x /\ h.scale = (IF Announced(b, x) THEN s ELSE 1)
      /\ h.disp = d /\ h.extra = extra /\ h.at = end /\ (h.vector <=> vec) /\ r = ReadMemory(h)
  BY DEF MemResult, MemDone
<1>2. i.ops[m] = GPR(b) /\ i.ops[m + 1] = GPR(x) /\ i.ops[m + 2] = Imm(s) /\ i.ops[m + 3] = Imm(d)
  BY DEF HasAddress
<1>3. h.scale = s \/ (x = 4 /\ h.scale = 1)
  BY <1>1 DEF Announced
<1>4. Imm(h.scale) = i.ops[m + 2] \/ (i.ops[m + 1] = GPR(4) /\ h.scale = 1)
  BY <1>2, <1>3
<1> QED
  BY <1>1, <1>2, <1>4 DEF MemoryRead

\* The bytes of an instruction with an address and what getInstruction makes of them.
MemEmits(bytes, i, is64, body, at, end, r, m) ==
  /\ body.ok /\ Starts(bytes, i, is64, body.bytes, at, end, r)
  /\ m \in Nat \ {0} /\ HoldsKind("m", i.ops, m) /\ FormFor(i.name) \in MemoryForms

\* A move is not read as an address.
LEMMA NotMoved ==
  ASSUME NEW n \in DOMAIN Records, FormFor(n) \in MemoryForms, NEW vec PROVE PrefixFits(n, vec)
<1>1. n # "MOVV128"
  BY DEF FormFor, MemoryForms
<1>2. n # "MOVrr"
  <2>1. SUFFICES ASSUME n = "MOVrr" PROVE FALSE
    OBVIOUS
  <2>2. "MOVrr" \in DOMAIN Opcodes /\ Opcodes["MOVrr"][2] = "CopyRR"
    BY SMTT(60) DEF Opcodes
  <2>3. ClassOf(n) = "CopyRR"
    BY <2>1, <2>2, RecordFields
  <2>4. Class["CopyRR"][1] = 0 /\ DecodeForm["CopyRR"] = "CopyRR"
    BY SMT DEF Class, DecodeForm
  <2>5. FormFor(n) = "CopyRR"
    BY <2>3, <2>4, FormForClass
  <2> QED
    BY <2>5 DEF MemoryForms
<1> QED
  BY <1>1, <1>2 DEF PrefixFits

\* What MemForm writes is read up to the registers of the address.
LEMMA MemEmitted ==
  ASSUME NEW bytes, NEW i, NEW is64, NEW body, NEW at, NEW end, NEW r, NEW m,
         MemEmits(bytes, i, is64, body, at, end, r, m), NEW control \in 0 .. 127, control % 8 = 0,
         NEW a \in 0 .. 31, NEW middle \in Seq(Byte), NEW mem, mem = Mem(i, m),
         body = MemForm(control, OpcodeBytes(i), a, mem, middle)
  PROVE \E b, x, s, d, e, g, f : /\ HasAddress(i, m, mem, b, x, s, d)
                                 /\ MemOpened(bytes, i, a, b, x, s, d, control, middle, e, g, f, end, r, is64)
<1>1. /\ body.ok /\ Starts(bytes, i, is64, body.bytes, at, end, r)
      /\ m \in Nat \ {0} /\ HoldsKind("m", i.ops, m) /\ FormFor(i.name) \in MemoryForms
  BY DEF MemEmits
<1>2. PICK b, x, s, d : HasAddress(i, m, mem, b, x, s, d)
  BY <1>1, OperandAddress
<1>3. MemStarts(bytes, i, is64, body, at, end, r)
  BY <1>1 DEF MemStarts, Starts
<1>4. MemWritten(i, control, a, b, x, s, d, mem, middle, body)
  <2>1. PICK vec : vec = ((control \div 64) % 2 = 1)
    OBVIOUS
  <2>2. i.name \in DOMAIN Records
    BY <1>1 DEF Starts
  <2>3. PrefixFits(i.name, (control \div 64) % 2 = 1)
    BY <1>1, <2>1, <2>2, NotMoved
  <2>4. b \in 0 .. 31 /\ x \in 0 .. 31 /\ s \in {1, 2, 4, 8} /\ IsAddress(mem, b, x, s, d)
    BY <1>2 DEF HasAddress
  <2> QED
    BY <2>3, <2>4 DEF MemWritten
<1>5. PICK e, g, f : MemOpened(bytes, i, a, b, x, s, d, control, middle, e, g, f, end, r, is64)
  BY <1>3, <1>4, MemFormRead
<1> QED
  BY <1>2, <1>5

\* A plain instruction with an address is read back.
LEMMA PlainMemoryRead ==
  ASSUME NEW bytes, NEW i, NEW is64, NEW body, NEW at, NEW end, NEW r, NEW m,
         MemEmits(bytes, i, is64, body, at, end, r, m), ClassOf(i.name) \notin VariantClasses,
         NEW a \in 0 .. 31, body = MemForm(0, OpcodeBytes(i), a, Mem(i, m), <<>>),
         FormFor(i.name) \notin ExtraByteForms
  PROVE \E h, extra : MemoryRead(h, i, a, m, FALSE, extra, end, r)
<1>1. PICK mem, rest : mem = Mem(i, m) /\ rest = <<>>
  OBVIOUS
<1>2. rest \in Seq(Byte) /\ 0 \in 0 .. 127 /\ 0 % 8 = 0
  BY <1>1, NoBytes
<1>3. PICK b, x, s, d, e, g, f : /\ HasAddress(i, m, mem, b, x, s, d)
                                 /\ MemOpened(bytes, i, a, b, x, s, d, 0, rest, e, g, f, end, r, is64)
  BY <1>1, <1>2, MemEmitted, Zenon
<1>4. PICK h : h = ScalarName(ReadVectorCtl(f))
  OBVIOUS
<1>5. /\ e \in Nat /\ Has(bytes, e, rest) /\ g = e + Len(rest) /\ Displaced(bytes, b, d, g, end)
      /\ MemState(f, bytes, i, a, b, x, s, d, 0, e) /\ r = ReadOperands(h, is64)
  BY <1>3, <1>4 DEF MemOpened
<1>6. i.name \in DOMAIN Records /\ bytes \in Seq(Byte) /\ FormFor(i.name) \in MemoryForms
  BY DEF MemEmits, Starts
<1>7. i.name \in DOMAIN Opcodes /\ ClassOf(i.name) \notin {"FPXLoad", "FPXStore"}
  BY <1>6, OwnPlace DEF VariantClasses
<1>8. MemReady(h, bytes, i, a, b, x, s, d, FALSE, e)
  BY <1>4, <1>5, <1>7, MemPlain, Zenon
<1>9. PICK vec : vec = FALSE
  BY Zenon
<1>10. MemLeft(h, bytes, i, a, b, x, s, d, vec, rest, e, g, end, r, is64)
  <2>1. b \in 0 .. 31
    BY <1>3 DEF HasAddress
  <2> QED
    BY <1>5, <1>6, <1>8, <1>9, <2>1, Zenon DEF MemLeft
<1>11. PICK k, extra : MemResult(k, i, a, b, x, s, d, vec, extra, end, r)
  BY <1>1, <1>10, AddressOnly
<1>12. MemoryRead(k, i, a, m, vec, extra, end, r)
  BY <1>3, <1>11, ResultRead
<1> QED
  BY <1>9, <1>12, Zenon

\* A plain instruction with an address and another register is read back.
LEMMA PlainMemoryByte ==
  ASSUME NEW bytes, NEW i, NEW is64, NEW body, NEW at, NEW end, NEW r, NEW m,
         MemEmits(bytes, i, is64, body, at, end, r, m), ClassOf(i.name) \notin VariantClasses,
         NEW a \in 0 .. 31, NEW v \in 0 .. 31, body = MemForm(0, OpcodeBytes(i), a, Mem(i, m), <<v>>),
         FormFor(i.name) \in {"PairStore", "AtomicCAS"}
  PROVE \E h : MemoryRead(h, i, a, m, FALSE, v, end, r)
<1>1. PICK mem, rest : mem = Mem(i, m) /\ rest = <<v>>
  OBVIOUS
<1>2. rest \in Seq(Byte) /\ 0 \in 0 .. 127 /\ 0 % 8 = 0
  <2>1. v \in Byte
    BY DEF Byte
  <2> QED
    BY <1>1, <2>1, SingleByte
<1>3. PICK b, x, s, d, e, g, f : /\ HasAddress(i, m, mem, b, x, s, d)
                                 /\ MemOpened(bytes, i, a, b, x, s, d, 0, rest, e, g, f, end, r, is64)
  BY <1>1, <1>2, MemEmitted, Zenon
<1>4. PICK h : h = ScalarName(ReadVectorCtl(f))
  OBVIOUS
<1>5. /\ e \in Nat /\ Has(bytes, e, rest) /\ g = e + Len(rest) /\ Displaced(bytes, b, d, g, end)
      /\ MemState(f, bytes, i, a, b, x, s, d, 0, e) /\ r = ReadOperands(h, is64)
  BY <1>3, <1>4 DEF MemOpened
<1>6. i.name \in DOMAIN Records /\ bytes \in Seq(Byte) /\ FormFor(i.name) \in MemoryForms
  BY DEF MemEmits, Starts
<1>7. i.name \in DOMAIN Opcodes /\ ClassOf(i.name) \notin {"FPXLoad", "FPXStore"}
  BY <1>6, OwnPlace DEF VariantClasses
<1>8. MemReady(h, bytes, i, a, b, x, s, d, FALSE, e)
  BY <1>4, <1>5, <1>7, MemPlain, Zenon
<1>9. PICK vec : vec = FALSE
  BY Zenon
<1>10. MemLeft(h, bytes, i, a, b, x, s, d, vec, rest, e, g, end, r, is64)
  <2>1. b \in 0 .. 31
    BY <1>3 DEF HasAddress
  <2> QED
    BY <1>5, <1>6, <1>8, <1>9, <2>1, Zenon DEF MemLeft
<1>11. PICK k : MemResult(k, i, a, b, x, s, d, vec, v, end, r)
  <2>1. FormFor(i.name) \in ExtraByteForms /\ FormFor(i.name) \notin {"AVXGather", "AVXScatter"}
    BY DEF ExtraByteForms
  <2>2. ~(v > 31)
    OBVIOUS
  <2> QED
    BY <1>1, <1>10, <2>1, <2>2, AddressAndByte
<1>12. MemoryRead(k, i, a, m, vec, v, end, r)
  BY <1>3, <1>11, ResultRead
<1> QED
  BY <1>9, <1>12, Zenon

\* VectorCtl is the first of the bytes before the displacement.
LEMMA VectorOpened ==
  ASSUME NEW bytes \in Seq(Byte), NEW i, i.name \in DOMAIN Records, FormFor(i.name) \in MemoryForms,
         ClassOf(i.name) \notin {"FPXLoad", "FPXStore"}, NEW is64, NEW r, NEW end,
         NEW a, NEW b \in 0 .. 31, NEW x, NEW s, NEW d,
         NEW lanes, lanes = 8 * LaneOf(i.name), NEW rest \in Seq(Byte), NEW middle, middle = <<lanes>> \o rest,
         NEW e, NEW g, NEW f, MemOpened(bytes, i, a, b, x, s, d, 64, middle, e, g, f, end, r, is64)
  PROVE \E p, h : MemLeft(h, bytes, i, a, b, x, s, d, TRUE, rest, p, g, end, r, is64)
<1>1. PICK h : h = ScalarName(ReadVectorCtl(f))
  OBVIOUS
<1>2. /\ e \in Nat /\ Has(bytes, e, middle) /\ g = e + Len(middle) /\ Displaced(bytes, b, d, g, end)
      /\ MemState(f, bytes, i, a, b, x, s, d, 64, e) /\ r = ReadOperands(h, is64)
  BY <1>1 DEF MemOpened
<1>3. lanes \in Byte
  BY LaneRange
<1>4. PICK one : one = <<lanes>>
  OBVIOUS
<1>5. one \in Seq(Byte) /\ Len(one) = 1
  BY <1>3, <1>4, SingleByte
<1>6. Has(bytes, e, one) /\ Has(bytes, e + 1, rest)
  <2>1. Has(bytes, e, one \o rest)
    BY <1>2, <1>4
  <2> QED
    BY <1>2, <1>5, <2>1, HasConcat, Zenon
<1>7. At(bytes, e) = lanes /\ e + 1 <= Len(bytes)
  BY <1>2, <1>4, <1>6, HasOne
<1>8. PICK p : p = e + 1
  OBVIOUS
<1>9. MemReady(h, bytes, i, a, b, x, s, d, TRUE, p)
  <2>1. At(bytes, e) = 8 * LaneOf(i.name) /\ p <= Len(bytes)
    BY <1>7, <1>8
  <2> QED
    BY <1>1, <1>2, <1>8, <2>1, MemVector, Zenon
<1>10. g = p + Len(rest) /\ p \in Nat /\ Has(bytes, p, rest)
  <2>0. PICK lr : lr = Len(rest)
    OBVIOUS
  <2>5. one \o rest \in Seq(Byte) /\ Len(one \o rest) = Len(one) + lr
    BY <1>5, <2>0, ConcatLen, Zenon
  <2>1. Len(one \o rest) = 1 + Len(rest) /\ Len(rest) \in Nat
    BY <1>5, <2>0, <2>5, LenProperties
  <2>2. PICK l, n : l = Len(rest) /\ n = Len(middle)
    OBVIOUS
  <2>3. n = 1 + l /\ l \in Nat /\ g = e + n
    BY <1>2, <1>4, <2>1, <2>2
  <2>4. e + (1 + l) = (e + 1) + l
    BY <1>2, <2>3
  <2> QED
    BY <1>2, <1>6, <1>8, <2>2, <2>3, <2>4
<1>11. MemLeft(h, bytes, i, a, b, x, s, d, TRUE, rest, p, g, end, r, is64)
  BY <1>2, <1>9, <1>10, Zenon DEF MemLeft
<1> QED
  BY <1>11, Zenon

\* A vector instruction with an address is read back.
LEMMA VectorMemoryRead ==
  ASSUME NEW bytes, NEW i, NEW is64, NEW body, NEW at, NEW end, NEW r, NEW m,
         MemEmits(bytes, i, is64, body, at, end, r, m), ClassOf(i.name) \notin VariantClasses,
         NEW a \in 0 .. 31, body = MemForm(64, OpcodeBytes(i), a, Mem(i, m), << 24 >>),
         FormFor(i.name) \notin ExtraByteForms
  PROVE \E h, extra : MemoryRead(h, i, a, m, TRUE, extra, end, r)
<1>1. PICK mem, middle, rest, lanes : mem = Mem(i, m) /\ middle = << 24 >> /\ rest = <<>> /\ lanes = 8 * LaneOf(i.name)
  OBVIOUS
<1>2. i.name \in DOMAIN Records /\ bytes \in Seq(Byte) /\ FormFor(i.name) \in MemoryForms
  BY DEF MemEmits, Starts
<1>3. lanes = 24 /\ ClassOf(i.name) \notin {"FPXLoad", "FPXStore"}
  BY <1>1, <1>2, OwnLanes DEF VariantClasses
<1>4. middle \in Seq(Byte) /\ rest \in Seq(Byte) /\ middle = <<lanes>> \o rest
  <2>1. 24 \in Byte
    BY DEF Byte
  <2>2. <<lanes>> \o <<>> = <<lanes>>
    BY LaneLists
  <2> QED
    BY <1>1, <1>3, <2>1, <2>2, SingleByte, NoBytes
<1>5. 64 \in 0 .. 127 /\ 64 % 8 = 0
  OBVIOUS
<1>6. PICK b, x, s, d, e, g, f : /\ HasAddress(i, m, mem, b, x, s, d)
                                 /\ MemOpened(bytes, i, a, b, x, s, d, 64, middle, e, g, f, end, r, is64)
  BY <1>1, <1>4, <1>5, MemEmitted, Zenon
<1>7. b \in 0 .. 31
  BY <1>6 DEF HasAddress
<1>8. PICK p, h : MemLeft(h, bytes, i, a, b, x, s, d, TRUE, rest, p, g, end, r, is64)
  BY <1>1, <1>2, <1>3, <1>4, <1>6, <1>7, VectorOpened, Zenon
<1>9. PICK vec : vec = TRUE
  OBVIOUS
<1>10. MemLeft(h, bytes, i, a, b, x, s, d, vec, rest, p, g, end, r, is64)
  BY <1>8, <1>9, Zenon
<1>11. PICK k, extra : MemResult(k, i, a, b, x, s, d, vec, extra, end, r)
  BY <1>1, <1>10, AddressOnly
<1>12. MemoryRead(k, i, a, m, vec, extra, end, r)
  BY <1>6, <1>11, ResultRead
<1> QED
  BY <1>9, <1>12, Zenon

\* A gather or a scatter is read back with its mask.
LEMMA VectorMemoryByte ==
  ASSUME NEW bytes, NEW i, NEW is64, NEW body, NEW at, NEW end, NEW r, NEW m,
         MemEmits(bytes, i, is64, body, at, end, r, m), ClassOf(i.name) \notin VariantClasses,
         NEW a \in 0 .. 31, NEW v \in Byte, body = MemForm(64, OpcodeBytes(i), a, Mem(i, m), <<24, v>>),
         FormFor(i.name) \in {"AVXGather", "AVXScatter"}
  PROVE \E h : MemoryRead(h, i, a, m, TRUE, v, end, r)
<1>1. PICK mem, middle, rest, lanes : mem = Mem(i, m) /\ middle = <<24, v>> /\ rest = <<v>> /\ lanes = 8 * LaneOf(i.name)
  BY Zenon
<1>2. i.name \in DOMAIN Records /\ bytes \in Seq(Byte) /\ FormFor(i.name) \in MemoryForms
  BY DEF MemEmits, Starts
<1>3. lanes = 24 /\ ClassOf(i.name) \notin {"FPXLoad", "FPXStore"}
  BY <1>1, <1>2, OwnLanes DEF VariantClasses
<1>4. middle \in Seq(Byte) /\ rest \in Seq(Byte) /\ middle = <<lanes>> \o rest
  <2>1. 24 \in Byte
    BY DEF Byte
  <2>2. <<lanes>> \o <<v>> = <<lanes, v>>
    BY ShortLists
  <2> QED
    BY <1>1, <1>3, <2>1, <2>2, SingleByte, TwoBytes
<1>5. 64 \in 0 .. 127 /\ 64 % 8 = 0
  OBVIOUS
<1>6. PICK b, x, s, d, e, g, f : /\ HasAddress(i, m, mem, b, x, s, d)
                                 /\ MemOpened(bytes, i, a, b, x, s, d, 64, middle, e, g, f, end, r, is64)
  BY <1>1, <1>4, <1>5, MemEmitted, Zenon
<1>7. b \in 0 .. 31
  BY <1>6 DEF HasAddress
<1>8. PICK p, h : MemLeft(h, bytes, i, a, b, x, s, d, TRUE, rest, p, g, end, r, is64)
  BY <1>1, <1>2, <1>3, <1>4, <1>6, <1>7, VectorOpened, Zenon
<1>9. PICK vec : vec = TRUE
  OBVIOUS
<1>10. MemLeft(h, bytes, i, a, b, x, s, d, vec, rest, p, g, end, r, is64)
  BY <1>8, <1>9, Zenon
<1>11. PICK k : MemResult(k, i, a, b, x, s, d, vec, v, end, r)
  <2>1. FormFor(i.name) \in ExtraByteForms /\ FormFor(i.name) \notin {"PairStore", "AtomicCAS"}
    BY DEF ExtraByteForms
  <2> QED
    BY <1>1, <1>9, <1>10, <2>1, AddressAndByte, Zenon
<1>12. MemoryRead(k, i, a, m, vec, v, end, r)
  BY <1>6, <1>11, ResultRead
<1> QED
  BY <1>9, <1>12, Zenon

\* A scalar load or store is read back.
LEMMA ScalarMemoryRead ==
  ASSUME NEW bytes, NEW i, NEW is64, NEW body, NEW at, NEW end, NEW r, NEW m,
         MemEmits(bytes, i, is64, body, at, end, r, m), ClassOf(i.name) \in {"FPXLoad", "FPXStore"},
         NEW a \in 0 .. 31, body = MemForm(ScalarOperandControl(i), OpcodeBytes(i), a, Mem(i, m), <<>>),
         FormFor(i.name) \notin ExtraByteForms
  PROVE \E h, extra : MemoryRead(h, i, a, m, FALSE, extra, end, r)
<1>1. PICK mem, rest, control : mem = Mem(i, m) /\ rest = <<>> /\ control = ScalarOperandControl(i)
  OBVIOUS
<1>2. i.name \in DOMAIN Records /\ bytes \in Seq(Byte) /\ FormFor(i.name) \in MemoryForms
  BY DEF MemEmits, Starts
<1>3. rest \in Seq(Byte) /\ control \in 0 .. 127 /\ control % 8 = 0
  <2>1. WidthOf(i.name) \in {0, 3, 5}
    BY <1>2, RecordRange
  <2>2. control \in {24, 32, 40}
    BY <1>1, <2>1 DEF ScalarOperandControl
  <2>3. PICK c \in {24, 32, 40} : c = control
    BY <2>2
  <2>4. c \in 0 .. 127 /\ c % 8 = 0
    OBVIOUS
  <2> QED
    BY <1>1, <2>3, <2>4, NoBytes
<1>4. PICK b, x, s, d, e, g, f : /\ HasAddress(i, m, mem, b, x, s, d)
                                 /\ MemOpened(bytes, i, a, b, x, s, d, control, rest, e, g, f, end, r, is64)
  BY <1>1, <1>3, MemEmitted, Zenon
<1>5. PICK h : h = ScalarName(ReadVectorCtl(f))
  OBVIOUS
<1>6. /\ e \in Nat /\ Has(bytes, e, rest) /\ g = e + Len(rest) /\ Displaced(bytes, b, d, g, end)
      /\ MemState(f, bytes, i, a, b, x, s, d, control, e) /\ r = ReadOperands(h, is64)
  BY <1>4, <1>5 DEF MemOpened
<1>7. MemReady(h, bytes, i, a, b, x, s, d, FALSE, e)
  BY <1>1, <1>2, <1>5, <1>6, MemScalar, Zenon
<1>8. PICK vec : vec = FALSE
  BY Zenon
<1>9. MemLeft(h, bytes, i, a, b, x, s, d, vec, rest, e, g, end, r, is64)
  <2>1. b \in 0 .. 31
    BY <1>4 DEF HasAddress
  <2> QED
    BY <1>2, <1>6, <1>7, <1>8, <2>1, Zenon DEF MemLeft
<1>10. PICK k, extra : MemResult(k, i, a, b, x, s, d, vec, extra, end, r)
  BY <1>1, <1>9, AddressOnly
<1>11. MemoryRead(k, i, a, m, vec, extra, end, r)
  BY <1>4, <1>10, ResultRead
<1> QED
  BY <1>8, <1>11, Zenon
\* A register before an address.
LEMMA OneThenAddress == \A a, b, x, f, d : <<a>> \o <<b, x, f, d>> = <<a, b, x, f, d>>
<1> SUFFICES ASSUME NEW a, NEW b, NEW x, NEW f, NEW d PROVE <<a>> \o <<b, x, f, d>> = <<a, b, x, f, d>>
  OBVIOUS
<1>1. PICK S : S = {a, b, x, f, d}
  BY Zenon
<1>2. PICK s, t, u : s = <<a>> /\ t = <<b, x, f, d>> /\ u = <<a, b, x, f, d>>
  BY Zenon
<1>3. s \in Seq(S) /\ t \in Seq(S) /\ u \in Seq(S) /\ Len(s) = 1 /\ Len(t) = 4 /\ Len(u) = 5
  BY <1>1, <1>2
<1>4. Len(s \o t) = 5 /\ s \o t \in Seq(S)
  <2>1. Len(s \o t) = Len(s) + Len(t) /\ s \o t \in Seq(S)
    BY <1>3, ConcatProperties, Zenon
  <2> QED
    BY <1>3, <2>1
<1>5. \A k \in 1 .. 5 : (s \o t)[k] = u[k]
  <2>1. /\ (s \o t)[1] = a
        /\ (s \o t)[2] = b
        /\ (s \o t)[3] = x
        /\ (s \o t)[4] = f
        /\ (s \o t)[5] = d
    BY <1>2, <1>3, ConcatProperties
  <2> QED
    BY <1>2, <2>1
<1> QED
  BY <1>2, <1>3, <1>4, <1>5, ListEqual, Zenon

\* Two registers before an address.
LEMMA TwoThenAddress == \A a, c, b, x, f, d : <<a, c>> \o <<b, x, f, d>> = <<a, c, b, x, f, d>>
<1> SUFFICES ASSUME NEW a, NEW c, NEW b, NEW x, NEW f, NEW d PROVE <<a, c>> \o <<b, x, f, d>> = <<a, c, b, x, f, d>>
  OBVIOUS
<1>1. PICK S : S = {a, c, b, x, f, d}
  OBVIOUS
<1>2. PICK s, t, u : s = <<a, c>> /\ t = <<b, x, f, d>> /\ u = <<a, c, b, x, f, d>>
  BY Zenon
<1>3. s \in Seq(S) /\ t \in Seq(S) /\ u \in Seq(S) /\ Len(s) = 2 /\ Len(t) = 4 /\ Len(u) = 6
  BY <1>1, <1>2
<1>4. Len(s \o t) = 6 /\ s \o t \in Seq(S)
  <2>1. Len(s \o t) = Len(s) + Len(t) /\ s \o t \in Seq(S)
    BY <1>3, ConcatProperties, Zenon
  <2> QED
    BY <1>3, <2>1
<1>5. \A k \in 1 .. 6 : (s \o t)[k] = u[k]
  <2>1. /\ (s \o t)[1] = a
        /\ (s \o t)[2] = c
        /\ (s \o t)[3] = b
        /\ (s \o t)[4] = x
        /\ (s \o t)[5] = f
        /\ (s \o t)[6] = d
    BY <1>2, <1>3, ConcatProperties
  <2> QED
    BY <1>2, <2>1
<1> QED
  BY <1>2, <1>3, <1>4, <1>5, ListEqual, Zenon

\* Three registers before an address.
LEMMA ThreeThenAddress == \A a, c, e, b, x, f, d : <<a, c, e>> \o <<b, x, f, d>> = <<a, c, e, b, x, f, d>>
<1> SUFFICES ASSUME NEW a, NEW c, NEW e, NEW b, NEW x, NEW f, NEW d PROVE <<a, c, e>> \o <<b, x, f, d>> = <<a, c, e, b, x, f, d>>
  OBVIOUS
<1>1. PICK S : S = {a, c, e, b, x, f, d}
  OBVIOUS
<1>2. PICK s, t, u : s = <<a, c, e>> /\ t = <<b, x, f, d>> /\ u = <<a, c, e, b, x, f, d>>
  BY Zenon
<1>3. s \in Seq(S) /\ t \in Seq(S) /\ u \in Seq(S) /\ Len(s) = 3 /\ Len(t) = 4 /\ Len(u) = 7
  BY <1>1, <1>2
<1>4. Len(s \o t) = 7 /\ s \o t \in Seq(S)
  <2>1. Len(s \o t) = Len(s) + Len(t) /\ s \o t \in Seq(S)
    BY <1>3, ConcatProperties, Zenon
  <2> QED
    BY <1>3, <2>1
<1>5. \A k \in 1 .. 7 : (s \o t)[k] = u[k]
  <2>1. /\ (s \o t)[1] = a
        /\ (s \o t)[2] = c
        /\ (s \o t)[3] = e
        /\ (s \o t)[4] = b
        /\ (s \o t)[5] = x
        /\ (s \o t)[6] = f
        /\ (s \o t)[7] = d
    BY <1>2, <1>3, ConcatProperties
  <2> QED
    BY <1>2, <2>1
<1> QED
  BY <1>2, <1>3, <1>4, <1>5, ListEqual

\* A register behind an address.
LEMMA AddressThenOne == \A b, x, f, d, a : <<b, x, f, d>> \o <<a>> = <<b, x, f, d, a>>
<1> SUFFICES ASSUME NEW b, NEW x, NEW f, NEW d, NEW a PROVE <<b, x, f, d>> \o <<a>> = <<b, x, f, d, a>>
  OBVIOUS
<1>1. PICK S : S = {b, x, f, d, a}
  BY Zenon
<1>2. PICK s, t, u : s = <<b, x, f, d>> /\ t = <<a>> /\ u = <<b, x, f, d, a>>
  BY Zenon
<1>3. s \in Seq(S) /\ t \in Seq(S) /\ u \in Seq(S) /\ Len(s) = 4 /\ Len(t) = 1 /\ Len(u) = 5
  BY <1>1, <1>2
<1>4. Len(s \o t) = 5 /\ s \o t \in Seq(S)
  <2>1. Len(s \o t) = Len(s) + Len(t) /\ s \o t \in Seq(S)
    BY <1>3, ConcatProperties, Zenon
  <2> QED
    BY <1>3, <2>1
<1>5. \A k \in 1 .. 5 : (s \o t)[k] = u[k]
  <2>1. /\ (s \o t)[1] = b
        /\ (s \o t)[2] = x
        /\ (s \o t)[3] = f
        /\ (s \o t)[4] = d
        /\ (s \o t)[5] = a
    BY <1>2, <1>3, ConcatProperties
  <2> QED
    BY <1>2, <2>1
<1> QED
  BY <1>2, <1>3, <1>4, <1>5, ListEqual, Zenon

\* Two operands behind an address.
LEMMA AddressThenTwo == \A b, x, f, d, a, c : <<b, x, f, d>> \o <<a, c>> = <<b, x, f, d, a, c>>
<1> SUFFICES ASSUME NEW b, NEW x, NEW f, NEW d, NEW a, NEW c PROVE <<b, x, f, d>> \o <<a, c>> = <<b, x, f, d, a, c>>
  OBVIOUS
<1>1. PICK S : S = {b, x, f, d, a, c}
  OBVIOUS
<1>2. PICK s, t, u : s = <<b, x, f, d>> /\ t = <<a, c>> /\ u = <<b, x, f, d, a, c>>
  BY Zenon
<1>3. s \in Seq(S) /\ t \in Seq(S) /\ u \in Seq(S) /\ Len(s) = 4 /\ Len(t) = 2 /\ Len(u) = 6
  BY <1>1, <1>2
<1>4. Len(s \o t) = 6 /\ s \o t \in Seq(S)
  <2>1. Len(s \o t) = Len(s) + Len(t) /\ s \o t \in Seq(S)
    BY <1>3, ConcatProperties, Zenon
  <2> QED
    BY <1>3, <2>1
<1>5. \A k \in 1 .. 6 : (s \o t)[k] = u[k]
  <2>1. /\ (s \o t)[1] = b
        /\ (s \o t)[2] = x
        /\ (s \o t)[3] = f
        /\ (s \o t)[4] = d
        /\ (s \o t)[5] = a
        /\ (s \o t)[6] = c
    BY <1>2, <1>3, ConcatProperties
  <2> QED
    BY <1>2, <2>1
<1> QED
  BY <1>2, <1>3, <1>4, <1>5, ListEqual, Zenon

\* A mask behind a register and an address.
LEMMA RegisterAddressMask == \A a, b, x, f, d, c : <<a, b, x, f, d>> \o <<c>> = <<a, b, x, f, d, c>>
<1> SUFFICES ASSUME NEW a, NEW b, NEW x, NEW f, NEW d, NEW c PROVE <<a, b, x, f, d>> \o <<c>> = <<a, b, x, f, d, c>>
  OBVIOUS
<1>1. PICK S : S = {a, b, x, f, d, c}
  OBVIOUS
<1>2. PICK s, t, u : s = <<a, b, x, f, d>> /\ t = <<c>> /\ u = <<a, b, x, f, d, c>>
  BY Zenon
<1>3. s \in Seq(S) /\ t \in Seq(S) /\ u \in Seq(S) /\ Len(s) = 5 /\ Len(t) = 1 /\ Len(u) = 6
  BY <1>1, <1>2
<1>4. Len(s \o t) = 6 /\ s \o t \in Seq(S)
  <2>1. Len(s \o t) = Len(s) + Len(t) /\ s \o t \in Seq(S)
    BY <1>3, ConcatProperties, Zenon
  <2> QED
    BY <1>3, <2>1
<1>5. \A k \in 1 .. 6 : (s \o t)[k] = u[k]
  <2>1. /\ (s \o t)[1] = a
        /\ (s \o t)[2] = b
        /\ (s \o t)[3] = x
        /\ (s \o t)[4] = f
        /\ (s \o t)[5] = d
        /\ (s \o t)[6] = c
    BY <1>2, <1>3, ConcatProperties
  <2> QED
    BY <1>2, <2>1
<1> QED
  BY <1>2, <1>3, <1>4, <1>5, ListEqual, Zenon

\* What was read is the instruction with an address that was written; an index that is not
\* read leaves no scale.
SameMemory(r, i, m, end, is64) ==
  /\ r.ok = TRUE /\ r.name = i.name /\ r.marker = i.marker /\ r.size = end
  /\ Len(r.ops) = Len(i.ops)
  /\ \A k \in 1 .. Len(i.ops) : k # m + 2 => Agrees(i.ops[k], r.ops[k], is64)
  /\ r.ops[m + 2] = i.ops[m + 2] \/ (i.ops[m + 1] = GPR(4) /\ r.ops[m + 2] = Imm(1))

\* The operands of an instruction with an address.
MemoryOps(h, i, m, ops) ==
  /\ m \in Nat /\ Len(ops) = Len(i.ops)
  /\ ops[m] = GPR(h.rm) /\ ops[m + 1] = GPR(h.index) /\ ops[m + 2] = Imm(h.scale)
  /\ ops[m + 3] = Imm(h.disp)
  /\ \A k \in 1 .. Len(i.ops) : k \notin {m, m + 1, m + 2, m + 3} => ops[k] = i.ops[k]

\* An instruction with an address read with the operands that were written.
LEMMA SuccessMemory ==
  ASSUME NEW h, NEW i, NEW a, NEW m, NEW vec, NEW extra, NEW end, NEW r, NEW is64, NEW ops,
         MemoryRead(h, i, a, m, vec, extra, end, r), MemoryOps(h, i, m, ops),
         r = Success(h, ops, h.at)
  PROVE SameMemory(r, i, m, end, is64)
<1>1. r.ok = TRUE /\ r.name = h.name /\ r.marker = h.marker /\ r.ops = ops /\ r.size = h.at
  BY DEF Success
<1>2. /\ h.marker = i.marker /\ h.name = i.name /\ h.at = end
      /\ GPR(h.rm) = i.ops[m] /\ GPR(h.index) = i.ops[m + 1] /\ Imm(h.disp) = i.ops[m + 3]
      /\ Imm(h.scale) = i.ops[m + 2] \/ (i.ops[m + 1] = GPR(4) /\ h.scale = 1)
  BY DEF MemoryRead
<1>3. /\ Len(ops) = Len(i.ops)
      /\ ops[m] = i.ops[m] /\ ops[m + 1] = i.ops[m + 1] /\ ops[m + 2] = Imm(h.scale)
      /\ ops[m + 3] = i.ops[m + 3]
      /\ \A k \in 1 .. Len(i.ops) : k \notin {m, m + 1, m + 2, m + 3} => ops[k] = i.ops[k]
  BY <1>2 DEF MemoryOps
<1>4. \A k \in 1 .. Len(i.ops) : k # m + 2 => Agrees(i.ops[k], ops[k], is64)
  <2>1. SUFFICES ASSUME NEW k \in 1 .. Len(i.ops), k # m + 2 PROVE ops[k] = i.ops[k]
    BY DEF Agrees
  <2> QED
    BY <1>3, <2>1
<1>5. ops[m + 2] = i.ops[m + 2] \/ (i.ops[m + 1] = GPR(4) /\ ops[m + 2] = Imm(1))
  BY <1>2, <1>3
<1> QED
  BY <1>1, <1>2, <1>3, <1>4, <1>5 DEF SameMemory

-----------------------------------------------------------------------------
(* The classes without an address, by the order of their operands.         *)
\* A branch comes back, with the distance in its field.
LEMMA ReadsBranch ==
  ASSUME NEW bytes, NEW i, NEW source, Filled(i, source), NEW is64, NEW s, NEW at, NEW field, NEW r,
         Starts(bytes, i, is64, s, at, field, r), s = OpcodeBytes(i),
         ClassOf(i.name) \in {"UncondBranch", "CondBranch", "Call", "TxnBeginRel"},
         Holds(bytes, field, 4), Agrees(i.ops[1], Imm(Signed32(bytes, field)), is64)
  PROVE SameAs(r, i, field + 4, is64)
<1>1. PICK n, c, kinds : n = i.name /\ c = ClassOf(i.name) /\ kinds = OperandKinds[c]
  OBVIOUS
<1>2. n \in DOMAIN Records
  BY <1>1 DEF Starts
<1>3. c \in {"UncondBranch", "CondBranch", "Call", "TxnBeginRel"}
  BY <1>1
<1>4. kinds = << "i" >>
  BY <1>1, <1>3, SMT DEF OperandKinds
<1>5. c \notin Tied /\ c # "CopyVV" /\ c \notin VariantClasses
  BY <1>3, SMT DEF Tied, VariantClasses
<1>6. Class[c][1] = 0 /\ DecodeForm[c] = "Branch"
  BY <1>3, SMT DEF Class, DecodeForm
<1>7. FormFor(n) = "Branch"
  BY <1>1, <1>2, <1>5, <1>6, FormForClass
<1>8. Len(i.ops) = 1
  <2>1. Fills(i.ops, source, kinds, 0)
    BY <1>1, <1>2, <1>5 DEF Filled
  <2> QED
    BY <1>4, <2>1 DEF Fills, Place, Size
<1>9. PICK tail : tail = <<>>
  OBVIOUS
<1>10. tail \in Seq(Byte) /\ s = OpcodeBytes(i) \o tail /\ Len(tail) = 0
  <2>1. OpcodeBytes(i) \in Seq(Byte)
    BY <1>1, <1>2, OpcodeString
  <2> QED
    BY <1>9, <2>1, NoBytes
<1>11. PICK p, g : ShortLeft(g, bytes, i, p, tail, field, r, is64)
  BY <1>1, <1>5, <1>7, <1>10, ShortBody, Zenon DEF ShortBodys
<1>12. /\ r = ReadBranch(g) /\ field = p + Len(tail) /\ g.name = i.name /\ g.marker = i.marker
       /\ g.at = p /\ g.bytes = bytes /\ ~g.extended /\ ~g.vector /\ p \in Nat
  BY <1>1, <1>7, <1>11 DEF ShortLeft, ReadInstruction
<1>13. field = p
  BY <1>10, <1>12
<1>14. PICK ops, end : ops = <<Imm(Signed32(bytes, field))>> /\ end = field + 4
  BY Zenon
<1>15. r = Success(g, ops, end)
  BY <1>12, <1>13, <1>14 DEF ReadBranch
<1>16. Len(ops) = Len(i.ops) /\ \A k \in 1 .. Len(i.ops) : Agrees(i.ops[k], ops[k], is64)
  BY <1>8, <1>14
<1>17. SameAs(r, i, end, is64)
  BY <1>12, <1>15, <1>16, SuccessSame, Zenon
<1> QED
  BY <1>14, <1>17

\* An operation on two registers and a byte comes back.
LEMMA ReadsByteNumber ==
  ASSUME NEW bytes, NEW i, NEW source, NEW is64, NEW body, NEW at, NEW end, NEW r,
         Emits(bytes, i, source, is64, body, at, end, r),
         ClassOf(i.name) \in {"TernaryByte"}
  PROVE SameAs(r, i, end, is64)
<1>1. PICK n, c, kinds : n = i.name /\ c = ClassOf(i.name) /\ kinds = OperandKinds[c]
  OBVIOUS
<1>2. /\ n \in DOMAIN Records /\ Filled(i, source) /\ is64 \in BOOLEAN /\ body = EmitBody(i, is64)
      /\ body.ok /\ bytes \in Seq(Byte) /\ Starts(bytes, i, is64, body.bytes, at, end, r)
  BY <1>1 DEF Emits, Starts
<1>3. c \in {"TernaryByte"}
  BY <1>1
<1>4. kinds = <<"r", "r", "i">>
  BY <1>1, <1>3, SMT DEF OperandKinds
<1>5. c \notin Tied /\ c # "CopyVV" /\ c \notin VariantClasses
  BY <1>3, SMT DEF Tied, VariantClasses
<1>6. Class[c][1] = 0 /\ Class[c][2] \in {"TernaryByte"}
  BY <1>3, SMT DEF Class
<1>7. GroupOf(n) = 0 /\ FormOf(n) \in {"TernaryByte"}
  BY <1>1, <1>6 DEF GroupOf, FormOf
<1>8. FormFor(n) \in {"TernaryByte"}
  <2>1. DecodeForm[c] \in {"TernaryByte"}
    BY <1>3, SMT DEF DecodeForm
  <2> QED
    BY <1>1, <1>2, <1>5, <1>6, <2>1, FormForClass
<1>9. Len(i.ops) = 3
      /\ HoldsKind("r", i.ops, 1)
      /\ HoldsKind("r", i.ops, 2)
      /\ HoldsKind("i", i.ops, 3)
  <2>1. Fills(i.ops, source, kinds, 0)
    BY <1>1, <1>2, <1>5 DEF Filled
  <2> QED
    BY <1>4, <2>1 DEF Fills, Place, Size
<1>10. PICK a, b, v : a = i.ops[1][2] /\ b = i.ops[2][2] /\ v = i.ops[3][2]
  BY Zenon
<1>11. /\ i.ops[1] = GPR(a) /\ a \in 0 .. 31 /\ a \in Byte
       /\ i.ops[2] = GPR(b) /\ b \in 0 .. 31 /\ b \in Byte
  BY <1>9, <1>10, RegisterKind, VectorKind
<1>12. PICK tail : tail = <<v>>
  BY Zenon
<1>13. body.bytes = RegForm(0, OpcodeBytes(i), a, b, tail) /\ (UInt(i.ops[3], 8))
  <2>1. body = EmitBase(i, is64)
    BY <1>1, <1>2, <1>7 DEF EmitBody
  <2>2. body = EmitTernaryImm(i, is64)
    BY <1>1, <1>7, <2>1 DEF EmitBase
  <2>3. ~(i.name \in {"VSHL128", "VSHR128"})
    BY <1>1, <1>2, <1>3, ReadByName
  <2>4. body = EmitIf(IsImm(i.ops[3]) /\ (FormOf(n) = "TernaryByte" => UInt(i.ops[3], 8)),
                      RegForm(0, OpcodeBytes(i), Num(i, 1), Num(i, 2), <<>> \o LittleEndian(i.ops[3][2], 1)))
    BY <1>1, <1>7, <2>2, <2>3 DEF EmitTernaryImm, Bit
  <2>5. UInt(i.ops[3], 8)
    BY <1>2, <1>7, <2>4 DEF EmitIf, Rejected, UInt
  <2>6. v \in Byte
    BY <1>9, <1>10, <2>5, ByteImmediate
  <2>7. <<>> \o LittleEndian(v, 1) = tail
    BY <1>12, <2>6, ByteString, ShortLists
  <2> QED
    BY <1>2, <1>10, <2>4, <2>5, <2>7 DEF EmitIf, Bytes, Emitted, Rejected, Num
<1>130. i.ops[3] = Imm(v) /\ v \in Byte /\ v % 256 = v
  BY <1>9, <1>10, <1>13, ByteImmediate
<1>14. tail \in Seq(Byte)
  BY <1>12, <1>130, SingleByte
<1>15. PICK p, g : RegLeft(g, bytes, i, a, b, FALSE, p, tail, end, r, is64)
  <2>1. RegisterRead(n)
    BY <1>8, RegisterForms
  <2>2. a \in 0 .. 31 /\ b \in 0 .. 31
    BY <1>11
  <2>3. PICK s : s = body.bytes
    OBVIOUS
  <2>4. Starts(bytes, i, is64, s, at, end, r) /\ s = RegForm(0, OpcodeBytes(i), a, b, tail)
    BY <1>2, <1>13, <2>3
  <2> QED
    BY <1>1, <1>5, <1>14, <2>1, <2>2, <2>4, PlainForm, Zenon
<1>16. /\ g.ok = TRUE /\ g.bytes = bytes /\ g.at = p /\ g.marker = i.marker /\ g.name = n
       /\ (g.vector <=> FALSE) /\ g.form = FormFor(n) /\ g.reg = a /\ g.rm = b
       /\ p \in Nat /\ Has(bytes, p, tail) /\ end = p + Len(tail) /\ r = ReadOperands(g, is64)
  BY <1>1, <1>15 DEF RegLeft, RegReady
<1>17. Holds(bytes, p, 1) /\ At(bytes, p) = v /\ end = p + 1
  BY <1>2, <1>12, <1>16, ByteTail
<1>18. r = ReadTernaryImm(g, is64)
  BY <1>8, <1>16 DEF ReadOperands, MemoryForms
<1>19. PICK ops : ops = <<GPR(a), GPR(b), Imm(v)>>
  BY Zenon
<1>20. r = Success(g, ops, end)
  <2>1. g.name \notin {"VSHL128", "VSHR128"}
    BY <1>1, <1>2, <1>3, <1>16, ReadByName
  <2>2. ReadTernaryImm(g, is64) = Success(g, <<GPR(a), GPR(b)>> \o <<Imm(At(bytes, p))>>, p + 1)
    BY <1>8, <1>16, <1>17, <2>1 DEF ReadTernaryImm
  <2>3. PICK x, y, z : x = GPR(a) /\ y = GPR(b) /\ z = Imm(v)
    OBVIOUS
  <2>4. <<x, y>> \o <<z>> = <<x, y, z>>
    BY ShortLists
  <2> QED
    BY <1>17, <1>18, <1>19, <2>2, <2>3, <2>4, Zenon
<1>21. Len(ops) = Len(i.ops) /\ \A k \in 1 .. Len(i.ops) : Agrees(i.ops[k], ops[k], is64)
  BY <1>9, <1>11, <1>130, <1>19 DEF Agrees
<1> QED
  BY <1>1, <1>16, <1>20, <1>21, SuccessSame, Zenon

\* A jump to a register comes back.
LEMMA ReadsCall ==
  ASSUME NEW bytes, NEW i, NEW source, NEW is64, NEW body, NEW at, NEW end, NEW r,
         Emits(bytes, i, source, is64, body, at, end, r),
         ClassOf(i.name) \in {"IndirectCall", "IndirectBranch", "TxnBeginAbs"}
  PROVE SameAs(r, i, end, is64)
<1>1. PICK n, c, kinds : n = i.name /\ c = ClassOf(i.name) /\ kinds = OperandKinds[c]
  OBVIOUS
<1>2. /\ n \in DOMAIN Records /\ Filled(i, source) /\ is64 \in BOOLEAN /\ body = EmitBody(i, is64)
      /\ body.ok /\ bytes \in Seq(Byte) /\ Starts(bytes, i, is64, body.bytes, at, end, r)
  BY <1>1 DEF Emits, Starts
<1>3. c \in {"IndirectCall", "IndirectBranch", "TxnBeginAbs"}
  BY <1>1
<1>4. kinds = <<"r">>
  BY <1>1, <1>3, SMT DEF OperandKinds
<1>5. c \notin Tied /\ c # "CopyVV" /\ c \notin VariantClasses
  BY <1>3, SMT DEF Tied, VariantClasses
<1>6. Class[c][1] = 0 /\ Class[c][2] \in {"IndirectCall"}
  BY <1>3, SMT DEF Class
<1>7. GroupOf(n) = 0 /\ FormOf(n) \in {"IndirectCall"}
  BY <1>1, <1>6 DEF GroupOf, FormOf
<1>8. FormFor(n) \in {"IndirectCall"}
  <2>1. DecodeForm[c] \in {"IndirectCall"}
    BY <1>3, SMT DEF DecodeForm
  <2> QED
    BY <1>1, <1>2, <1>5, <1>6, <2>1, FormForClass
<1>9. Len(i.ops) = 1
      /\ HoldsKind("r", i.ops, 1)
  <2>1. Fills(i.ops, source, kinds, 0)
    BY <1>1, <1>2, <1>5 DEF Filled
  <2> QED
    BY <1>4, <2>1 DEF Fills, Place, Size
<1>10. PICK a : a = i.ops[1][2]
  OBVIOUS
<1>11. /\ i.ops[1] = GPR(a) /\ a \in 0 .. 31 /\ a \in Byte
  BY <1>9, <1>10, RegisterKind, VectorKind
<1>12. PICK tail : tail = <<>>
  OBVIOUS
<1>13. body.bytes = RegForm(0, OpcodeBytes(i), 0, a, tail)
  <2>1. body = EmitBase(i, is64)
    BY <1>1, <1>2, <1>7 DEF EmitBody
  <2>2. body = EmitIndirectCall(i)
    BY <1>1, <1>2, <1>3, <1>7, <2>1 DEF EmitBase
  <2> QED
    BY <1>1, <1>2, <1>3, <1>7, <1>10, <1>12, <2>2 DEF EmitIndirectCall, Bytes, EmitIf, Emitted, Rejected, Num
<1>14. tail \in Seq(Byte)
  BY <1>12, NoBytes
<1>15. PICK p, g : RegLeft(g, bytes, i, 0, a, FALSE, p, tail, end, r, is64)
  <2>1. RegisterRead(n)
    BY <1>8, RegisterForms
  <2>2. 0 \in 0 .. 31 /\ a \in 0 .. 31
    BY <1>11
  <2>3. PICK s : s = body.bytes
    OBVIOUS
  <2>4. Starts(bytes, i, is64, s, at, end, r) /\ s = RegForm(0, OpcodeBytes(i), 0, a, tail)
    BY <1>2, <1>13, <2>3
  <2> QED
    BY <1>1, <1>5, <1>14, <2>1, <2>2, <2>4, PlainForm, Zenon
<1>16. /\ g.ok = TRUE /\ g.bytes = bytes /\ g.at = p /\ g.marker = i.marker /\ g.name = n
       /\ (g.vector <=> FALSE) /\ g.form = FormFor(n) /\ g.reg = 0 /\ g.rm = a
       /\ p \in Nat /\ Has(bytes, p, tail) /\ end = p + Len(tail) /\ r = ReadOperands(g, is64)
  BY <1>1, <1>15 DEF RegLeft, RegReady
<1>18. r = ReadIndirectCall(g)
  BY <1>8, <1>16 DEF ReadOperands, MemoryForms
<1>19. PICK ops : ops = <<GPR(a)>>
  BY Zenon
<1>20. r = Success(g, ops, end)
  BY <1>1, <1>3, <1>8, <1>11, <1>12, <1>16, <1>18, <1>19 DEF ReadIndirectCall
<1>21. Len(ops) = Len(i.ops) /\ \A k \in 1 .. Len(i.ops) : Agrees(i.ops[k], ops[k], is64)
  BY <1>9, <1>11, <1>19 DEF Agrees
<1> QED
  BY <1>1, <1>16, <1>20, <1>21, SuccessSame, Zenon

\* A cipher step on two vectors comes back.
LEMMA ReadsCipherPair ==
  ASSUME NEW bytes, NEW i, NEW source, NEW is64, NEW body, NEW at, NEW end, NEW r,
         Emits(bytes, i, source, is64, body, at, end, r),
         ClassOf(i.name) \in {"CryptoUnary"}
  PROVE SameAs(r, i, end, is64)
<1>1. PICK n, c, kinds : n = i.name /\ c = ClassOf(i.name) /\ kinds = OperandKinds[c]
  OBVIOUS
<1>2. /\ n \in DOMAIN Records /\ Filled(i, source) /\ is64 \in BOOLEAN /\ body = EmitBody(i, is64)
      /\ body.ok /\ bytes \in Seq(Byte) /\ Starts(bytes, i, is64, body.bytes, at, end, r)
  BY <1>1 DEF Emits, Starts
<1>3. c \in {"CryptoUnary"}
  BY <1>1
<1>4. kinds = <<"v", "v">>
  BY <1>1, <1>3, SMT DEF OperandKinds
<1>5. c \notin Tied /\ c # "CopyVV" /\ c \notin {"CopyRR", "FPXLoad", "FPXStore"}
  BY <1>3, SMT DEF Tied, VariantClasses
<1>6. Class[c][1] = 2 /\ Class[c][2] \in {"CopyVV"}
  BY <1>3, SMT DEF Class
<1>7. GroupOf(n) = 2 /\ FormOf(n) \in {"CopyVV"}
  BY <1>1, <1>6 DEF GroupOf, FormOf
<1>8. FormFor(n) \in {"CopyVV"}
  <2>1. CryptoDecodeForm[c] \in {"CopyVV"}
    BY <1>3, SMT DEF CryptoDecodeForm
  <2>2. FormTable[2] = CryptoDecodeForm
    BY DEF FormTable
  <2> QED
    BY <1>1, <1>2, <1>5, <1>6, <2>1, <2>2, FormForClass
<1>9. Len(i.ops) = 2
      /\ HoldsKind("v", i.ops, 1)
      /\ HoldsKind("v", i.ops, 2)
  <2>1. Fills(i.ops, source, kinds, 0)
    BY <1>1, <1>2, <1>5 DEF Filled
  <2> QED
    BY <1>4, <2>1 DEF Fills, Place, Size
<1>10. PICK a, b : a = i.ops[1][2] /\ b = i.ops[2][2]
  BY Zenon
<1>11. /\ i.ops[1] = Vec(a) /\ a \in 0 .. 31 /\ a \in Byte
       /\ i.ops[2] = Vec(b) /\ b \in 0 .. 31 /\ b \in Byte
  BY <1>9, <1>10, RegisterKind, VectorKind
<1>12. PICK lanes, tail, rest : lanes = 8 * LaneOf(n) /\ tail = <<24>> \o XopBytes(i) /\ rest = <<>>
  BY Zenon
<1>13. body.bytes = RegForm(64, OpcodeBytes(i), a, b, tail)
  <2>1. body = EmitCrypto(i)
    BY <1>1, <1>2, <1>7 DEF EmitBody
  <2>2. body = EmitCrypto(i)
    BY <2>1
  <2> QED
    BY <1>1, <1>2, <1>3, <1>7, <1>10, <1>12, <2>2 DEF EmitCrypto, XopBytes, Bytes, EmitIf, Emitted, Rejected, Num
<1>130. lanes = 24
  <2>1. c \notin VariantClasses
    BY <1>3, SMT DEF VariantClasses
  <2> QED
    BY <1>1, <1>2, <1>12, <2>1, OwnLanes
<1>14. tail = <<lanes>> \o rest /\ rest \in Seq(Byte)
  <2>1. tail = <<lanes>> \o <<>>
    BY <1>9, <1>12, <1>130, XopList, LaneLists, Zenon
  <2> QED
    BY <1>12, <2>1, NoBytes, Zenon
<1>15. PICK p, g : RegLeft(g, bytes, i, a, b, TRUE, p, rest, end, r, is64)
  <2>1. RegisterRead(n)
    BY <1>8, RegisterForms
  <2>2. a \in 0 .. 31 /\ b \in 0 .. 31
    BY <1>11
  <2>3. PICK s : s = body.bytes
    OBVIOUS
  <2>4. Starts(bytes, i, is64, s, at, end, r) /\ s = RegForm(64, OpcodeBytes(i), a, b, <<lanes>> \o rest)
    BY <1>2, <1>13, <1>14, <2>3, Zenon
  <2> QED
    BY <1>1, <1>5, <1>12, <1>14, <2>1, <2>2, <2>4, VectorForm
<1>16. /\ g.ok = TRUE /\ g.bytes = bytes /\ g.at = p /\ g.marker = i.marker /\ g.name = n
       /\ (g.vector <=> TRUE) /\ g.form = FormFor(n) /\ g.reg = a /\ g.rm = b
       /\ p \in Nat /\ Has(bytes, p, rest) /\ end = p + Len(rest) /\ r = ReadOperands(g, is64)
  BY <1>1, <1>15 DEF RegLeft, RegReady
<1>17. end = p
  BY <1>12, <1>16
<1>18. r = ReadCopyVV(g)
  BY <1>8, <1>16 DEF ReadOperands, MemoryForms
<1>19. PICK ops : ops = <<Vec(a), Vec(b)>>
  BY Zenon
<1>20. r = Success(g, ops, end)
  BY <1>1, <1>3, <1>8, <1>11, <1>12, <1>16, <1>17, <1>18, <1>19 DEF ReadCopyVV
<1>21. Len(ops) = Len(i.ops) /\ \A k \in 1 .. Len(i.ops) : Agrees(i.ops[k], ops[k], is64)
  BY <1>9, <1>11, <1>19 DEF Agrees
<1> QED
  BY <1>1, <1>16, <1>20, <1>21, SuccessSame, Zenon

\* A cipher step on three vectors comes back.
LEMMA ReadsCipherTriple ==
  ASSUME NEW bytes, NEW i, NEW source, NEW is64, NEW body, NEW at, NEW end, NEW r,
         Emits(bytes, i, source, is64, body, at, end, r),
         ClassOf(i.name) \in {"CryptoBinary"}
  PROVE SameAs(r, i, end, is64)
<1>1. PICK n, c, kinds : n = i.name /\ c = ClassOf(i.name) /\ kinds = OperandKinds[c]
  OBVIOUS
<1>2. /\ n \in DOMAIN Records /\ Filled(i, source) /\ is64 \in BOOLEAN /\ body = EmitBody(i, is64)
      /\ body.ok /\ bytes \in Seq(Byte) /\ Starts(bytes, i, is64, body.bytes, at, end, r)
  BY <1>1 DEF Emits, Starts
<1>3. c \in {"CryptoBinary"}
  BY <1>1
<1>4. kinds = <<"v", "v", "v">>
  BY <1>1, <1>3, SMT DEF OperandKinds
<1>5. c \notin Tied /\ c # "CopyVV" /\ c \notin {"CopyRR", "FPXLoad", "FPXStore"}
  BY <1>3, SMT DEF Tied, VariantClasses
<1>6. Class[c][1] = 2 /\ Class[c][2] \in {"VBinary"}
  BY <1>3, SMT DEF Class
<1>7. GroupOf(n) = 2 /\ FormOf(n) \in {"VBinary"}
  BY <1>1, <1>6 DEF GroupOf, FormOf
<1>8. FormFor(n) \in {"VBinary"}
  <2>1. CryptoDecodeForm[c] \in {"VBinary"}
    BY <1>3, SMT DEF CryptoDecodeForm
  <2>2. FormTable[2] = CryptoDecodeForm
    BY DEF FormTable
  <2> QED
    BY <1>1, <1>2, <1>5, <1>6, <2>1, <2>2, FormForClass
<1>9. Len(i.ops) = 3
      /\ HoldsKind("v", i.ops, 1)
      /\ HoldsKind("v", i.ops, 2)
      /\ HoldsKind("v", i.ops, 3)
  <2>1. Fills(i.ops, source, kinds, 0)
    BY <1>1, <1>2, <1>5 DEF Filled
  <2> QED
    BY <1>4, <2>1 DEF Fills, Place, Size
<1>10. PICK a, b, d : a = i.ops[1][2] /\ b = i.ops[2][2] /\ d = i.ops[3][2]
  BY Zenon
<1>11. /\ i.ops[1] = Vec(a) /\ a \in 0 .. 31 /\ a \in Byte
       /\ i.ops[2] = Vec(b) /\ b \in 0 .. 31 /\ b \in Byte
       /\ i.ops[3] = Vec(d) /\ d \in 0 .. 31 /\ d \in Byte
  BY <1>9, <1>10, RegisterKind, VectorKind
<1>12. PICK lanes, tail, rest : lanes = 8 * LaneOf(n) /\ tail = <<24>> \o XopBytes(i) /\ rest = <<Xop(d)>>
  BY Zenon
<1>13. body.bytes = RegForm(64, OpcodeBytes(i), a, b, tail)
  <2>1. body = EmitCrypto(i)
    BY <1>1, <1>2, <1>7 DEF EmitBody
  <2>2. body = EmitCrypto(i)
    BY <2>1
  <2> QED
    BY <1>1, <1>2, <1>3, <1>7, <1>10, <1>12, <2>2 DEF EmitCrypto, XopBytes, Bytes, EmitIf, Emitted, Rejected, Num
<1>130. lanes = 24
  <2>1. c \notin VariantClasses
    BY <1>3, SMT DEF VariantClasses
  <2> QED
    BY <1>1, <1>2, <1>12, <2>1, OwnLanes
<1>14. tail = <<lanes>> \o rest /\ rest \in Seq(Byte)
  <2>1. Num(i, 3) = d
    BY <1>10 DEF Num
  <2>2. tail = <<lanes>> \o <<Xop(d)>>
    BY <2>1, <1>9, <1>12, <1>130, XopList, LaneLists, Zenon
  <2>3. Xop(d) \in Byte
    BY <1>11, XopRead
  <2> QED
    BY <1>12, <2>2, <2>3, SingleByte, Zenon
<1>15. PICK p, g : RegLeft(g, bytes, i, a, b, TRUE, p, rest, end, r, is64)
  <2>1. RegisterRead(n)
    BY <1>8, RegisterForms
  <2>2. a \in 0 .. 31 /\ b \in 0 .. 31
    BY <1>11
  <2>3. PICK s : s = body.bytes
    OBVIOUS
  <2>4. Starts(bytes, i, is64, s, at, end, r) /\ s = RegForm(64, OpcodeBytes(i), a, b, <<lanes>> \o rest)
    BY <1>2, <1>13, <1>14, <2>3, Zenon
  <2> QED
    BY <1>1, <1>5, <1>12, <1>14, <2>1, <2>2, <2>4, VectorForm
<1>16. /\ g.ok = TRUE /\ g.bytes = bytes /\ g.at = p /\ g.marker = i.marker /\ g.name = n
       /\ (g.vector <=> TRUE) /\ g.form = FormFor(n) /\ g.reg = a /\ g.rm = b
       /\ p \in Nat /\ Has(bytes, p, rest) /\ end = p + Len(rest) /\ r = ReadOperands(g, is64)
  BY <1>1, <1>15 DEF RegLeft, RegReady
<1>17. Holds(bytes, p, 1) /\ At(bytes, p) = Xop(d) /\ end = p + 1 /\ IsXop(Xop(d)) /\ Xop(d) % 32 = d
  BY <1>2, <1>11, <1>12, <1>16, ByteTail, XopRead, Zenon
<1>18. r = ReadVectorBinary(g)
  BY <1>8, <1>16 DEF ReadOperands, MemoryForms
<1>19. PICK ops : ops = <<Vec(a), Vec(b), Vec(d)>>
  BY Zenon
<1>20. r = Success(g, ops, end)
  BY <1>1, <1>3, <1>8, <1>11, <1>12, <1>16, <1>17, <1>18, <1>19, Zenon DEF ReadVectorBinary
<1>21. Len(ops) = Len(i.ops) /\ \A k \in 1 .. Len(i.ops) : Agrees(i.ops[k], ops[k], is64)
  BY <1>9, <1>11, <1>19 DEF Agrees
<1> QED
  BY <1>1, <1>16, <1>20, <1>21, SuccessSame, Zenon

\* A read of a control register comes back.
LEMMA ReadsControlRead ==
  ASSUME NEW bytes, NEW i, NEW source, NEW is64, NEW body, NEW at, NEW end, NEW r,
         Emits(bytes, i, source, is64, body, at, end, r),
         ClassOf(i.name) \in {"ReadControl"}
  PROVE SameAs(r, i, end, is64)
<1>1. PICK n, c, kinds : n = i.name /\ c = ClassOf(i.name) /\ kinds = OperandKinds[c]
  OBVIOUS
<1>2. /\ n \in DOMAIN Records /\ Filled(i, source) /\ is64 \in BOOLEAN /\ body = EmitBody(i, is64)
      /\ body.ok /\ bytes \in Seq(Byte) /\ Starts(bytes, i, is64, body.bytes, at, end, r)
  BY <1>1 DEF Emits, Starts
<1>3. c \in {"ReadControl"}
  BY <1>1
<1>4. kinds = <<"r", "i">>
  BY <1>1, <1>3, SMT DEF OperandKinds
<1>5. c \notin Tied /\ c # "CopyVV" /\ c \notin VariantClasses
  BY <1>3, SMT DEF Tied, VariantClasses
<1>6. Class[c][1] = 0 /\ Class[c][2] \in {"ControlReg"}
  BY <1>3, SMT DEF Class
<1>7. GroupOf(n) = 0 /\ FormOf(n) \in {"ControlReg"}
  BY <1>1, <1>6 DEF GroupOf, FormOf
<1>8. FormFor(n) \in {"ControlReg"}
  <2>1. DecodeForm[c] \in {"ControlReg"}
    BY <1>3, SMT DEF DecodeForm
  <2> QED
    BY <1>1, <1>2, <1>5, <1>6, <2>1, FormForClass
<1>9. Len(i.ops) = 2
      /\ HoldsKind("r", i.ops, 1)
      /\ HoldsKind("i", i.ops, 2)
  <2>1. Fills(i.ops, source, kinds, 0)
    BY <1>1, <1>2, <1>5 DEF Filled
  <2> QED
    BY <1>4, <2>1 DEF Fills, Place, Size
<1>10. PICK a, v : a = i.ops[1][2] /\ v = i.ops[2][2]
  BY Zenon
<1>11. /\ i.ops[1] = GPR(a) /\ a \in 0 .. 31 /\ a \in Byte
  BY <1>9, <1>10, RegisterKind, VectorKind
<1>12. PICK tail : tail = LittleEndian(v, 2)
  OBVIOUS
<1>13. body.bytes = RegForm(0, OpcodeBytes(i), 0, a, tail) /\ (UInt(i.ops[2], 16))
  <2>1. body = EmitBase(i, is64)
    BY <1>1, <1>2, <1>7 DEF EmitBody
  <2>2. body = EmitControlReg(i)
    BY <1>1, <1>2, <1>3, <1>7, <2>1 DEF EmitBase
  <2>3. PICK ok, s : ok = UInt(i.ops[2], 16) /\ s = RegForm(0, OpcodeBytes(i), 0, Num(i, 1), LittleEndian(Num(i, 2), 2))
    OBVIOUS
  <2>4. body = EmitIf(ok, s)
    BY <1>1, <1>2, <1>3, <2>2, <2>3, NamedClasses2 DEF EmitControlReg, Num
  <2>5. ok
    BY <1>2, <2>4 DEF EmitIf, Rejected
  <2>6. body.bytes = s
    BY <2>4, <2>5 DEF EmitIf, Bytes, Emitted
  <2> QED
    BY <1>10, <1>12, <2>3, <2>5, <2>6 DEF Num
<1>130. i.ops[2] = Imm(v) /\ v \in 0 .. 2 ^ 16 - 1
  BY <1>9, <1>10, <1>13, ShortImmediate, Zenon
<1>14. tail \in Seq(Byte)
  <2>1. v % 256 \in Byte /\ v \div 256 \in Byte /\ LittleEndian(v, 2) = <<v % 256, v \div 256>>
    BY <1>130, ShortString, Zenon
  <2>2. PICK x, y : x = v % 256 /\ y = v \div 256
    OBVIOUS
  <2>3. x \in Byte /\ y \in Byte /\ tail = <<x, y>>
    BY <1>12, <2>1, <2>2
  <2> QED
    BY <2>3, TwoBytes
<1>15. PICK p, g : RegLeft(g, bytes, i, 0, a, FALSE, p, tail, end, r, is64)
  <2>1. RegisterRead(n)
    BY <1>8, RegisterForms
  <2>2. 0 \in 0 .. 31 /\ a \in 0 .. 31
    BY <1>11
  <2>3. PICK s : s = body.bytes
    OBVIOUS
  <2>4. Starts(bytes, i, is64, s, at, end, r) /\ s = RegForm(0, OpcodeBytes(i), 0, a, tail)
    BY <1>2, <1>13, <2>3
  <2> QED
    BY <1>1, <1>5, <1>14, <2>1, <2>2, <2>4, PlainForm, Zenon
<1>16. /\ g.ok = TRUE /\ g.bytes = bytes /\ g.at = p /\ g.marker = i.marker /\ g.name = n
       /\ (g.vector <=> FALSE) /\ g.form = FormFor(n) /\ g.reg = 0 /\ g.rm = a
       /\ p \in Nat /\ Has(bytes, p, tail) /\ end = p + Len(tail) /\ r = ReadOperands(g, is64)
  BY <1>1, <1>15 DEF RegLeft, RegReady
<1>17. Holds(bytes, p, 2) /\ Unsigned16(bytes, p) = v /\ end = p + 2
  <2>1. /\ bytes \in Seq(Byte) /\ p \in Nat /\ tail = LittleEndian(v, 2) /\ Has(bytes, p, tail)
        /\ end = p + Len(tail)
    BY <1>2, <1>12, <1>16
  <2> QED
    BY <1>130, <2>1, ShortRead, Zenon
<1>18. r = ReadControl(g)
  BY <1>8, <1>16 DEF ReadOperands, MemoryForms
<1>19. PICK ops : ops = <<GPR(a), Imm(v)>>
  BY Zenon
<1>20. r = Success(g, ops, end)
  <2>1. (g.name = "WRCR" \/ g.form = "SysXWriteImm") <=> FALSE
    BY <1>1, <1>2, <1>3, <1>8, <1>16, NamedClasses2
  <2>2. PICK w : w = Imm(Unsigned16(bytes, p))
    OBVIOUS
  <2>3. w = Imm(v)
    BY <1>17, <2>2
  <2>4. ReadControl(g) = Success(g, <<GPR(a), w>>, p + 2)
    BY <1>16, <1>17, <2>1, <2>2 DEF ReadControl
  <2> QED
    BY <1>17, <1>18, <1>19, <2>3, <2>4
<1>21. Len(ops) = Len(i.ops) /\ \A k \in 1 .. Len(i.ops) : Agrees(i.ops[k], ops[k], is64)
  <2>1. PICK w : w = Imm(v)
    OBVIOUS
  <2>2. i.ops[2] = w /\ i.ops[1] = GPR(a) /\ ops = <<GPR(a), w>>
    BY <1>11, <1>130, <1>19, <2>1
  <2> QED
    BY <1>9, <2>2 DEF Agrees
<1> QED
  BY <1>1, <1>16, <1>20, <1>21, SuccessSame, Zenon

\* A write of a control register comes back.
LEMMA ReadsControlWrite ==
  ASSUME NEW bytes, NEW i, NEW source, NEW is64, NEW body, NEW at, NEW end, NEW r,
         Emits(bytes, i, source, is64, body, at, end, r),
         ClassOf(i.name) \in {"WriteControl"}
  PROVE SameAs(r, i, end, is64)
<1>1. PICK n, c, kinds : n = i.name /\ c = ClassOf(i.name) /\ kinds = OperandKinds[c]
  OBVIOUS
<1>2. /\ n \in DOMAIN Records /\ Filled(i, source) /\ is64 \in BOOLEAN /\ body = EmitBody(i, is64)
      /\ body.ok /\ bytes \in Seq(Byte) /\ Starts(bytes, i, is64, body.bytes, at, end, r)
  BY <1>1 DEF Emits, Starts
<1>3. c \in {"WriteControl"}
  BY <1>1
<1>4. kinds = <<"i", "r">>
  BY <1>1, <1>3, SMT DEF OperandKinds
<1>5. c \notin Tied /\ c # "CopyVV" /\ c \notin VariantClasses
  BY <1>3, SMT DEF Tied, VariantClasses
<1>6. Class[c][1] = 0 /\ Class[c][2] \in {"ControlReg"}
  BY <1>3, SMT DEF Class
<1>7. GroupOf(n) = 0 /\ FormOf(n) \in {"ControlReg"}
  BY <1>1, <1>6 DEF GroupOf, FormOf
<1>8. FormFor(n) \in {"ControlReg"}
  <2>1. DecodeForm[c] \in {"ControlReg"}
    BY <1>3, SMT DEF DecodeForm
  <2> QED
    BY <1>1, <1>2, <1>5, <1>6, <2>1, FormForClass
<1>9. Len(i.ops) = 2
      /\ HoldsKind("i", i.ops, 1)
      /\ HoldsKind("r", i.ops, 2)
  <2>1. Fills(i.ops, source, kinds, 0)
    BY <1>1, <1>2, <1>5 DEF Filled
  <2> QED
    BY <1>4, <2>1 DEF Fills, Place, Size
<1>10. PICK a, v : a = i.ops[2][2] /\ v = i.ops[1][2]
  BY Zenon
<1>11. /\ i.ops[2] = GPR(a) /\ a \in 0 .. 31 /\ a \in Byte
  BY <1>9, <1>10, RegisterKind, VectorKind
<1>12. PICK tail : tail = LittleEndian(v, 2)
  OBVIOUS
<1>13. body.bytes = RegForm(0, OpcodeBytes(i), 0, a, tail) /\ (UInt(i.ops[1], 16))
  <2>1. body = EmitBase(i, is64)
    BY <1>1, <1>2, <1>7 DEF EmitBody
  <2>2. body = EmitControlReg(i)
    BY <1>1, <1>2, <1>3, <1>7, <2>1 DEF EmitBase
  <2>3. PICK ok, s : ok = UInt(i.ops[1], 16) /\ s = RegForm(0, OpcodeBytes(i), 0, Num(i, 2), LittleEndian(Num(i, 1), 2))
    OBVIOUS
  <2>4. body = EmitIf(ok, s)
    BY <1>1, <1>2, <1>3, <2>2, <2>3, NamedClasses2 DEF EmitControlReg, Num
  <2>5. ok
    BY <1>2, <2>4 DEF EmitIf, Rejected
  <2>6. body.bytes = s
    BY <2>4, <2>5 DEF EmitIf, Bytes, Emitted
  <2> QED
    BY <1>10, <1>12, <2>3, <2>5, <2>6 DEF Num
<1>130. i.ops[1] = Imm(v) /\ v \in 0 .. 2 ^ 16 - 1
  BY <1>9, <1>10, <1>13, ShortImmediate, Zenon
<1>14. tail \in Seq(Byte)
  <2>1. v % 256 \in Byte /\ v \div 256 \in Byte /\ LittleEndian(v, 2) = <<v % 256, v \div 256>>
    BY <1>130, ShortString, Zenon
  <2>2. PICK x, y : x = v % 256 /\ y = v \div 256
    OBVIOUS
  <2>3. x \in Byte /\ y \in Byte /\ tail = <<x, y>>
    BY <1>12, <2>1, <2>2
  <2> QED
    BY <2>3, TwoBytes
<1>15. PICK p, g : RegLeft(g, bytes, i, 0, a, FALSE, p, tail, end, r, is64)
  <2>1. RegisterRead(n)
    BY <1>8, RegisterForms
  <2>2. 0 \in 0 .. 31 /\ a \in 0 .. 31
    BY <1>11
  <2>3. PICK s : s = body.bytes
    OBVIOUS
  <2>4. Starts(bytes, i, is64, s, at, end, r) /\ s = RegForm(0, OpcodeBytes(i), 0, a, tail)
    BY <1>2, <1>13, <2>3
  <2> QED
    BY <1>1, <1>5, <1>14, <2>1, <2>2, <2>4, PlainForm, Zenon
<1>16. /\ g.ok = TRUE /\ g.bytes = bytes /\ g.at = p /\ g.marker = i.marker /\ g.name = n
       /\ (g.vector <=> FALSE) /\ g.form = FormFor(n) /\ g.reg = 0 /\ g.rm = a
       /\ p \in Nat /\ Has(bytes, p, tail) /\ end = p + Len(tail) /\ r = ReadOperands(g, is64)
  BY <1>1, <1>15 DEF RegLeft, RegReady
<1>17. Holds(bytes, p, 2) /\ Unsigned16(bytes, p) = v /\ end = p + 2
  <2>1. /\ bytes \in Seq(Byte) /\ p \in Nat /\ tail = LittleEndian(v, 2) /\ Has(bytes, p, tail)
        /\ end = p + Len(tail)
    BY <1>2, <1>12, <1>16
  <2> QED
    BY <1>130, <2>1, ShortRead, Zenon
<1>18. r = ReadControl(g)
  BY <1>8, <1>16 DEF ReadOperands, MemoryForms
<1>19. PICK ops : ops = <<Imm(v), GPR(a)>>
  BY Zenon
<1>20. r = Success(g, ops, end)
  <2>1. (g.name = "WRCR" \/ g.form = "SysXWriteImm") <=> TRUE
    BY <1>1, <1>2, <1>3, <1>8, <1>16, NamedClasses2
  <2>2. PICK w : w = Imm(Unsigned16(bytes, p))
    OBVIOUS
  <2>3. w = Imm(v)
    BY <1>17, <2>2
  <2>4. ReadControl(g) = Success(g, <<w, GPR(a)>>, p + 2)
    BY <1>16, <1>17, <2>1, <2>2 DEF ReadControl
  <2> QED
    BY <1>17, <1>18, <1>19, <2>3, <2>4
<1>21. Len(ops) = Len(i.ops) /\ \A k \in 1 .. Len(i.ops) : Agrees(i.ops[k], ops[k], is64)
  <2>1. PICK w : w = Imm(v)
    OBVIOUS
  <2>2. i.ops[1] = w /\ i.ops[2] = GPR(a) /\ ops = <<w, GPR(a)>>
    BY <1>11, <1>130, <1>19, <2>1
  <2> QED
    BY <1>9, <2>2 DEF Agrees
<1> QED
  BY <1>1, <1>16, <1>20, <1>21, SuccessSame

\* A conversion between numbers comes back.
LEMMA ReadsConversion ==
  ASSUME NEW bytes, NEW i, NEW source, NEW is64, NEW body, NEW at, NEW end, NEW r,
         Emits(bytes, i, source, is64, body, at, end, r),
         ClassOf(i.name) \in {"IntToFP"}
  PROVE SameAs(r, i, end, is64)
<1>1. PICK n, c, kinds : n = i.name /\ c = ClassOf(i.name) /\ kinds = OperandKinds[c]
  OBVIOUS
<1>2. /\ n \in DOMAIN Records /\ Filled(i, source) /\ is64 \in BOOLEAN /\ body = EmitBody(i, is64)
      /\ body.ok /\ bytes \in Seq(Byte) /\ Starts(bytes, i, is64, body.bytes, at, end, r)
  BY <1>1 DEF Emits, Starts
<1>3. c \in {"IntToFP"}
  BY <1>1
<1>4. kinds = <<"v", "r">>
  BY <1>1, <1>3, SMT DEF OperandKinds
<1>5. c \notin Tied /\ c # "CopyVV" /\ c \notin {"CopyRR", "FPXLoad", "FPXStore"}
  BY <1>3, SMT DEF Tied, VariantClasses
<1>6. Class[c][1] = 0 /\ Class[c][2] \in {"IntToFP"}
  BY <1>3, SMT DEF Class
<1>7. GroupOf(n) = 0 /\ FormOf(n) \in {"IntToFP"}
  BY <1>1, <1>6 DEF GroupOf, FormOf
<1>8. FormFor(n) \in {"IntToFP"}
  <2>1. DecodeForm[c] \in {"IntToFP"}
    BY <1>3, SMT DEF DecodeForm
  <2> QED
    BY <1>1, <1>2, <1>5, <1>6, <2>1, FormForClass
<1>9. Len(i.ops) = 2
      /\ HoldsKind("v", i.ops, 1)
      /\ HoldsKind("r", i.ops, 2)
  <2>1. Fills(i.ops, source, kinds, 0)
    BY <1>1, <1>2, <1>5 DEF Filled
  <2> QED
    BY <1>4, <2>1 DEF Fills, Place, Size
<1>10. PICK a, b : a = i.ops[1][2] /\ b = i.ops[2][2]
  BY Zenon
<1>11. /\ i.ops[1] = Vec(a) /\ a \in 0 .. 31 /\ a \in Byte
       /\ i.ops[2] = GPR(b) /\ b \in 0 .. 31 /\ b \in Byte
  BY <1>9, <1>10, RegisterKind, VectorKind
<1>12. PICK lanes, tail, rest : lanes = 8 * LaneOf(n) /\ tail = <<ScalarVectorCtl(i)>> /\ rest = <<>>
  BY Zenon
<1>13. body.bytes = RegForm(64, OpcodeBytes(i), a, b, tail)
  <2>1. body = EmitBase(i, is64)
    BY <1>1, <1>2, <1>7 DEF EmitBody
  <2>2. body = EmitConversion(i)
    BY <1>1, <1>2, <1>3, <1>7, <2>1 DEF EmitBase
  <2> QED
    BY <1>1, <1>2, <1>3, <1>7, <1>10, <1>12, <2>2 DEF EmitConversion, Bytes, EmitIf, Emitted, Rejected, Num
<1>14. tail = <<lanes>> \o rest /\ rest \in Seq(Byte)
  <2>1. tail = <<lanes>> \o <<>>
    BY <1>1, <1>2, <1>12, LaneByte, LaneLists
  <2> QED
    BY <1>12, <2>1, NoBytes
<1>15. PICK p, g : RegLeft(g, bytes, i, a, b, TRUE, p, rest, end, r, is64)
  <2>1. RegisterRead(n)
    BY <1>8, RegisterForms
  <2>2. a \in 0 .. 31 /\ b \in 0 .. 31
    BY <1>11
  <2>3. PICK s : s = body.bytes
    OBVIOUS
  <2>4. Starts(bytes, i, is64, s, at, end, r) /\ s = RegForm(64, OpcodeBytes(i), a, b, <<lanes>> \o rest)
    BY <1>2, <1>13, <1>14, <2>3, Zenon
  <2> QED
    BY <1>1, <1>5, <1>12, <1>14, <2>1, <2>2, <2>4, VectorForm
<1>16. /\ g.ok = TRUE /\ g.bytes = bytes /\ g.at = p /\ g.marker = i.marker /\ g.name = n
       /\ (g.vector <=> TRUE) /\ g.form = FormFor(n) /\ g.reg = a /\ g.rm = b
       /\ p \in Nat /\ Has(bytes, p, rest) /\ end = p + Len(rest) /\ r = ReadOperands(g, is64)
  BY <1>1, <1>15 DEF RegLeft, RegReady
<1>17. end = p
  BY <1>12, <1>16
<1>18. r = ReadConversion(g)
  BY <1>8, <1>16 DEF ReadOperands, MemoryForms
<1>19. PICK ops : ops = <<Vec(a), GPR(b)>>
  BY Zenon
<1>20. r = Success(g, ops, end)
  BY <1>1, <1>3, <1>8, <1>11, <1>12, <1>16, <1>17, <1>18, <1>19 DEF ReadConversion
<1>21. Len(ops) = Len(i.ops) /\ \A k \in 1 .. Len(i.ops) : Agrees(i.ops[k], ops[k], is64)
  BY <1>9, <1>11, <1>19 DEF Agrees
<1> QED
  BY <1>1, <1>16, <1>20, <1>21, SuccessSame, Zenon

\* A dot product comes back.
LEMMA ReadsDot ==
  ASSUME NEW bytes, NEW i, NEW source, NEW is64, NEW body, NEW at, NEW end, NEW r,
         Emits(bytes, i, source, is64, body, at, end, r),
         ClassOf(i.name) \in {"DSPDot"}
  PROVE SameAs(r, i, end, is64)
<1>1. PICK n, c, kinds : n = i.name /\ c = ClassOf(i.name) /\ kinds = OperandKinds[c]
  OBVIOUS
<1>2. /\ n \in DOMAIN Records /\ Filled(i, source) /\ is64 \in BOOLEAN /\ body = EmitBody(i, is64)
      /\ body.ok /\ bytes \in Seq(Byte) /\ Starts(bytes, i, is64, body.bytes, at, end, r)
  BY <1>1 DEF Emits, Starts
<1>3. c \in {"DSPDot"}
  BY <1>1
<1>4. kinds = <<"r", "v", "v">>
  BY <1>1, <1>3, SMT DEF OperandKinds
<1>5. c \notin Tied /\ c # "CopyVV" /\ c \notin {"CopyRR", "FPXLoad", "FPXStore"}
  BY <1>3, SMT DEF Tied, VariantClasses
<1>6. Class[c][1] = 3 /\ Class[c][2] \in {"VBinary"}
  BY <1>3, SMT DEF Class
<1>7. GroupOf(n) = 3 /\ FormOf(n) \in {"VBinary"}
  BY <1>1, <1>6 DEF GroupOf, FormOf
<1>8. FormFor(n) \in {"DSPDot"}
  <2>1. DSPDecodeForm[c] \in {"DSPDot"}
    BY <1>3, SMT DEF DSPDecodeForm
  <2>2. FormTable[3] = DSPDecodeForm
    BY DEF FormTable
  <2> QED
    BY <1>1, <1>2, <1>5, <1>6, <2>1, <2>2, FormForClass
<1>9. Len(i.ops) = 3
      /\ HoldsKind("r", i.ops, 1)
      /\ HoldsKind("v", i.ops, 2)
      /\ HoldsKind("v", i.ops, 3)
  <2>1. Fills(i.ops, source, kinds, 0)
    BY <1>1, <1>2, <1>5 DEF Filled
  <2> QED
    BY <1>4, <2>1 DEF Fills, Place, Size
<1>10. PICK a, b, d : a = i.ops[1][2] /\ b = i.ops[2][2] /\ d = i.ops[3][2]
  BY Zenon
<1>11. /\ i.ops[1] = GPR(a) /\ a \in 0 .. 31 /\ a \in Byte
       /\ i.ops[2] = Vec(b) /\ b \in 0 .. 31 /\ b \in Byte
       /\ i.ops[3] = Vec(d) /\ d \in 0 .. 31 /\ d \in Byte
  BY <1>9, <1>10, RegisterKind, VectorKind
<1>12. PICK lanes, tail, rest : lanes = 8 * LaneOf(n) /\ tail = <<24>> \o ExtraBytes(i, TRUE) /\ rest = <<Xop(d)>>
  BY Zenon
<1>13. body.bytes = RegForm(64, OpcodeBytes(i), a, b, tail)
  <2>1. PICK extras : extras = ExtraBytes(i, TRUE)
    BY Zenon
  <2>2. GroupOf(i.name) = 3 /\ FormOf(i.name) # "TernaryByte" /\ i.name \in DOMAIN Records
        /\ ClassOf(i.name) \in {"DSPDot", "DSPSumDot"}
    BY <1>1, <1>2, <1>3, <1>7
  <2>3. body.bytes = RegForm(64, OpcodeBytes(i), Num(i, 1), Num(i, 2), <<24>> \o extras)
    BY <1>2, <2>1, <2>2, DotBody, Zenon
  <2> QED
    BY <1>10, <1>12, <2>1, <2>3 DEF Num
<1>130. lanes = 24
  <2>1. c \notin VariantClasses
    BY <1>3, SMT DEF VariantClasses
  <2> QED
    BY <1>1, <1>2, <1>12, <2>1, OwnLanes
<1>14. tail = <<lanes>> \o rest /\ rest \in Seq(Byte)
  <2>1. ExtraBytes(i, TRUE) = [k \in 1 .. 1 |-> Num(i, k + 2) + 32]
    BY <1>9 DEF ExtraBytes
  <2>2. [k \in 1 .. 1 |-> Num(i, k + 2) + 32] = <<Num(i, 3) + 32>>
    OBVIOUS
  <2>3. Num(i, 3) + 32 = Xop(d)
    BY <1>10, <1>11 DEF Num, Xop
  <2>4. ExtraBytes(i, TRUE) = <<Xop(d)>>
    BY <2>1, <2>2, <2>3, Zenon
  <2>5. tail = <<lanes>> \o <<Xop(d)>>
    BY <1>12, <1>130, <2>4, Zenon
  <2>6. Xop(d) \in Byte
    BY <1>11, XopRead
  <2> QED
    BY <1>12, <2>5, <2>6, SingleByte, Zenon
<1>15. PICK p, g : RegLeft(g, bytes, i, a, b, TRUE, p, rest, end, r, is64)
  <2>1. RegisterRead(n)
    BY <1>8, RegisterForms
  <2>2. a \in 0 .. 31 /\ b \in 0 .. 31
    BY <1>11
  <2>3. PICK s : s = body.bytes
    OBVIOUS
  <2>4. Starts(bytes, i, is64, s, at, end, r) /\ s = RegForm(64, OpcodeBytes(i), a, b, <<lanes>> \o rest)
    BY <1>2, <1>13, <1>14, <2>3, Zenon
  <2> QED
    BY <1>1, <1>5, <1>12, <1>14, <2>1, <2>2, <2>4, VectorForm
<1>16. /\ g.ok = TRUE /\ g.bytes = bytes /\ g.at = p /\ g.marker = i.marker /\ g.name = n
       /\ (g.vector <=> TRUE) /\ g.form = FormFor(n) /\ g.reg = a /\ g.rm = b
       /\ p \in Nat /\ Has(bytes, p, rest) /\ end = p + Len(rest) /\ r = ReadOperands(g, is64)
  BY <1>1, <1>15 DEF RegLeft, RegReady
<1>17. Holds(bytes, p, 1) /\ At(bytes, p) = Xop(d) /\ end = p + 1 /\ IsXop(Xop(d)) /\ Xop(d) % 32 = d
  BY <1>2, <1>11, <1>12, <1>16, ByteTail, XopRead, Zenon
<1>18. r = ReadDSPDot(g)
  BY <1>8, <1>16 DEF ReadOperands, MemoryForms
<1>19. PICK ops : ops = <<GPR(a), Vec(b), Vec(d)>>
  BY Zenon
<1>20. r = Success(g, ops, end)
  BY <1>1, <1>3, <1>8, <1>11, <1>12, <1>16, <1>17, <1>18, <1>19 DEF ReadDSPDot
<1>21. Len(ops) = Len(i.ops) /\ \A k \in 1 .. Len(i.ops) : Agrees(i.ops[k], ops[k], is64)
  BY <1>9, <1>11, <1>19 DEF Agrees
<1> QED
  BY <1>1, <1>16, <1>20, <1>21, SuccessSame, Zenon

\* An instruction of one address-wide number comes back.
LEMMA ReadsFrame ==
  ASSUME NEW bytes, NEW i, NEW source, NEW is64, NEW body, NEW at, NEW end, NEW r,
         Emits(bytes, i, source, is64, body, at, end, r),
         ClassOf(i.name) \in {"FrameImm", "SleepImm"}
  PROVE SameAs(r, i, end, is64)
<1>1. PICK n, c, kinds : n = i.name /\ c = ClassOf(i.name) /\ kinds = OperandKinds[c]
  OBVIOUS
<1>2. /\ n \in DOMAIN Records /\ Filled(i, source) /\ is64 \in BOOLEAN /\ body = EmitBody(i, is64)
      /\ body.ok /\ bytes \in Seq(Byte) /\ Starts(bytes, i, is64, body.bytes, at, end, r)
  BY <1>1 DEF Emits, Starts
<1>3. c \in {"FrameImm", "SleepImm"}
  BY <1>1
<1>4. kinds = << "i" >>
  BY <1>1, <1>3, SMT DEF OperandKinds
<1>5. c \notin Tied /\ c # "CopyVV" /\ c \notin VariantClasses
  BY <1>3, SMT DEF Tied, VariantClasses
<1>6. Class[c][1] \in {0} /\ Class[c][2] = "FrameImm"
  BY <1>3, SMT DEF Class
<1>7. GroupOf(n) \in {0} /\ FormOf(n) = "FrameImm"
  BY <1>1, <1>6 DEF GroupOf, FormOf
<1>8. FormFor(n) = "FrameImm"
  <2>1. (IF Class[c][1] = 0 THEN DecodeForm[c] ELSE FormTable[Class[c][1]][c]) = "FrameImm"
    <3>1. CASE c \in {"FrameImm", "SleepImm"}
      <4>1. TRUE
        OBVIOUS
      <4>2. DecodeForm[c] = "FrameImm"
        BY <3>1, SMT DEF DecodeForm
      <4>3. Class[c][1] = 0
        BY <3>1, SMT DEF Class
      <4> QED
        BY <4>1, <4>2, <4>3
    <3> QED
      BY <1>3, <3>1
  <2> QED
    BY <1>1, <1>2, <1>5, <2>1, FormForClass
<1>9. Len(i.ops) = 1 /\ HoldsKind("i", i.ops, 1)
  <2>1. Fills(i.ops, source, kinds, 0)
    BY <1>1, <1>2, <1>5 DEF Filled
  <2> QED
    BY <1>4, <2>1 DEF Fills, Place, Size
<1>10. PICK s : s = body.bytes
  OBVIOUS
<1>11. IsImm(i.ops[1]) /\ (is64 \/ i.ops[1][3] = 0) /\ s = OpcodeBytes(i) \o AddressBytes(i.ops[1], is64)
  <2>1. body = EmitBase(i, is64)
    BY <1>1, <1>2, <1>7 DEF EmitBody
  <2>2. body = EmitFrameImm(i, is64)
    BY <1>1, <1>7, <2>1 DEF EmitBase
  <2>3. IsImm(i.ops[1]) /\ i.ops[1][3] >= 0 /\ (is64 \/ i.ops[1][3] = 0)
    BY <1>2, <2>2 DEF EmitFrameImm, EmitIf, Rejected
  <2> QED
    BY <1>10, <2>2, <2>3 DEF EmitFrameImm, EmitIf, Bytes, Emitted
<1>110. PICK imm : imm = i.ops[1]
  OBVIOUS
<1>111. imm = Wide(imm[2], imm[3]) /\ imm[2] \in Word32 /\ imm[3] \in Word32
  BY <1>9, <1>11, <1>110, ImmediateKind
<1>12. PICK tail : tail = AddressBytes(imm, is64)
  OBVIOUS
<1>13. tail \in Seq(Byte) /\ s = OpcodeBytes(i) \o tail
  BY <1>2, <1>11, <1>110, <1>111, <1>12, AddressString, WordIsInteger
<1>14. PICK p, g : ShortLeft(g, bytes, i, p, tail, end, r, is64)
  BY <1>1, <1>2, <1>5, <1>8, <1>10, <1>12, <1>13, ShortBody, Zenon DEF ShortBodys
<1>15. /\ r = ReadFrameImm(g, is64) /\ end = p + Len(tail) /\ g.name = i.name /\ g.marker = i.marker
       /\ g.at = p /\ g.bytes = bytes /\ ~g.extended /\ ~g.vector /\ p \in Nat /\ Has(bytes, p, tail)
  BY <1>1, <1>8, <1>14 DEF ShortLeft, ReadInstruction
<1>16. /\ end = p + AddressWidth(is64) /\ Holds(bytes, p, AddressWidth(is64))
       /\ is64 => ReadAddress(bytes, p, is64, 0) = imm
       /\ ~is64 => ReadAddress(bytes, p, is64, 0) = Wide(imm[2], 0)
  BY <1>2, <1>12, <1>15, <1>111, AddressRead
<1>17. ReadAddress(bytes, p, is64, 0) = imm
  BY <1>11, <1>16, <1>110, <1>111
<1>18. PICK ops : ops = <<imm>>
  BY Zenon
<1>20. r = Success(g, ops, end)
  BY <1>15, <1>16, <1>17, <1>18 DEF ReadFrameImm
<1>21. Len(ops) = Len(i.ops) /\ \A k \in 1 .. Len(i.ops) : Agrees(i.ops[k], ops[k], is64)
  BY <1>9, <1>18, <1>110 DEF Agrees
<1>22. g.name = i.name /\ g.marker = i.marker
  BY <1>15
<1> QED
  BY <1>20, <1>21, <1>22, SuccessSame, Zenon

\* An operation on a register in place comes back.
LEMMA ReadsInPlace ==
  ASSUME NEW bytes, NEW i, NEW source, NEW is64, NEW body, NEW at, NEW end, NEW r,
         Emits(bytes, i, source, is64, body, at, end, r),
         ClassOf(i.name) \in {"UnaryInPlace"}
  PROVE SameAs(r, i, end, is64)
<1>1. PICK n, c, kinds : n = i.name /\ c = ClassOf(i.name) /\ kinds = OperandKinds[c]
  OBVIOUS
<1>2. /\ n \in DOMAIN Records /\ Filled(i, source) /\ is64 \in BOOLEAN /\ body = EmitBody(i, is64)
      /\ body.ok /\ bytes \in Seq(Byte) /\ Starts(bytes, i, is64, body.bytes, at, end, r)
  BY <1>1 DEF Emits, Starts
<1>3. c \in {"UnaryInPlace"}
  BY <1>1
<1>4. kinds = <<"r">>
  BY <1>1, <1>3, SMT DEF OperandKinds
<1>5. c \in Tied /\ c # "CopyVV" /\ c \notin VariantClasses
  BY <1>3, SMT DEF Tied, VariantClasses
<1>6. Class[c][1] = 0 /\ Class[c][2] \in {"UnaryInPlace"}
  BY <1>3, SMT DEF Class
<1>7. GroupOf(n) = 0 /\ FormOf(n) \in {"UnaryInPlace"}
  BY <1>1, <1>6 DEF GroupOf, FormOf
<1>8. FormFor(n) \in {"UnaryInPlace"}
  <2>1. DecodeForm[c] \in {"UnaryInPlace"}
    BY <1>3, SMT DEF DecodeForm
  <2> QED
    BY <1>1, <1>2, <1>5, <1>6, <2>1, FormForClass
<1>9. Len(i.ops) = 2 /\ i.ops[1] = i.ops[2]
      /\ HoldsKind("r", i.ops, 2)
  <2>1. Fills(i.ops, source, kinds, 1)
    BY <1>1, <1>2, <1>5 DEF Filled
  <2> QED
    BY <1>4, <2>1 DEF Fills, Place, Size
<1>10. PICK a : a = i.ops[2][2]
  OBVIOUS
<1>11. /\ i.ops[2] = GPR(a) /\ a \in 0 .. 31 /\ a \in Byte
  BY <1>9, <1>10, RegisterKind, VectorKind
<1>12. PICK tail : tail = <<>>
  OBVIOUS
<1>13. body.bytes = RegForm(0, OpcodeBytes(i), 0, a, tail)
  <2>1. body = EmitBase(i, is64)
    BY <1>1, <1>2, <1>7 DEF EmitBody
  <2>2. body = EmitOneRegister(i)
    BY <1>1, <1>2, <1>3, <1>7, <2>1 DEF EmitBase
  <2> QED
    BY <1>1, <1>2, <1>3, <1>7, <1>10, <1>12, <2>2, <1>9 DEF EmitOneRegister, Bytes, EmitIf, Emitted, Rejected, Num
<1>14. tail \in Seq(Byte)
  BY <1>12, NoBytes
<1>15. PICK p, g : RegLeft(g, bytes, i, 0, a, FALSE, p, tail, end, r, is64)
  <2>1. RegisterRead(n)
    BY <1>8, RegisterForms
  <2>2. 0 \in 0 .. 31 /\ a \in 0 .. 31
    BY <1>11
  <2>3. PICK s : s = body.bytes
    OBVIOUS
  <2>4. Starts(bytes, i, is64, s, at, end, r) /\ s = RegForm(0, OpcodeBytes(i), 0, a, tail)
    BY <1>2, <1>13, <2>3
  <2> QED
    BY <1>1, <1>5, <1>14, <2>1, <2>2, <2>4, PlainForm, Zenon
<1>16. /\ g.ok = TRUE /\ g.bytes = bytes /\ g.at = p /\ g.marker = i.marker /\ g.name = n
       /\ (g.vector <=> FALSE) /\ g.form = FormFor(n) /\ g.reg = 0 /\ g.rm = a
       /\ p \in Nat /\ Has(bytes, p, tail) /\ end = p + Len(tail) /\ r = ReadOperands(g, is64)
  BY <1>1, <1>15 DEF RegLeft, RegReady
<1>18. r = ReadUnaryInPlace(g)
  BY <1>8, <1>16 DEF ReadOperands, MemoryForms
<1>19. PICK ops : ops = <<GPR(a), GPR(a)>>
  BY Zenon
<1>20. r = Success(g, ops, end)
  BY <1>1, <1>3, <1>8, <1>11, <1>12, <1>16, <1>18, <1>19 DEF ReadUnaryInPlace
<1>21. Len(ops) = Len(i.ops) /\ \A k \in 1 .. Len(i.ops) : Agrees(i.ops[k], ops[k], is64)
  BY <1>9, <1>11, <1>19 DEF Agrees
<1> QED
  BY <1>1, <1>16, <1>20, <1>21, SuccessSame, Zenon

\* A load of a pair of registers comes back.
LEMMA ReadsLoadPair ==
  ASSUME NEW bytes, NEW i, NEW source, NEW is64, NEW body, NEW at, NEW end, NEW r,
         Emits(bytes, i, source, is64, body, at, end, r),
         ClassOf(i.name) \in {"PairLoad"}
  PROVE SameAs(r, i, end, is64)
<1>1. PICK n, c, kinds : n = i.name /\ c = ClassOf(i.name) /\ kinds = OperandKinds[c]
  OBVIOUS
<1>2. /\ n \in DOMAIN Records /\ Filled(i, source) /\ is64 \in BOOLEAN /\ body = EmitBody(i, is64)
      /\ body.ok /\ bytes \in Seq(Byte) /\ Starts(bytes, i, is64, body.bytes, at, end, r)
  BY <1>1 DEF Emits, Starts
<1>3. c \in {"PairLoad"}
  BY <1>1
<1>4. kinds = <<"r", "r", "m">>
  BY <1>1, <1>3, SMT DEF OperandKinds
<1>5. c \notin Tied /\ c # "CopyVV" /\ c \notin VariantClasses
  BY <1>3, SMT DEF Tied, VariantClasses
<1>6. Class[c][1] = 0 /\ Class[c][2] \in {"FPBinary"}
  BY <1>3, SMT DEF Class
<1>7. GroupOf(n) = 0 /\ FormOf(n) \in {"FPBinary"}
  BY <1>1, <1>6 DEF GroupOf, FormOf
<1>8. FormFor(n) \in {"PairLoad"}
  <2>1. DecodeForm[c] \in {"PairLoad"}
    BY <1>3, SMT DEF DecodeForm
  <2> QED
    BY <1>1, <1>2, <1>5, <1>6, <2>1, FormForClass
<1>9. Len(i.ops) = 6
      /\ HoldsKind("r", i.ops, 1)
      /\ HoldsKind("r", i.ops, 2)
      /\ HoldsKind("m", i.ops, 3)
  <2>1. Fills(i.ops, source, kinds, 0)
    BY <1>1, <1>2, <1>5 DEF Filled
  <2> QED
    BY <1>4, <2>1 DEF Fills, Place, Size
<1>10. PICK a, b, d : a = i.ops[1][2] /\ b = i.ops[2][2] /\ d = i.ops[3][2]
  BY Zenon
<1>11. /\ i.ops[1] = GPR(a) /\ a \in 0 .. 31 /\ a \in Byte
       /\ i.ops[2] = GPR(b) /\ b \in 0 .. 31 /\ b \in Byte
       /\ i.ops[3] = GPR(d) /\ d \in 0 .. 31 /\ d \in Byte
  BY <1>9, <1>10, RegisterKind, VectorKind, AddressKind
<1>12. PICK tail : tail = <<d>>
  BY Zenon
<1>13. body.bytes = RegForm(0, OpcodeBytes(i), a, b, tail) /\ (~HasIndex(i.ops[4]) /\ i.ops[5] = Imm(1) /\ i.ops[6] = Imm(0))
  <2>1. body = EmitBase(i, is64)
    BY <1>1, <1>2, <1>7 DEF EmitBody
  <2>2. body = EmitPairLoad(i)
    BY <1>1, <1>2, <1>3, <1>7, <2>1, NamedClasses1 DEF EmitBase
  <2>3. ~HasIndex(i.ops[4]) /\ i.ops[5] = Imm(1) /\ i.ops[6] = Imm(0)
    BY <1>1, <1>2, <1>3, <1>7, <1>10, <2>2, NamedClasses1 DEF EmitPairLoad, EmitIf, Rejected, Num
  <2> QED
    BY <1>1, <1>2, <1>3, <1>7, <1>10, <1>12, <2>2, <2>3, NamedClasses1 DEF EmitPairLoad, Bytes, EmitIf, Emitted, Rejected, Num
<1>14. tail \in Seq(Byte)
  BY <1>11, <1>12, SingleByte
<1>15. PICK p, g : RegLeft(g, bytes, i, a, b, FALSE, p, tail, end, r, is64)
  <2>1. RegisterRead(n)
    BY <1>8, RegisterForms
  <2>2. a \in 0 .. 31 /\ b \in 0 .. 31
    BY <1>11
  <2>3. PICK s : s = body.bytes
    OBVIOUS
  <2>4. Starts(bytes, i, is64, s, at, end, r) /\ s = RegForm(0, OpcodeBytes(i), a, b, tail)
    BY <1>2, <1>13, <2>3
  <2> QED
    BY <1>1, <1>5, <1>14, <2>1, <2>2, <2>4, PlainForm, Zenon
<1>16. /\ g.ok = TRUE /\ g.bytes = bytes /\ g.at = p /\ g.marker = i.marker /\ g.name = n
       /\ (g.vector <=> FALSE) /\ g.form = FormFor(n) /\ g.reg = a /\ g.rm = b
       /\ p \in Nat /\ Has(bytes, p, tail) /\ end = p + Len(tail) /\ r = ReadOperands(g, is64)
  BY <1>1, <1>15 DEF RegLeft, RegReady
<1>17. Holds(bytes, p, 1) /\ At(bytes, p) = d /\ end = p + 1
  BY <1>2, <1>12, <1>16, ByteTail
<1>18. r = ReadPairLoad(g)
  BY <1>8, <1>16 DEF ReadOperands, MemoryForms
<1>19. PICK ops : ops = <<GPR(a), GPR(b), GPR(d), GPR(4), Imm(1), Imm(0)>>
  BY Zenon
<1>20. r = Success(g, ops, end)
  BY <1>1, <1>3, <1>8, <1>11, <1>12, <1>13, <1>16, <1>17, <1>18, <1>19 DEF ReadPairLoad
<1>210. i.ops[4] = GPR(4)
  <2>1. PICK x : x = i.ops[4][2]
    OBVIOUS
  <2>2. i.ops[3 + 1] = GPR(i.ops[3 + 1][2])
    BY <1>9, AddressKind
  <2>3. i.ops[4] = GPR(x)
    BY <2>1, <2>2
  <2>4. GPR(x) # NoIndex
    BY DEF GPR, NoIndex
  <2> QED
    BY <1>13, <2>3, <2>4 DEF HasIndex
<1>21. Len(ops) = Len(i.ops) /\ \A k \in 1 .. Len(i.ops) : Agrees(i.ops[k], ops[k], is64)
  BY <1>9, <1>11, <1>13, <1>19, <1>210 DEF Agrees
<1> QED
  BY <1>1, <1>16, <1>20, <1>21, SuccessSame, Zenon

\* An operation on two registers and an address-wide number comes back.
LEMMA ReadsNumber ==
  ASSUME NEW bytes, NEW i, NEW source, NEW is64, NEW body, NEW at, NEW end, NEW r,
         Emits(bytes, i, source, is64, body, at, end, r),
         ClassOf(i.name) \in {"TernaryRI"}
  PROVE SameAs(r, i, end, is64)
<1>1. PICK n, c, kinds : n = i.name /\ c = ClassOf(i.name) /\ kinds = OperandKinds[c]
  OBVIOUS
<1>2. /\ n \in DOMAIN Records /\ Filled(i, source) /\ is64 \in BOOLEAN /\ body = EmitBody(i, is64)
      /\ body.ok /\ bytes \in Seq(Byte) /\ Starts(bytes, i, is64, body.bytes, at, end, r)
  BY <1>1 DEF Emits, Starts
<1>3. c \in {"TernaryRI"}
  BY <1>1
<1>4. kinds = <<"r", "r", "i">>
  BY <1>1, <1>3, SMT DEF OperandKinds
<1>5. c \notin Tied /\ c # "CopyVV" /\ c \notin VariantClasses
  BY <1>3, SMT DEF Tied, VariantClasses
<1>6. Class[c][1] = 0 /\ Class[c][2] \in {"TernaryRI"}
  BY <1>3, SMT DEF Class
<1>7. GroupOf(n) = 0 /\ FormOf(n) \in {"TernaryRI"}
  BY <1>1, <1>6 DEF GroupOf, FormOf
<1>8. FormFor(n) \in {"TernaryRI"}
  <2>1. DecodeForm[c] \in {"TernaryRI"}
    BY <1>3, SMT DEF DecodeForm
  <2> QED
    BY <1>1, <1>2, <1>5, <1>6, <2>1, FormForClass
<1>9. Len(i.ops) = 3
      /\ HoldsKind("r", i.ops, 1)
      /\ HoldsKind("r", i.ops, 2)
      /\ HoldsKind("i", i.ops, 3)
  <2>1. Fills(i.ops, source, kinds, 0)
    BY <1>1, <1>2, <1>5 DEF Filled
  <2> QED
    BY <1>4, <2>1 DEF Fills, Place, Size
<1>10. PICK a, b, imm : a = i.ops[1][2] /\ b = i.ops[2][2] /\ imm = i.ops[3]
  BY Zenon
<1>11. /\ i.ops[1] = GPR(a) /\ a \in 0 .. 31 /\ a \in Byte
       /\ i.ops[2] = GPR(b) /\ b \in 0 .. 31 /\ b \in Byte
  BY <1>9, <1>10, RegisterKind, VectorKind
<1>12. PICK tail : tail = AddressBytes(imm, is64)
  OBVIOUS
<1>13. body.bytes = RegForm(0, OpcodeBytes(i), a, b, tail) /\ (IsImm(i.ops[3]))
  <2>1. body = EmitBase(i, is64)
    BY <1>1, <1>2, <1>7 DEF EmitBody
  <2>2. body = EmitTernaryImm(i, is64)
    BY <1>1, <1>7, <2>1 DEF EmitBase
  <2>3. ~(i.name \in {"VSHL128", "VSHR128"})
    BY <1>1, <1>2, <1>3, ReadByName
  <2>4. body = EmitIf(IsImm(i.ops[3]) /\ (FormOf(n) = "TernaryByte" => UInt(i.ops[3], 8)),
                      RegForm(0, OpcodeBytes(i), Num(i, 1), Num(i, 2), <<>> \o AddressBytes(i.ops[3], is64)))
    BY <1>1, <1>7, <2>2, <2>3 DEF EmitTernaryImm, Bit
  <2>5. IsImm(i.ops[3])
    BY <1>2, <2>4 DEF EmitIf, Rejected
  <2>6. i.ops[3][2] \in Int /\ i.ops[3][3] \in Int
    BY <1>9, <2>5, ImmediateKind, WordIsInteger
  <2>7. <<>> \o tail = tail
    BY <1>2, <1>12, <2>6, AddressString, NoBytes
  <2> QED
    BY <1>2, <1>10, <1>12, <2>4, <2>5, <2>7 DEF EmitIf, Bytes, Emitted, Rejected, Num
<1>130. imm = Wide(imm[2], imm[3]) /\ imm[2] \in Word32 /\ imm[3] \in Word32
  BY <1>9, <1>10, <1>13, ImmediateKind
<1>14. tail \in Seq(Byte)
  BY <1>2, <1>12, <1>130, AddressString, WordIsInteger
<1>15. PICK p, g : RegLeft(g, bytes, i, a, b, FALSE, p, tail, end, r, is64)
  <2>1. RegisterRead(n)
    BY <1>8, RegisterForms
  <2>2. a \in 0 .. 31 /\ b \in 0 .. 31
    BY <1>11
  <2>3. PICK s : s = body.bytes
    OBVIOUS
  <2>4. Starts(bytes, i, is64, s, at, end, r) /\ s = RegForm(0, OpcodeBytes(i), a, b, tail)
    BY <1>2, <1>13, <2>3
  <2> QED
    BY <1>1, <1>5, <1>14, <2>1, <2>2, <2>4, PlainForm, Zenon
<1>16. /\ g.ok = TRUE /\ g.bytes = bytes /\ g.at = p /\ g.marker = i.marker /\ g.name = n
       /\ (g.vector <=> FALSE) /\ g.form = FormFor(n) /\ g.reg = a /\ g.rm = b
       /\ p \in Nat /\ Has(bytes, p, tail) /\ end = p + Len(tail) /\ r = ReadOperands(g, is64)
  BY <1>1, <1>15 DEF RegLeft, RegReady
<1>170. PICK high, found : /\ high = (IF Signed32(bytes, p) < 0 THEN -1 ELSE 0)
                           /\ found = ReadAddress(bytes, p, is64, high)
  OBVIOUS
<1>17. /\ Agrees(imm, found, is64) /\ end = p + AddressWidth(is64) /\ Holds(bytes, p, AddressWidth(is64))
  BY <1>2, <1>12, <1>130, <1>16, <1>170, AddressAgrees
<1>18. r = ReadTernaryImm(g, is64)
  BY <1>8, <1>16 DEF ReadOperands, MemoryForms
<1>19. PICK ops : ops = <<GPR(a), GPR(b), found>>
  BY Zenon
<1>20. r = Success(g, ops, end)
  <2>1. g.name \notin {"VSHL128", "VSHR128"}
    BY <1>1, <1>2, <1>3, <1>16, ReadByName
  <2>2. PICK z : z = <<GPR(a), GPR(b)>> \o <<found>>
    BY Zenon
  <2>3. ReadTernaryImm(g, is64) = Success(g, z, p + AddressWidth(is64))
    BY <1>8, <1>16, <1>17, <1>170, <2>1, <2>2 DEF ReadTernaryImm
  <2>4. PICK x, y : x = GPR(a) /\ y = GPR(b)
    OBVIOUS
  <2>5. <<x, y>> \o <<found>> = <<x, y, found>>
    BY ShortLists
  <2> QED
    BY <1>17, <1>18, <1>19, <2>2, <2>3, <2>4, <2>5, Zenon
<1>21. Len(ops) = Len(i.ops) /\ \A k \in 1 .. Len(i.ops) : Agrees(i.ops[k], ops[k], is64)
  <2>1. Agrees(i.ops[1], ops[1], is64) /\ Agrees(i.ops[2], ops[2], is64)
    BY <1>11, <1>19, EqualAgree
  <2>2. Agrees(i.ops[3], ops[3], is64)
    BY <1>10, <1>17, <1>19
  <2> QED
    BY <1>9, <1>19, <2>1, <2>2
<1> QED
  BY <1>1, <1>16, <1>20, <1>21, SuccessSame, Zenon

\* An instruction of one register comes back.
LEMMA ReadsOne ==
  ASSUME NEW bytes, NEW i, NEW source, NEW is64, NEW body, NEW at, NEW end, NEW r,
         Emits(bytes, i, source, is64, body, at, end, r),
         ClassOf(i.name) \in {"PushReg", "PopReg", "TxnAbortReg", "ReadReg", "TxnReadReg"}
  PROVE SameAs(r, i, end, is64)
<1>1. PICK n, c, kinds : n = i.name /\ c = ClassOf(i.name) /\ kinds = OperandKinds[c]
  OBVIOUS
<1>2. /\ n \in DOMAIN Records /\ Filled(i, source) /\ is64 \in BOOLEAN /\ body = EmitBody(i, is64)
      /\ body.ok /\ bytes \in Seq(Byte) /\ Starts(bytes, i, is64, body.bytes, at, end, r)
  BY <1>1 DEF Emits, Starts
<1>3. c \in {"PushReg", "PopReg", "TxnAbortReg", "ReadReg", "TxnReadReg"}
  BY <1>1
<1>4. kinds = <<"r">>
  BY <1>1, <1>3, SMT DEF OperandKinds
<1>5. c \notin Tied /\ c # "CopyVV" /\ c \notin VariantClasses
  BY <1>3, SMT DEF Tied, VariantClasses
<1>6. Class[c][1] = 0 /\ Class[c][2] \in {"StackReg", "ReadReg"}
  BY <1>3, SMT DEF Class
<1>7. GroupOf(n) = 0 /\ FormOf(n) \in {"StackReg", "ReadReg"}
  BY <1>1, <1>6 DEF GroupOf, FormOf
<1>8. FormFor(n) \in {"StackReg", "ReadReg"}
  <2>1. DecodeForm[c] \in {"StackReg", "ReadReg"}
    BY <1>3, SMT DEF DecodeForm
  <2> QED
    BY <1>1, <1>2, <1>5, <1>6, <2>1, FormForClass
<1>9. Len(i.ops) = 1
      /\ HoldsKind("r", i.ops, 1)
  <2>1. Fills(i.ops, source, kinds, 0)
    BY <1>1, <1>2, <1>5 DEF Filled
  <2> QED
    BY <1>4, <2>1 DEF Fills, Place, Size
<1>10. PICK a : a = i.ops[1][2]
  OBVIOUS
<1>11. /\ i.ops[1] = GPR(a) /\ a \in 0 .. 31 /\ a \in Byte
  BY <1>9, <1>10, RegisterKind, VectorKind
<1>12. PICK tail : tail = <<>>
  OBVIOUS
<1>13. body.bytes = RegForm(0, OpcodeBytes(i), 0, a, tail) /\ (~(n \in {"PUSHQ", "POPQ"} /\ (a % 2 = 1 \/ a = 31)))
  <2>1. body = EmitBase(i, is64)
    BY <1>1, <1>2, <1>7 DEF EmitBody
  <2>2. body = EmitOneRegister(i)
    BY <1>1, <1>2, <1>3, <1>7, <2>1 DEF EmitBase
  <2>3. ~(n \in {"PUSHQ", "POPQ"} /\ (a % 2 = 1 \/ a = 31))
    BY <1>1, <1>2, <1>3, <1>7, <1>10, <2>2 DEF EmitOneRegister, EmitIf, Rejected, Num
  <2> QED
    BY <1>1, <1>2, <1>3, <1>7, <1>10, <1>12, <2>2, <2>3 DEF EmitOneRegister, Bytes, EmitIf, Emitted, Rejected, Num
<1>14. tail \in Seq(Byte)
  BY <1>12, NoBytes
<1>15. PICK p, g : RegLeft(g, bytes, i, 0, a, FALSE, p, tail, end, r, is64)
  <2>1. RegisterRead(n)
    BY <1>8, RegisterForms
  <2>2. 0 \in 0 .. 31 /\ a \in 0 .. 31
    BY <1>11
  <2>3. PICK s : s = body.bytes
    OBVIOUS
  <2>4. Starts(bytes, i, is64, s, at, end, r) /\ s = RegForm(0, OpcodeBytes(i), 0, a, tail)
    BY <1>2, <1>13, <2>3
  <2> QED
    BY <1>1, <1>5, <1>14, <2>1, <2>2, <2>4, PlainForm, Zenon
<1>16. /\ g.ok = TRUE /\ g.bytes = bytes /\ g.at = p /\ g.marker = i.marker /\ g.name = n
       /\ (g.vector <=> FALSE) /\ g.form = FormFor(n) /\ g.reg = 0 /\ g.rm = a
       /\ p \in Nat /\ Has(bytes, p, tail) /\ end = p + Len(tail) /\ r = ReadOperands(g, is64)
  BY <1>1, <1>15 DEF RegLeft, RegReady
<1>18. r = ReadOneRegister(g)
  BY <1>8, <1>16 DEF ReadOperands, MemoryForms
<1>19. PICK ops : ops = <<GPR(a)>>
  BY Zenon
<1>20. r = Success(g, ops, end)
  BY <1>1, <1>3, <1>8, <1>11, <1>12, <1>13, <1>16, <1>18, <1>19 DEF ReadOneRegister
<1>21. Len(ops) = Len(i.ops) /\ \A k \in 1 .. Len(i.ops) : Agrees(i.ops[k], ops[k], is64)
  BY <1>9, <1>11, <1>19 DEF Agrees
<1> QED
  BY <1>1, <1>16, <1>20, <1>21, SuccessSame

\* An operation on two registers comes back.
LEMMA ReadsPair ==
  ASSUME NEW bytes, NEW i, NEW source, NEW is64, NEW body, NEW at, NEW end, NEW r,
         Emits(bytes, i, source, is64, body, at, end, r),
         ClassOf(i.name) \in {"CopyRR", "CompareRR", "UnaryRR"}
  PROVE SameAs(r, i, end, is64)
<1>1. PICK n, c, kinds : n = i.name /\ c = ClassOf(i.name) /\ kinds = OperandKinds[c]
  OBVIOUS
<1>2. /\ n \in DOMAIN Records /\ Filled(i, source) /\ is64 \in BOOLEAN /\ body = EmitBody(i, is64)
      /\ body.ok /\ bytes \in Seq(Byte) /\ Starts(bytes, i, is64, body.bytes, at, end, r)
  BY <1>1 DEF Emits, Starts
<1>3. c \in {"CopyRR", "CompareRR", "UnaryRR"}
  BY <1>1
<1>4. kinds = <<"r", "r">>
  BY <1>1, <1>3, SMT DEF OperandKinds
<1>5. c \notin Tied /\ c # "CopyVV" /\ c \notin VariantClasses
  BY <1>3, SMT DEF Tied, VariantClasses
<1>6. Class[c][1] = 0 /\ Class[c][2] \in {"CopyRR", "CompareRR", "UnaryRR"}
  BY <1>3, SMT DEF Class
<1>7. GroupOf(n) = 0 /\ FormOf(n) \in {"CopyRR", "CompareRR", "UnaryRR"}
  BY <1>1, <1>6 DEF GroupOf, FormOf
<1>8. FormFor(n) \in {"CopyRR", "CompareRR", "UnaryRR"}
  <2>1. DecodeForm[c] \in {"CopyRR", "CompareRR", "UnaryRR"}
    BY <1>3, SMT DEF DecodeForm
  <2> QED
    BY <1>1, <1>2, <1>5, <1>6, <2>1, FormForClass
<1>9. Len(i.ops) = 2
      /\ HoldsKind("r", i.ops, 1)
      /\ HoldsKind("r", i.ops, 2)
  <2>1. Fills(i.ops, source, kinds, 0)
    BY <1>1, <1>2, <1>5 DEF Filled
  <2> QED
    BY <1>4, <2>1 DEF Fills, Place, Size
<1>10. PICK a, b : a = i.ops[1][2] /\ b = i.ops[2][2]
  BY Zenon
<1>11. /\ i.ops[1] = GPR(a) /\ a \in 0 .. 31 /\ a \in Byte
       /\ i.ops[2] = GPR(b) /\ b \in 0 .. 31 /\ b \in Byte
  BY <1>9, <1>10, RegisterKind, VectorKind
<1>12. PICK tail : tail = <<>>
  OBVIOUS
<1>13. body.bytes = RegForm(0, OpcodeBytes(i), a, b, tail)
  <2>1. body = EmitBase(i, is64)
    BY <1>1, <1>2, <1>7 DEF EmitBody
  <2>2. body = EmitRegisterPair(i)
    BY <1>1, <1>2, <1>3, <1>7, <2>1 DEF EmitBase
  <2> QED
    BY <1>1, <1>2, <1>3, <1>7, <1>10, <1>12, <2>2, <1>9 DEF EmitRegisterPair, LastOp, Bytes, EmitIf, Emitted, Rejected, Num
<1>14. tail \in Seq(Byte)
  BY <1>12, NoBytes
<1>15. PICK p, g : RegLeft(g, bytes, i, a, b, FALSE, p, tail, end, r, is64)
  <2>1. RegisterRead(n)
    BY <1>8, RegisterForms
  <2>2. a \in 0 .. 31 /\ b \in 0 .. 31
    BY <1>11
  <2>3. PICK s : s = body.bytes
    OBVIOUS
  <2>4. Starts(bytes, i, is64, s, at, end, r) /\ s = RegForm(0, OpcodeBytes(i), a, b, tail)
    BY <1>2, <1>13, <2>3
  <2> QED
    BY <1>1, <1>5, <1>14, <2>1, <2>2, <2>4, PlainForm, Zenon
<1>16. /\ g.ok = TRUE /\ g.bytes = bytes /\ g.at = p /\ g.marker = i.marker /\ g.name = n
       /\ (g.vector <=> FALSE) /\ g.form = FormFor(n) /\ g.reg = a /\ g.rm = b
       /\ p \in Nat /\ Has(bytes, p, tail) /\ end = p + Len(tail) /\ r = ReadOperands(g, is64)
  BY <1>1, <1>15 DEF RegLeft, RegReady
<1>18. r = ReadRegisterPair(g)
  BY <1>8, <1>16 DEF ReadOperands, MemoryForms
<1>19. PICK ops : ops = <<GPR(a), GPR(b)>>
  BY Zenon
<1>20. r = Success(g, ops, end)
  <2>1. r = Success(g, <<>> \o <<GPR(a), GPR(b)>>, p)
    BY <1>8, <1>16, <1>18, Zenon DEF ReadRegisterPair
  <2>2. end = p
    BY <1>12, <1>16
  <2> QED
    BY <1>16, <1>19, <2>1, <2>2, ShortLists
<1>21. Len(ops) = Len(i.ops) /\ \A k \in 1 .. Len(i.ops) : Agrees(i.ops[k], ops[k], is64)
  BY <1>9, <1>11, <1>19 DEF Agrees
<1> QED
  BY <1>1, <1>16, <1>20, <1>21, SuccessSame

\* A branch on a register comes back, with the distance in its field.
LEMMA ReadsRegBranch ==
  ASSUME NEW bytes, NEW i, NEW source, Filled(i, source), NEW is64, NEW s, NEW at, NEW field, NEW r,
         Starts(bytes, i, is64, s, at, field, r),
         s = RegForm(0, OpcodeBytes(i), 0, Num(i, 1), <<>>),
         ClassOf(i.name) \in {"RegCondBranch"},
         Holds(bytes, field, 4),
         Agrees(i.ops[2], Imm(Signed32(bytes, field)), is64)
  PROVE SameAs(r, i, field + 4, is64)
<1>1. PICK n, c, kinds : n = i.name /\ c = ClassOf(i.name) /\ kinds = OperandKinds[c]
  OBVIOUS
<1>2. n \in DOMAIN Records /\ Filled(i, source) /\ bytes \in Seq(Byte)
  BY <1>1 DEF Starts
<1>3. c \in {"RegCondBranch"}
  BY <1>1
<1>4. kinds = <<"r", "i">>
  BY <1>1, <1>3, SMT DEF OperandKinds
<1>5. c \notin Tied /\ c # "CopyVV" /\ c \notin VariantClasses
  BY <1>3, SMT DEF Tied, VariantClasses
<1>6. Class[c][1] = 0 /\ Class[c][2] \in {"RegCondBranch"}
  BY <1>3, SMT DEF Class
<1>7. GroupOf(n) = 0 /\ FormOf(n) \in {"RegCondBranch"}
  BY <1>1, <1>6 DEF GroupOf, FormOf
<1>8. FormFor(n) \in {"RegCondBranch"}
  <2>1. DecodeForm[c] \in {"RegCondBranch"}
    BY <1>3, SMT DEF DecodeForm
  <2> QED
    BY <1>1, <1>2, <1>5, <1>6, <2>1, FormForClass
<1>9. Len(i.ops) = 2
      /\ HoldsKind("r", i.ops, 1)
      /\ HoldsKind("i", i.ops, 2)
  <2>1. Fills(i.ops, source, kinds, 0)
    BY <1>1, <1>2, <1>5 DEF Filled
  <2> QED
    BY <1>4, <2>1 DEF Fills, Place, Size
<1>10. PICK a, tail : a = i.ops[1][2] /\ tail = <<>>
  OBVIOUS
<1>11. i.ops[1] = GPR(a) /\ a \in 0 .. 31
  BY <1>9, <1>10, RegisterKind
<1>12. tail \in Seq(Byte) /\ Len(tail) = 0
  BY <1>10, NoBytes
<1>15. PICK p, g : RegLeft(g, bytes, i, 0, a, FALSE, p, tail, field, r, is64)
  <2>1. RegisterRead(n)
    BY <1>8, RegisterForms
  <2>2. 0 \in 0 .. 31 /\ a \in 0 .. 31
    BY <1>11
  <2>4. s = RegForm(0, OpcodeBytes(i), 0, a, tail)
    BY <1>10 DEF Num
  <2> QED
    BY <1>1, <1>5, <1>12, <2>1, <2>2, <2>4, PlainForm, Zenon
<1>16. /\ g.ok = TRUE /\ g.bytes = bytes /\ g.at = field /\ g.marker = i.marker /\ g.name = n
       /\ g.form = FormFor(n) /\ g.reg = 0 /\ g.rm = a /\ r = ReadOperands(g, is64)
  BY <1>1, <1>12, <1>15 DEF RegLeft, RegReady
<1>18. r = ReadRegCondBranch(g)
  BY <1>8, <1>16 DEF ReadOperands, MemoryForms
<1>19. PICK w, ops, end : w = Imm(Signed32(bytes, field)) /\ ops = <<GPR(a), w>> /\ end = field + 4
  BY Zenon
<1>20. r = Success(g, ops, end)
  BY <1>16, <1>18, <1>19 DEF ReadRegCondBranch
<1>21. Len(ops) = Len(i.ops) /\ \A k \in 1 .. Len(i.ops) : Agrees(i.ops[k], ops[k], is64)
  <2>1. Agrees(i.ops[1], ops[1], is64)
    BY <1>11, <1>19, EqualAgree
  <2>2. Agrees(i.ops[2], ops[2], is64)
    BY <1>19
  <2> QED
    BY <1>9, <1>19, <2>1, <2>2
<1>22. SameAs(r, i, end, is64)
  BY <1>1, <1>16, <1>20, <1>21, SuccessSame, Zenon
<1> QED
  BY <1>19, <1>22

\* An operation on a register and an address-wide number comes back.
LEMMA ReadsRegNumber ==
  ASSUME NEW bytes, NEW i, NEW source, Filled(i, source), NEW is64, NEW s, NEW at, NEW field, NEW r,
         Starts(bytes, i, is64, s, at, field, r),
         s = RegForm(0, OpcodeBytes(i), 0, Num(i, 1), <<>>),
         ClassOf(i.name) \in {"RI64", "CompareRI"},
         Holds(bytes, field, AddressWidth(is64)),
         \A high : Agrees(i.ops[2], ReadAddress(bytes, field, is64, high), is64)
  PROVE SameAs(r, i, field + AddressWidth(is64), is64)
<1>1. PICK n, c, kinds : n = i.name /\ c = ClassOf(i.name) /\ kinds = OperandKinds[c]
  OBVIOUS
<1>2. n \in DOMAIN Records /\ Filled(i, source) /\ bytes \in Seq(Byte)
  BY <1>1 DEF Starts
<1>3. c \in {"RI64", "CompareRI"}
  BY <1>1
<1>4. kinds = <<"r", "i">>
  BY <1>1, <1>3, SMT DEF OperandKinds
<1>5. c \notin Tied /\ c # "CopyVV" /\ c \notin VariantClasses
  BY <1>3, SMT DEF Tied, VariantClasses
<1>6. Class[c][1] = 0 /\ Class[c][2] \in {"RI64", "CompareRI"}
  BY <1>3, SMT DEF Class
<1>7. GroupOf(n) = 0 /\ FormOf(n) \in {"RI64", "CompareRI"}
  BY <1>1, <1>6 DEF GroupOf, FormOf
<1>8. FormFor(n) \in {"RI64", "CompareRI"}
  <2>1. DecodeForm[c] \in {"RI64", "CompareRI"}
    BY <1>3, SMT DEF DecodeForm
  <2> QED
    BY <1>1, <1>2, <1>5, <1>6, <2>1, FormForClass
<1>9. Len(i.ops) = 2
      /\ HoldsKind("r", i.ops, 1)
      /\ HoldsKind("i", i.ops, 2)
  <2>1. Fills(i.ops, source, kinds, 0)
    BY <1>1, <1>2, <1>5 DEF Filled
  <2> QED
    BY <1>4, <2>1 DEF Fills, Place, Size
<1>10. PICK a, tail : a = i.ops[1][2] /\ tail = <<>>
  OBVIOUS
<1>11. i.ops[1] = GPR(a) /\ a \in 0 .. 31
  BY <1>9, <1>10, RegisterKind
<1>12. tail \in Seq(Byte) /\ Len(tail) = 0
  BY <1>10, NoBytes
<1>15. PICK p, g : RegLeft(g, bytes, i, 0, a, FALSE, p, tail, field, r, is64)
  <2>1. RegisterRead(n)
    BY <1>8, RegisterForms
  <2>2. 0 \in 0 .. 31 /\ a \in 0 .. 31
    BY <1>11
  <2>4. s = RegForm(0, OpcodeBytes(i), 0, a, tail)
    BY <1>10 DEF Num
  <2> QED
    BY <1>1, <1>5, <1>12, <2>1, <2>2, <2>4, PlainForm, Zenon
<1>16. /\ g.ok = TRUE /\ g.bytes = bytes /\ g.at = field /\ g.marker = i.marker /\ g.name = n
       /\ g.form = FormFor(n) /\ g.reg = 0 /\ g.rm = a /\ r = ReadOperands(g, is64)
  BY <1>1, <1>12, <1>15 DEF RegLeft, RegReady
<1>18. r = ReadAddressImm(g, is64)
  BY <1>8, <1>16 DEF ReadOperands, MemoryForms
<1>19. PICK high, w, end : /\ high = (IF g.form # "RI64" /\ Signed32(bytes, field) < 0 THEN -1 ELSE 0)
                           /\ w = ReadAddress(bytes, field, is64, high)
                           /\ end = field + AddressWidth(is64)
  OBVIOUS
<1>190. Agrees(i.ops[2], w, is64)
  BY <1>19
<1>191. PICK ops : ops = <<GPR(a), w>>
  BY Zenon
<1>20. r = Success(g, ops, end)
  <2>1. r = Success(g, <<>> \o <<GPR(a), w>>, end)
    BY <1>8, <1>16, <1>18, <1>19, Zenon DEF ReadAddressImm
  <2>2. PICK x : x = GPR(a)
    OBVIOUS
  <2>3. <<>> \o <<x, w>> = <<x, w>>
    BY ShortLists
  <2> QED
    BY <1>191, <2>1, <2>2, <2>3
<1>21. Len(ops) = Len(i.ops) /\ \A k \in 1 .. Len(i.ops) : Agrees(i.ops[k], ops[k], is64)
  <2>1. Agrees(i.ops[1], ops[1], is64)
    BY <1>11, <1>191, EqualAgree
  <2>2. Agrees(i.ops[2], ops[2], is64)
    BY <1>190, <1>191
  <2> QED
    BY <1>9, <1>191, <2>1, <2>2
<1>22. SameAs(r, i, end, is64)
  BY <1>1, <1>16, <1>20, <1>21, SuccessSame
<1> QED
  BY <1>19, <1>22

\* A conversion to an integer comes back.
LEMMA ReadsRounding ==
  ASSUME NEW bytes, NEW i, NEW source, NEW is64, NEW body, NEW at, NEW end, NEW r,
         Emits(bytes, i, source, is64, body, at, end, r),
         ClassOf(i.name) \in {"FPToInt"}
  PROVE SameAs(r, i, end, is64)
<1>1. PICK n, c, kinds : n = i.name /\ c = ClassOf(i.name) /\ kinds = OperandKinds[c]
  OBVIOUS
<1>2. /\ n \in DOMAIN Records /\ Filled(i, source) /\ is64 \in BOOLEAN /\ body = EmitBody(i, is64)
      /\ body.ok /\ bytes \in Seq(Byte) /\ Starts(bytes, i, is64, body.bytes, at, end, r)
  BY <1>1 DEF Emits, Starts
<1>3. c \in {"FPToInt"}
  BY <1>1
<1>4. kinds = <<"r", "v">>
  BY <1>1, <1>3, SMT DEF OperandKinds
<1>5. c \notin Tied /\ c # "CopyVV" /\ c \notin {"CopyRR", "FPXLoad", "FPXStore"}
  BY <1>3, SMT DEF Tied, VariantClasses
<1>6. Class[c][1] = 0 /\ Class[c][2] \in {"FPToInt"}
  BY <1>3, SMT DEF Class
<1>7. GroupOf(n) = 0 /\ FormOf(n) \in {"FPToInt"}
  BY <1>1, <1>6 DEF GroupOf, FormOf
<1>8. FormFor(n) \in {"FPToInt"}
  <2>1. DecodeForm[c] \in {"FPToInt"}
    BY <1>3, SMT DEF DecodeForm
  <2> QED
    BY <1>1, <1>2, <1>5, <1>6, <2>1, FormForClass
<1>9. Len(i.ops) = 2
      /\ HoldsKind("r", i.ops, 1)
      /\ HoldsKind("v", i.ops, 2)
  <2>1. Fills(i.ops, source, kinds, 0)
    BY <1>1, <1>2, <1>5 DEF Filled
  <2> QED
    BY <1>4, <2>1 DEF Fills, Place, Size
<1>10. PICK a, b : a = i.ops[1][2] /\ b = i.ops[2][2]
  BY Zenon
<1>11. /\ i.ops[1] = GPR(a) /\ a \in 0 .. 31 /\ a \in Byte
       /\ i.ops[2] = Vec(b) /\ b \in 0 .. 31 /\ b \in Byte
  BY <1>9, <1>10, RegisterKind, VectorKind
<1>12. PICK lanes, tail, rest : lanes = 8 * LaneOf(n) /\ tail = <<ScalarVectorCtl(i)>> /\ rest = <<>>
  BY Zenon
<1>13. body.bytes = RegForm(64, OpcodeBytes(i), a, b, tail)
  <2>1. body = EmitBase(i, is64)
    BY <1>1, <1>2, <1>7 DEF EmitBody
  <2>2. body = EmitConversion(i)
    BY <1>1, <1>2, <1>3, <1>7, <2>1 DEF EmitBase
  <2> QED
    BY <1>1, <1>2, <1>3, <1>7, <1>10, <1>12, <2>2 DEF EmitConversion, Bytes, EmitIf, Emitted, Rejected, Num
<1>14. tail = <<lanes>> \o rest /\ rest \in Seq(Byte)
  <2>1. tail = <<lanes>> \o <<>>
    BY <1>1, <1>2, <1>12, LaneByte, LaneLists
  <2> QED
    BY <1>12, <2>1, NoBytes
<1>15. PICK p, g : RegLeft(g, bytes, i, a, b, TRUE, p, rest, end, r, is64)
  <2>1. RegisterRead(n)
    BY <1>8, RegisterForms
  <2>2. a \in 0 .. 31 /\ b \in 0 .. 31
    BY <1>11
  <2>3. PICK s : s = body.bytes
    OBVIOUS
  <2>4. Starts(bytes, i, is64, s, at, end, r) /\ s = RegForm(64, OpcodeBytes(i), a, b, <<lanes>> \o rest)
    BY <1>2, <1>13, <1>14, <2>3, Zenon
  <2> QED
    BY <1>1, <1>5, <1>12, <1>14, <2>1, <2>2, <2>4, VectorForm
<1>16. /\ g.ok = TRUE /\ g.bytes = bytes /\ g.at = p /\ g.marker = i.marker /\ g.name = n
       /\ (g.vector <=> TRUE) /\ g.form = FormFor(n) /\ g.reg = a /\ g.rm = b
       /\ p \in Nat /\ Has(bytes, p, rest) /\ end = p + Len(rest) /\ r = ReadOperands(g, is64)
  BY <1>1, <1>15 DEF RegLeft, RegReady
<1>17. end = p
  BY <1>12, <1>16
<1>18. r = ReadConversion(g)
  BY <1>8, <1>16 DEF ReadOperands, MemoryForms
<1>19. PICK ops : ops = <<GPR(a), Vec(b)>>
  BY Zenon
<1>20. r = Success(g, ops, end)
  BY <1>1, <1>3, <1>8, <1>11, <1>12, <1>16, <1>17, <1>18, <1>19 DEF ReadConversion
<1>21. Len(ops) = Len(i.ops) /\ \A k \in 1 .. Len(i.ops) : Agrees(i.ops[k], ops[k], is64)
  BY <1>9, <1>11, <1>19 DEF Agrees
<1> QED
  BY <1>1, <1>16, <1>20, <1>21, SuccessSame, Zenon

\* A fused operation on four vectors comes back.
LEMMA ReadsScalarFused ==
  ASSUME NEW bytes, NEW i, NEW source, NEW is64, NEW body, NEW at, NEW end, NEW r,
         Emits(bytes, i, source, is64, body, at, end, r),
         ClassOf(i.name) \in {"FPXFused"}
  PROVE SameAs(r, i, end, is64)
<1>1. PICK n, c, kinds : n = i.name /\ c = ClassOf(i.name) /\ kinds = OperandKinds[c]
  OBVIOUS
<1>2. /\ n \in DOMAIN Records /\ Filled(i, source) /\ is64 \in BOOLEAN /\ body = EmitBody(i, is64)
      /\ body.ok /\ bytes \in Seq(Byte) /\ Starts(bytes, i, is64, body.bytes, at, end, r)
  BY <1>1 DEF Emits, Starts
<1>3. c \in {"FPXFused"}
  BY <1>1
<1>4. kinds = <<"v", "v", "v", "v">>
  BY <1>1, <1>3, SMT DEF OperandKinds
<1>5. c \notin Tied /\ c # "CopyVV" /\ c \notin {"CopyRR", "FPXLoad", "FPXStore"}
  BY <1>3, SMT DEF Tied, VariantClasses
<1>6. Class[c][1] = 5 /\ Class[c][2] \in {"FPBinary"}
  BY <1>3, SMT DEF Class
<1>7. GroupOf(n) = 5 /\ FormOf(n) \in {"FPBinary"}
  BY <1>1, <1>6 DEF GroupOf, FormOf
<1>8. FormFor(n) \in {"FPXFused"}
  <2>1. FPXDecodeForm[c] \in {"FPXFused"}
    BY <1>3, SMT DEF FPXDecodeForm
  <2>2. FormTable[5] = FPXDecodeForm
    BY DEF FormTable
  <2> QED
    BY <1>1, <1>2, <1>5, <1>6, <2>1, <2>2, FormForClass
<1>9. Len(i.ops) = 4
      /\ HoldsKind("v", i.ops, 1)
      /\ HoldsKind("v", i.ops, 2)
      /\ HoldsKind("v", i.ops, 3)
      /\ HoldsKind("v", i.ops, 4)
  <2>1. Fills(i.ops, source, kinds, 0)
    BY <1>1, <1>2, <1>5 DEF Filled
  <2> QED
    BY <1>4, <2>1 DEF Fills, Place, Size
<1>10. PICK a, b, d, e : a = i.ops[1][2] /\ b = i.ops[2][2] /\ d = i.ops[3][2] /\ e = i.ops[4][2]
  BY Zenon
<1>11. /\ i.ops[1] = Vec(a) /\ a \in 0 .. 31 /\ a \in Byte
       /\ i.ops[2] = Vec(b) /\ b \in 0 .. 31 /\ b \in Byte
       /\ i.ops[3] = Vec(d) /\ d \in 0 .. 31 /\ d \in Byte
       /\ i.ops[4] = Vec(e) /\ e \in 0 .. 31 /\ e \in Byte
  BY <1>9, <1>10, RegisterKind, VectorKind
<1>12. PICK lanes, tail, rest : lanes = 8 * LaneOf(n) /\ tail = <<ScalarVectorCtl(i)>> \o XopBytes(i) /\ rest = <<Xop(d), Xop(e)>>
  BY Zenon
<1>13. body.bytes = RegForm(64, OpcodeBytes(i), a, b, tail)
  <2>1. body = EmitFPX(i)
    BY <1>1, <1>2, <1>7 DEF EmitBody
  <2>2. body = EmitFPXRegister(i)
    BY <1>1, <1>2, <1>3, <1>7, <2>1 DEF EmitFPX
  <2> QED
    BY <1>1, <1>2, <1>3, <1>7, <1>10, <1>12, <2>2 DEF EmitFPXRegister, XopBytes, Bytes, EmitIf, Emitted, Rejected, Num
<1>14. tail = <<lanes>> \o rest /\ rest \in Seq(Byte)
  <2>1. Num(i, 3) = d /\ Num(i, 4) = e
    BY <1>10 DEF Num
  <2>2. tail = <<lanes>> \o <<Xop(d), Xop(e)>>
    BY <2>1, <1>1, <1>2, <1>9, <1>12, LaneByte, XopList, Zenon
  <2>3. Xop(d) \in Byte /\ Xop(e) \in Byte
    BY <1>11, XopRead
  <2> QED
    BY <1>12, <2>2, <2>3, TwoBytes, Zenon
<1>15. PICK p, g : RegLeft(g, bytes, i, a, b, TRUE, p, rest, end, r, is64)
  <2>1. RegisterRead(n)
    BY <1>8, RegisterForms
  <2>2. a \in 0 .. 31 /\ b \in 0 .. 31
    BY <1>11
  <2>3. PICK s : s = body.bytes
    OBVIOUS
  <2>4. Starts(bytes, i, is64, s, at, end, r) /\ s = RegForm(64, OpcodeBytes(i), a, b, <<lanes>> \o rest)
    BY <1>2, <1>13, <1>14, <2>3, Zenon
  <2> QED
    BY <1>1, <1>5, <1>12, <1>14, <2>1, <2>2, <2>4, VectorForm
<1>16. /\ g.ok = TRUE /\ g.bytes = bytes /\ g.at = p /\ g.marker = i.marker /\ g.name = n
       /\ (g.vector <=> TRUE) /\ g.form = FormFor(n) /\ g.reg = a /\ g.rm = b
       /\ p \in Nat /\ Has(bytes, p, rest) /\ end = p + Len(rest) /\ r = ReadOperands(g, is64)
  BY <1>1, <1>15 DEF RegLeft, RegReady
<1>17. /\ Holds(bytes, p, 2) /\ At(bytes, p) = Xop(d) /\ At(bytes, p + 1) = Xop(e) /\ end = p + 2
       /\ IsXop(Xop(d)) /\ Xop(d) % 32 = d /\ IsXop(Xop(e)) /\ Xop(e) % 32 = e
  <2>1. PICK y, z : y = Xop(d) /\ z = Xop(e)
    OBVIOUS
  <2>2. rest = <<y, z>> /\ Has(bytes, p, rest) /\ end = p + Len(rest) /\ p \in Nat /\ bytes \in Seq(Byte)
    BY <1>2, <1>12, <1>16, <2>1
  <2>3. Holds(bytes, p, 2) /\ At(bytes, p) = y /\ At(bytes, p + 1) = z /\ end = p + 2
    BY <2>2, TwoTail
  <2> QED
    BY <1>11, <2>1, <2>3, XopRead
<1>18. r = ReadFPXFused(g)
  BY <1>8, <1>16 DEF ReadOperands, MemoryForms
<1>19. PICK ops : ops = <<Vec(a), Vec(b), Vec(d), Vec(e)>>
  BY Zenon
<1>20. r = Success(g, ops, end)
  BY <1>1, <1>3, <1>8, <1>11, <1>12, <1>16, <1>17, <1>18, <1>19, Zenon DEF ReadFPXFused
<1>21. Len(ops) = Len(i.ops) /\ \A k \in 1 .. Len(i.ops) : Agrees(i.ops[k], ops[k], is64)
  BY <1>9, <1>11, <1>19 DEF Agrees
<1> QED
  BY <1>1, <1>16, <1>20, <1>21, SuccessSame, Zenon

\* A scalar operation on two vectors comes back.
LEMMA ReadsScalarPair ==
  ASSUME NEW bytes, NEW i, NEW source, NEW is64, NEW body, NEW at, NEW end, NEW r,
         Emits(bytes, i, source, is64, body, at, end, r),
         ClassOf(i.name) \in {"FPXUnary"}
  PROVE SameAs(r, i, end, is64)
<1>1. PICK n, c, kinds : n = i.name /\ c = ClassOf(i.name) /\ kinds = OperandKinds[c]
  OBVIOUS
<1>2. /\ n \in DOMAIN Records /\ Filled(i, source) /\ is64 \in BOOLEAN /\ body = EmitBody(i, is64)
      /\ body.ok /\ bytes \in Seq(Byte) /\ Starts(bytes, i, is64, body.bytes, at, end, r)
  BY <1>1 DEF Emits, Starts
<1>3. c \in {"FPXUnary"}
  BY <1>1
<1>4. kinds = <<"v", "v">>
  BY <1>1, <1>3, SMT DEF OperandKinds
<1>5. c \notin Tied /\ c # "CopyVV" /\ c \notin {"CopyRR", "FPXLoad", "FPXStore"}
  BY <1>3, SMT DEF Tied, VariantClasses
<1>6. Class[c][1] = 5 /\ Class[c][2] \in {"CopyVV"}
  BY <1>3, SMT DEF Class
<1>7. GroupOf(n) = 5 /\ FormOf(n) \in {"CopyVV"}
  BY <1>1, <1>6 DEF GroupOf, FormOf
<1>8. FormFor(n) \in {"CopyVV"}
  <2>1. FPXDecodeForm[c] \in {"CopyVV"}
    BY <1>3, SMT DEF FPXDecodeForm
  <2>2. FormTable[5] = FPXDecodeForm
    BY DEF FormTable
  <2> QED
    BY <1>1, <1>2, <1>5, <1>6, <2>1, <2>2, FormForClass
<1>9. Len(i.ops) = 2
      /\ HoldsKind("v", i.ops, 1)
      /\ HoldsKind("v", i.ops, 2)
  <2>1. Fills(i.ops, source, kinds, 0)
    BY <1>1, <1>2, <1>5 DEF Filled
  <2> QED
    BY <1>4, <2>1 DEF Fills, Place, Size
<1>10. PICK a, b : a = i.ops[1][2] /\ b = i.ops[2][2]
  BY Zenon
<1>11. /\ i.ops[1] = Vec(a) /\ a \in 0 .. 31 /\ a \in Byte
       /\ i.ops[2] = Vec(b) /\ b \in 0 .. 31 /\ b \in Byte
  BY <1>9, <1>10, RegisterKind, VectorKind
<1>12. PICK lanes, tail, rest : lanes = 8 * LaneOf(n) /\ tail = <<ScalarVectorCtl(i)>> \o XopBytes(i) /\ rest = <<>>
  BY Zenon
<1>13. body.bytes = RegForm(64, OpcodeBytes(i), a, b, tail)
  <2>1. body = EmitFPX(i)
    BY <1>1, <1>2, <1>7 DEF EmitBody
  <2>2. body = EmitFPXRegister(i)
    BY <1>1, <1>2, <1>3, <1>7, <2>1 DEF EmitFPX
  <2> QED
    BY <1>1, <1>2, <1>3, <1>7, <1>10, <1>12, <2>2 DEF EmitFPXRegister, XopBytes, Bytes, EmitIf, Emitted, Rejected, Num
<1>14. tail = <<lanes>> \o rest /\ rest \in Seq(Byte)
  <2>1. tail = <<lanes>> \o <<>>
    BY <1>1, <1>2, <1>9, <1>12, LaneByte, XopList, LaneLists, Zenon
  <2> QED
    BY <1>12, <2>1, NoBytes, Zenon
<1>15. PICK p, g : RegLeft(g, bytes, i, a, b, TRUE, p, rest, end, r, is64)
  <2>1. RegisterRead(n)
    BY <1>8, RegisterForms
  <2>2. a \in 0 .. 31 /\ b \in 0 .. 31
    BY <1>11
  <2>3. PICK s : s = body.bytes
    OBVIOUS
  <2>4. Starts(bytes, i, is64, s, at, end, r) /\ s = RegForm(64, OpcodeBytes(i), a, b, <<lanes>> \o rest)
    BY <1>2, <1>13, <1>14, <2>3, Zenon
  <2> QED
    BY <1>1, <1>5, <1>12, <1>14, <2>1, <2>2, <2>4, VectorForm
<1>16. /\ g.ok = TRUE /\ g.bytes = bytes /\ g.at = p /\ g.marker = i.marker /\ g.name = n
       /\ (g.vector <=> TRUE) /\ g.form = FormFor(n) /\ g.reg = a /\ g.rm = b
       /\ p \in Nat /\ Has(bytes, p, rest) /\ end = p + Len(rest) /\ r = ReadOperands(g, is64)
  BY <1>1, <1>15 DEF RegLeft, RegReady
<1>17. end = p
  BY <1>12, <1>16
<1>18. r = ReadCopyVV(g)
  BY <1>8, <1>16 DEF ReadOperands, MemoryForms
<1>19. PICK ops : ops = <<Vec(a), Vec(b)>>
  BY Zenon
<1>20. r = Success(g, ops, end)
  BY <1>1, <1>3, <1>8, <1>11, <1>12, <1>16, <1>17, <1>18, <1>19 DEF ReadCopyVV
<1>21. Len(ops) = Len(i.ops) /\ \A k \in 1 .. Len(i.ops) : Agrees(i.ops[k], ops[k], is64)
  BY <1>9, <1>11, <1>19 DEF Agrees
<1> QED
  BY <1>1, <1>16, <1>20, <1>21, SuccessSame, Zenon

\* A scalar operation on three vectors comes back.
LEMMA ReadsScalarTriple ==
  ASSUME NEW bytes, NEW i, NEW source, NEW is64, NEW body, NEW at, NEW end, NEW r,
         Emits(bytes, i, source, is64, body, at, end, r),
         ClassOf(i.name) \in {"FPXBinary"}
  PROVE SameAs(r, i, end, is64)
<1>1. PICK n, c, kinds : n = i.name /\ c = ClassOf(i.name) /\ kinds = OperandKinds[c]
  OBVIOUS
<1>2. /\ n \in DOMAIN Records /\ Filled(i, source) /\ is64 \in BOOLEAN /\ body = EmitBody(i, is64)
      /\ body.ok /\ bytes \in Seq(Byte) /\ Starts(bytes, i, is64, body.bytes, at, end, r)
  BY <1>1 DEF Emits, Starts
<1>3. c \in {"FPXBinary"}
  BY <1>1
<1>4. kinds = <<"v", "v", "v">>
  BY <1>1, <1>3, SMT DEF OperandKinds
<1>5. c \notin Tied /\ c # "CopyVV" /\ c \notin {"CopyRR", "FPXLoad", "FPXStore"}
  BY <1>3, SMT DEF Tied, VariantClasses
<1>6. Class[c][1] = 5 /\ Class[c][2] \in {"FPBinary"}
  BY <1>3, SMT DEF Class
<1>7. GroupOf(n) = 5 /\ FormOf(n) \in {"FPBinary"}
  BY <1>1, <1>6 DEF GroupOf, FormOf
<1>8. FormFor(n) \in {"FPBinary"}
  <2>1. FPXDecodeForm[c] \in {"FPBinary"}
    BY <1>3, SMT DEF FPXDecodeForm
  <2>2. FormTable[5] = FPXDecodeForm
    BY DEF FormTable
  <2> QED
    BY <1>1, <1>2, <1>5, <1>6, <2>1, <2>2, FormForClass
<1>9. Len(i.ops) = 3
      /\ HoldsKind("v", i.ops, 1)
      /\ HoldsKind("v", i.ops, 2)
      /\ HoldsKind("v", i.ops, 3)
  <2>1. Fills(i.ops, source, kinds, 0)
    BY <1>1, <1>2, <1>5 DEF Filled
  <2> QED
    BY <1>4, <2>1 DEF Fills, Place, Size
<1>10. PICK a, b, d : a = i.ops[1][2] /\ b = i.ops[2][2] /\ d = i.ops[3][2]
  BY Zenon
<1>11. /\ i.ops[1] = Vec(a) /\ a \in 0 .. 31 /\ a \in Byte
       /\ i.ops[2] = Vec(b) /\ b \in 0 .. 31 /\ b \in Byte
       /\ i.ops[3] = Vec(d) /\ d \in 0 .. 31 /\ d \in Byte
  BY <1>9, <1>10, RegisterKind, VectorKind
<1>12. PICK lanes, tail, rest : lanes = 8 * LaneOf(n) /\ tail = <<ScalarVectorCtl(i)>> \o XopBytes(i) /\ rest = <<Xop(d)>>
  BY Zenon
<1>13. body.bytes = RegForm(64, OpcodeBytes(i), a, b, tail)
  <2>1. body = EmitFPX(i)
    BY <1>1, <1>2, <1>7 DEF EmitBody
  <2>2. body = EmitFPXRegister(i)
    BY <1>1, <1>2, <1>3, <1>7, <2>1 DEF EmitFPX
  <2> QED
    BY <1>1, <1>2, <1>3, <1>7, <1>10, <1>12, <2>2 DEF EmitFPXRegister, XopBytes, Bytes, EmitIf, Emitted, Rejected, Num
<1>14. tail = <<lanes>> \o rest /\ rest \in Seq(Byte)
  <2>1. Num(i, 3) = d
    BY <1>10 DEF Num
  <2>2. tail = <<lanes>> \o <<Xop(d)>>
    BY <2>1, <1>1, <1>2, <1>9, <1>12, LaneByte, XopList, LaneLists, Zenon
  <2>3. Xop(d) \in Byte
    BY <1>11, XopRead
  <2> QED
    BY <1>12, <2>2, <2>3, SingleByte, Zenon
<1>15. PICK p, g : RegLeft(g, bytes, i, a, b, TRUE, p, rest, end, r, is64)
  <2>1. RegisterRead(n)
    BY <1>8, RegisterForms
  <2>2. a \in 0 .. 31 /\ b \in 0 .. 31
    BY <1>11
  <2>3. PICK s : s = body.bytes
    OBVIOUS
  <2>4. Starts(bytes, i, is64, s, at, end, r) /\ s = RegForm(64, OpcodeBytes(i), a, b, <<lanes>> \o rest)
    BY <1>2, <1>13, <1>14, <2>3, Zenon
  <2> QED
    BY <1>1, <1>5, <1>12, <1>14, <2>1, <2>2, <2>4, VectorForm
<1>16. /\ g.ok = TRUE /\ g.bytes = bytes /\ g.at = p /\ g.marker = i.marker /\ g.name = n
       /\ (g.vector <=> TRUE) /\ g.form = FormFor(n) /\ g.reg = a /\ g.rm = b
       /\ p \in Nat /\ Has(bytes, p, rest) /\ end = p + Len(rest) /\ r = ReadOperands(g, is64)
  BY <1>1, <1>15 DEF RegLeft, RegReady
<1>17. Holds(bytes, p, 1) /\ At(bytes, p) = Xop(d) /\ end = p + 1 /\ IsXop(Xop(d)) /\ Xop(d) % 32 = d
  BY <1>2, <1>11, <1>12, <1>16, ByteTail, XopRead, Zenon
<1>18. r = ReadVectorBinary(g)
  BY <1>8, <1>16 DEF ReadOperands, MemoryForms
<1>19. PICK ops : ops = <<Vec(a), Vec(b), Vec(d)>>
  BY Zenon
<1>20. r = Success(g, ops, end)
  BY <1>1, <1>3, <1>8, <1>11, <1>12, <1>16, <1>17, <1>18, <1>19, Zenon DEF ReadVectorBinary
<1>21. Len(ops) = Len(i.ops) /\ \A k \in 1 .. Len(i.ops) : Agrees(i.ops[k], ops[k], is64)
  BY <1>9, <1>11, <1>19 DEF Agrees
<1> QED
  BY <1>1, <1>16, <1>20, <1>21, SuccessSame, Zenon

\* A read by selector comes back.
LEMMA ReadsSelectorRead ==
  ASSUME NEW bytes, NEW i, NEW source, NEW is64, NEW body, NEW at, NEW end, NEW r,
         Emits(bytes, i, source, is64, body, at, end, r),
         ClassOf(i.name) \in {"SysXReadImm"}
  PROVE SameAs(r, i, end, is64)
<1>1. PICK n, c, kinds : n = i.name /\ c = ClassOf(i.name) /\ kinds = OperandKinds[c]
  OBVIOUS
<1>2. /\ n \in DOMAIN Records /\ Filled(i, source) /\ is64 \in BOOLEAN /\ body = EmitBody(i, is64)
      /\ body.ok /\ bytes \in Seq(Byte) /\ Starts(bytes, i, is64, body.bytes, at, end, r)
  BY <1>1 DEF Emits, Starts
<1>3. c \in {"SysXReadImm"}
  BY <1>1
<1>4. kinds = <<"r", "i">>
  BY <1>1, <1>3, SMT DEF OperandKinds
<1>5. c \notin Tied /\ c # "CopyVV" /\ c \notin VariantClasses
  BY <1>3, SMT DEF Tied, VariantClasses
<1>6. Class[c][1] = 4 /\ Class[c][2] \in {"ControlReg"}
  BY <1>3, SMT DEF Class
<1>7. GroupOf(n) = 4 /\ FormOf(n) \in {"ControlReg"}
  BY <1>1, <1>6 DEF GroupOf, FormOf
<1>8. FormFor(n) \in {"ControlReg"}
  <2>1. SysXDecodeForm[c] \in {"ControlReg"}
    BY <1>3, SMT DEF SysXDecodeForm
  <2>2. FormTable[4] = SysXDecodeForm
    BY DEF FormTable
  <2> QED
    BY <1>1, <1>2, <1>5, <1>6, <2>1, <2>2, FormForClass
<1>9. Len(i.ops) = 2
      /\ HoldsKind("r", i.ops, 1)
      /\ HoldsKind("i", i.ops, 2)
  <2>1. Fills(i.ops, source, kinds, 0)
    BY <1>1, <1>2, <1>5 DEF Filled
  <2> QED
    BY <1>4, <2>1 DEF Fills, Place, Size
<1>10. PICK a, v : a = i.ops[1][2] /\ v = i.ops[2][2]
  BY Zenon
<1>11. /\ i.ops[1] = GPR(a) /\ a \in 0 .. 31 /\ a \in Byte
  BY <1>9, <1>10, RegisterKind, VectorKind
<1>12. PICK tail : tail = LittleEndian(v, 2)
  OBVIOUS
<1>13. body.bytes = RegForm(0, OpcodeBytes(i), 0, a, tail) /\ (UInt(i.ops[2], 16))
  <2>1. body = EmitSysX(i)
    BY <1>1, <1>2, <1>7 DEF EmitBody
  <2>2. body = EmitSelectorRead(i)
    BY <1>1, <1>2, <1>3, <1>7, <2>1, NamedClasses3, NamedClasses4 DEF EmitSysX
  <2>3. PICK ok, s : ok = UInt(i.ops[2], 16) /\ s = RegForm(0, OpcodeBytes(i), 0, Num(i, 1), LittleEndian(Num(i, 2), 2))
    OBVIOUS
  <2>4. body = EmitIf(ok, s)
    BY <1>1, <1>2, <1>3, <2>2, <2>3 DEF EmitSelectorRead, Num
  <2>5. ok
    BY <1>2, <2>4 DEF EmitIf, Rejected
  <2>6. body.bytes = s
    BY <2>4, <2>5 DEF EmitIf, Bytes, Emitted
  <2> QED
    BY <1>10, <1>12, <2>3, <2>5, <2>6 DEF Num
<1>130. i.ops[2] = Imm(v) /\ v \in 0 .. 2 ^ 16 - 1
  BY <1>9, <1>10, <1>13, ShortImmediate, Zenon
<1>14. tail \in Seq(Byte)
  <2>1. v % 256 \in Byte /\ v \div 256 \in Byte /\ LittleEndian(v, 2) = <<v % 256, v \div 256>>
    BY <1>130, ShortString, Zenon
  <2>2. PICK x, y : x = v % 256 /\ y = v \div 256
    OBVIOUS
  <2>3. x \in Byte /\ y \in Byte /\ tail = <<x, y>>
    BY <1>12, <2>1, <2>2
  <2> QED
    BY <2>3, TwoBytes
<1>15. PICK p, g : RegLeft(g, bytes, i, 0, a, FALSE, p, tail, end, r, is64)
  <2>1. RegisterRead(n)
    BY <1>8, RegisterForms
  <2>2. 0 \in 0 .. 31 /\ a \in 0 .. 31
    BY <1>11
  <2>3. PICK s : s = body.bytes
    OBVIOUS
  <2>4. Starts(bytes, i, is64, s, at, end, r) /\ s = RegForm(0, OpcodeBytes(i), 0, a, tail)
    BY <1>2, <1>13, <2>3
  <2> QED
    BY <1>1, <1>5, <1>14, <2>1, <2>2, <2>4, PlainForm, Zenon
<1>16. /\ g.ok = TRUE /\ g.bytes = bytes /\ g.at = p /\ g.marker = i.marker /\ g.name = n
       /\ (g.vector <=> FALSE) /\ g.form = FormFor(n) /\ g.reg = 0 /\ g.rm = a
       /\ p \in Nat /\ Has(bytes, p, tail) /\ end = p + Len(tail) /\ r = ReadOperands(g, is64)
  BY <1>1, <1>15 DEF RegLeft, RegReady
<1>17. Holds(bytes, p, 2) /\ Unsigned16(bytes, p) = v /\ end = p + 2
  <2>1. /\ bytes \in Seq(Byte) /\ p \in Nat /\ tail = LittleEndian(v, 2) /\ Has(bytes, p, tail)
        /\ end = p + Len(tail)
    BY <1>2, <1>12, <1>16
  <2> QED
    BY <1>130, <2>1, ShortRead, Zenon
<1>18. r = ReadControl(g)
  BY <1>8, <1>16 DEF ReadOperands, MemoryForms
<1>19. PICK ops : ops = <<GPR(a), Imm(v)>>
  BY Zenon
<1>20. r = Success(g, ops, end)
  <2>1. (g.name = "WRCR" \/ g.form = "SysXWriteImm") <=> FALSE
    BY <1>1, <1>2, <1>3, <1>8, <1>16, NamedClasses2
  <2>2. PICK w : w = Imm(Unsigned16(bytes, p))
    OBVIOUS
  <2>3. w = Imm(v)
    BY <1>17, <2>2
  <2>4. ReadControl(g) = Success(g, <<GPR(a), w>>, p + 2)
    BY <1>16, <1>17, <2>1, <2>2 DEF ReadControl
  <2> QED
    BY <1>17, <1>18, <1>19, <2>3, <2>4
<1>21. Len(ops) = Len(i.ops) /\ \A k \in 1 .. Len(i.ops) : Agrees(i.ops[k], ops[k], is64)
  <2>1. PICK w : w = Imm(v)
    OBVIOUS
  <2>2. i.ops[2] = w /\ i.ops[1] = GPR(a) /\ ops = <<GPR(a), w>>
    BY <1>11, <1>130, <1>19, <2>1
  <2> QED
    BY <1>9, <2>2 DEF Agrees
<1> QED
  BY <1>1, <1>16, <1>20, <1>21, SuccessSame, Zenon

\* A write by selector comes back.
LEMMA ReadsSelectorWrite ==
  ASSUME NEW bytes, NEW i, NEW source, NEW is64, NEW body, NEW at, NEW end, NEW r,
         Emits(bytes, i, source, is64, body, at, end, r),
         ClassOf(i.name) \in {"SysXWriteImm"}
  PROVE SameAs(r, i, end, is64)
<1>1. PICK n, c, kinds : n = i.name /\ c = ClassOf(i.name) /\ kinds = OperandKinds[c]
  OBVIOUS
<1>2. /\ n \in DOMAIN Records /\ Filled(i, source) /\ is64 \in BOOLEAN /\ body = EmitBody(i, is64)
      /\ body.ok /\ bytes \in Seq(Byte) /\ Starts(bytes, i, is64, body.bytes, at, end, r)
  BY <1>1 DEF Emits, Starts
<1>3. c \in {"SysXWriteImm"}
  BY <1>1
<1>4. kinds = <<"i", "r">>
  BY <1>1, <1>3, SMT DEF OperandKinds
<1>5. c \notin Tied /\ c # "CopyVV" /\ c \notin VariantClasses
  BY <1>3, SMT DEF Tied, VariantClasses
<1>6. Class[c][1] = 4 /\ Class[c][2] \in {"ControlReg"}
  BY <1>3, SMT DEF Class
<1>7. GroupOf(n) = 4 /\ FormOf(n) \in {"ControlReg"}
  BY <1>1, <1>6 DEF GroupOf, FormOf
<1>8. FormFor(n) \in {"SysXWriteImm"}
  <2>1. SysXDecodeForm[c] \in {"SysXWriteImm"}
    BY <1>3, SMT DEF SysXDecodeForm
  <2>2. FormTable[4] = SysXDecodeForm
    BY DEF FormTable
  <2> QED
    BY <1>1, <1>2, <1>5, <1>6, <2>1, <2>2, FormForClass
<1>9. Len(i.ops) = 2
      /\ HoldsKind("i", i.ops, 1)
      /\ HoldsKind("r", i.ops, 2)
  <2>1. Fills(i.ops, source, kinds, 0)
    BY <1>1, <1>2, <1>5 DEF Filled
  <2> QED
    BY <1>4, <2>1 DEF Fills, Place, Size
<1>10. PICK a, v : a = i.ops[2][2] /\ v = i.ops[1][2]
  BY Zenon
<1>11. /\ i.ops[2] = GPR(a) /\ a \in 0 .. 31 /\ a \in Byte
  BY <1>9, <1>10, RegisterKind, VectorKind
<1>12. PICK tail : tail = LittleEndian(v, 2)
  OBVIOUS
<1>13. body.bytes = RegForm(0, OpcodeBytes(i), 0, a, tail) /\ (UInt(i.ops[1], 16))
  <2>1. body = EmitSysX(i)
    BY <1>1, <1>2, <1>7 DEF EmitBody
  <2>2. body = EmitSelectorWrite(i)
    BY <1>1, <1>2, <1>3, <1>7, <2>1, NamedClasses3, NamedClasses4 DEF EmitSysX
  <2>3. PICK ok, s : ok = UInt(i.ops[1], 16) /\ s = RegForm(0, OpcodeBytes(i), 0, Num(i, 2), LittleEndian(Num(i, 1), 2))
    OBVIOUS
  <2>4. body = EmitIf(ok, s)
    BY <1>1, <1>2, <1>3, <2>2, <2>3 DEF EmitSelectorWrite, Num
  <2>5. ok
    BY <1>2, <2>4 DEF EmitIf, Rejected
  <2>6. body.bytes = s
    BY <2>4, <2>5 DEF EmitIf, Bytes, Emitted
  <2> QED
    BY <1>10, <1>12, <2>3, <2>5, <2>6 DEF Num
<1>130. i.ops[1] = Imm(v) /\ v \in 0 .. 2 ^ 16 - 1
  BY <1>9, <1>10, <1>13, ShortImmediate, Zenon
<1>14. tail \in Seq(Byte)
  <2>1. v % 256 \in Byte /\ v \div 256 \in Byte /\ LittleEndian(v, 2) = <<v % 256, v \div 256>>
    BY <1>130, ShortString, Zenon
  <2>2. PICK x, y : x = v % 256 /\ y = v \div 256
    OBVIOUS
  <2>3. x \in Byte /\ y \in Byte /\ tail = <<x, y>>
    BY <1>12, <2>1, <2>2
  <2> QED
    BY <2>3, TwoBytes
<1>15. PICK p, g : RegLeft(g, bytes, i, 0, a, FALSE, p, tail, end, r, is64)
  <2>1. RegisterRead(n)
    BY <1>8, RegisterForms
  <2>2. 0 \in 0 .. 31 /\ a \in 0 .. 31
    BY <1>11
  <2>3. PICK s : s = body.bytes
    OBVIOUS
  <2>4. Starts(bytes, i, is64, s, at, end, r) /\ s = RegForm(0, OpcodeBytes(i), 0, a, tail)
    BY <1>2, <1>13, <2>3
  <2> QED
    BY <1>1, <1>5, <1>14, <2>1, <2>2, <2>4, PlainForm, Zenon
<1>16. /\ g.ok = TRUE /\ g.bytes = bytes /\ g.at = p /\ g.marker = i.marker /\ g.name = n
       /\ (g.vector <=> FALSE) /\ g.form = FormFor(n) /\ g.reg = 0 /\ g.rm = a
       /\ p \in Nat /\ Has(bytes, p, tail) /\ end = p + Len(tail) /\ r = ReadOperands(g, is64)
  BY <1>1, <1>15 DEF RegLeft, RegReady
<1>17. Holds(bytes, p, 2) /\ Unsigned16(bytes, p) = v /\ end = p + 2
  <2>1. /\ bytes \in Seq(Byte) /\ p \in Nat /\ tail = LittleEndian(v, 2) /\ Has(bytes, p, tail)
        /\ end = p + Len(tail)
    BY <1>2, <1>12, <1>16
  <2> QED
    BY <1>130, <2>1, ShortRead, Zenon
<1>18. r = ReadControl(g)
  BY <1>8, <1>16 DEF ReadOperands, MemoryForms
<1>19. PICK ops : ops = <<Imm(v), GPR(a)>>
  BY Zenon
<1>20. r = Success(g, ops, end)
  <2>1. (g.name = "WRCR" \/ g.form = "SysXWriteImm") <=> TRUE
    BY <1>1, <1>2, <1>3, <1>8, <1>16, NamedClasses2
  <2>2. PICK w : w = Imm(Unsigned16(bytes, p))
    OBVIOUS
  <2>3. w = Imm(v)
    BY <1>17, <2>2
  <2>4. ReadControl(g) = Success(g, <<w, GPR(a)>>, p + 2)
    BY <1>16, <1>17, <2>1, <2>2 DEF ReadControl
  <2> QED
    BY <1>17, <1>18, <1>19, <2>3, <2>4
<1>21. Len(ops) = Len(i.ops) /\ \A k \in 1 .. Len(i.ops) : Agrees(i.ops[k], ops[k], is64)
  <2>1. PICK w : w = Imm(v)
    OBVIOUS
  <2>2. i.ops[1] = w /\ i.ops[2] = GPR(a) /\ ops = <<w, GPR(a)>>
    BY <1>11, <1>130, <1>19, <2>1
  <2> QED
    BY <1>9, <2>2 DEF Agrees
<1> QED
  BY <1>1, <1>16, <1>20, <1>21, SuccessSame

\* A signal instruction on two registers and a byte comes back.
LEMMA ReadsSignalByte ==
  ASSUME NEW bytes, NEW i, NEW source, NEW is64, NEW body, NEW at, NEW end, NEW r,
         Emits(bytes, i, source, is64, body, at, end, r),
         ClassOf(i.name) \in {"DSPRegImm"}
  PROVE SameAs(r, i, end, is64)
<1>1. PICK n, c, kinds : n = i.name /\ c = ClassOf(i.name) /\ kinds = OperandKinds[c]
  OBVIOUS
<1>2. /\ n \in DOMAIN Records /\ Filled(i, source) /\ is64 \in BOOLEAN /\ body = EmitBody(i, is64)
      /\ body.ok /\ bytes \in Seq(Byte) /\ Starts(bytes, i, is64, body.bytes, at, end, r)
  BY <1>1 DEF Emits, Starts
<1>3. c \in {"DSPRegImm"}
  BY <1>1
<1>4. kinds = <<"r", "r", "i">>
  BY <1>1, <1>3, SMT DEF OperandKinds
<1>5. c \notin Tied /\ c # "CopyVV" /\ c \notin VariantClasses
  BY <1>3, SMT DEF Tied, VariantClasses
<1>6. Class[c][1] = 3 /\ Class[c][2] \in {"TernaryByte"}
  BY <1>3, SMT DEF Class
<1>7. GroupOf(n) = 3 /\ FormOf(n) \in {"TernaryByte"}
  BY <1>1, <1>6 DEF GroupOf, FormOf
<1>8. FormFor(n) \in {"TernaryByte"}
  <2>1. DSPDecodeForm[c] \in {"TernaryByte"}
    BY <1>3, SMT DEF DSPDecodeForm
  <2>2. FormTable[3] = DSPDecodeForm
    BY DEF FormTable
  <2> QED
    BY <1>1, <1>2, <1>5, <1>6, <2>1, <2>2, FormForClass
<1>9. Len(i.ops) = 3
      /\ HoldsKind("r", i.ops, 1)
      /\ HoldsKind("r", i.ops, 2)
      /\ HoldsKind("i", i.ops, 3)
  <2>1. Fills(i.ops, source, kinds, 0)
    BY <1>1, <1>2, <1>5 DEF Filled
  <2> QED
    BY <1>4, <2>1 DEF Fills, Place, Size
<1>10. PICK a, b, v : a = i.ops[1][2] /\ b = i.ops[2][2] /\ v = i.ops[3][2]
  BY Zenon
<1>11. /\ i.ops[1] = GPR(a) /\ a \in 0 .. 31 /\ a \in Byte
       /\ i.ops[2] = GPR(b) /\ b \in 0 .. 31 /\ b \in Byte
  BY <1>9, <1>10, RegisterKind, VectorKind
<1>12. PICK tail : tail = <<v>>
  BY Zenon
<1>13. body.bytes = RegForm(0, OpcodeBytes(i), a, b, tail) /\ (UInt(i.ops[3], 8))
  <2>1. body = EmitDSP(i)
    BY <1>1, <1>2, <1>7 DEF EmitBody
  <2>2. ~(i.name \in {"DOTP", "SUMDOTP"})
    BY <1>1, <1>2, <1>3, DotNames
  <2>4. body = EmitIf(UInt(i.ops[3], 8),
                      RegForm(0, OpcodeBytes(i), Num(i, 1), Num(i, 2), <<>> \o <<Num(i, 3) % 256>>))
    BY <1>1, <1>7, <2>1, <2>2 DEF EmitDSP, Bit
  <2>5. UInt(i.ops[3], 8)
    BY <1>2, <1>7, <2>4 DEF EmitIf, Rejected, UInt
  <2>6. v \in Byte /\ v % 256 = v
    BY <1>9, <1>10, <2>5, ByteImmediate
  <2>7. <<>> \o <<v>> = tail
    BY <1>12, ShortLists
  <2> QED
    BY <1>10, <2>4, <2>5, <2>6, <2>7 DEF EmitIf, Bytes, Emitted, Rejected, Num
<1>130. i.ops[3] = Imm(v) /\ v \in Byte /\ v % 256 = v
  BY <1>9, <1>10, <1>13, ByteImmediate
<1>14. tail \in Seq(Byte)
  BY <1>12, <1>130, SingleByte
<1>15. PICK p, g : RegLeft(g, bytes, i, a, b, FALSE, p, tail, end, r, is64)
  <2>1. RegisterRead(n)
    BY <1>8, RegisterForms
  <2>2. a \in 0 .. 31 /\ b \in 0 .. 31
    BY <1>11
  <2>3. PICK s : s = body.bytes
    OBVIOUS
  <2>4. Starts(bytes, i, is64, s, at, end, r) /\ s = RegForm(0, OpcodeBytes(i), a, b, tail)
    BY <1>2, <1>13, <2>3
  <2> QED
    BY <1>1, <1>5, <1>14, <2>1, <2>2, <2>4, PlainForm, Zenon
<1>16. /\ g.ok = TRUE /\ g.bytes = bytes /\ g.at = p /\ g.marker = i.marker /\ g.name = n
       /\ (g.vector <=> FALSE) /\ g.form = FormFor(n) /\ g.reg = a /\ g.rm = b
       /\ p \in Nat /\ Has(bytes, p, tail) /\ end = p + Len(tail) /\ r = ReadOperands(g, is64)
  BY <1>1, <1>15 DEF RegLeft, RegReady
<1>17. Holds(bytes, p, 1) /\ At(bytes, p) = v /\ end = p + 1
  BY <1>2, <1>12, <1>16, ByteTail
<1>18. r = ReadTernaryImm(g, is64)
  BY <1>8, <1>16 DEF ReadOperands, MemoryForms
<1>19. PICK ops : ops = <<GPR(a), GPR(b), Imm(v)>>
  BY Zenon
<1>20. r = Success(g, ops, end)
  <2>1. g.name \notin {"VSHL128", "VSHR128"}
    BY <1>1, <1>2, <1>3, <1>16, ReadByName
  <2>2. ReadTernaryImm(g, is64) = Success(g, <<GPR(a), GPR(b)>> \o <<Imm(At(bytes, p))>>, p + 1)
    BY <1>8, <1>16, <1>17, <2>1 DEF ReadTernaryImm
  <2>3. PICK x, y, z : x = GPR(a) /\ y = GPR(b) /\ z = Imm(v)
    OBVIOUS
  <2>4. <<x, y>> \o <<z>> = <<x, y, z>>
    BY ShortLists
  <2> QED
    BY <1>17, <1>18, <1>19, <2>2, <2>3, <2>4, Zenon
<1>21. Len(ops) = Len(i.ops) /\ \A k \in 1 .. Len(i.ops) : Agrees(i.ops[k], ops[k], is64)
  BY <1>9, <1>11, <1>130, <1>19 DEF Agrees
<1> QED
  BY <1>1, <1>16, <1>20, <1>21, SuccessSame, Zenon

\* A signal instruction of two registers comes back.
LEMMA ReadsSignalPair ==
  ASSUME NEW bytes, NEW i, NEW source, NEW is64, NEW body, NEW at, NEW end, NEW r,
         Emits(bytes, i, source, is64, body, at, end, r),
         ClassOf(i.name) \in {"DSPUnary"}
  PROVE SameAs(r, i, end, is64)
<1>1. PICK n, c, kinds : n = i.name /\ c = ClassOf(i.name) /\ kinds = OperandKinds[c]
  OBVIOUS
<1>2. /\ n \in DOMAIN Records /\ Filled(i, source) /\ is64 \in BOOLEAN /\ body = EmitBody(i, is64)
      /\ body.ok /\ bytes \in Seq(Byte) /\ Starts(bytes, i, is64, body.bytes, at, end, r)
  BY <1>1 DEF Emits, Starts
<1>3. c \in {"DSPUnary"}
  BY <1>1
<1>4. kinds = <<"r", "r">>
  BY <1>1, <1>3, SMT DEF OperandKinds
<1>5. c \notin Tied /\ c # "CopyVV" /\ c \notin VariantClasses
  BY <1>3, SMT DEF Tied, VariantClasses
<1>6. Class[c][1] = 3 /\ Class[c][2] \in {"CopyVV"}
  BY <1>3, SMT DEF Class
<1>7. GroupOf(n) = 3 /\ FormOf(n) \in {"CopyVV"}
  BY <1>1, <1>6 DEF GroupOf, FormOf
<1>8. FormFor(n) \in {"CompareRR"}
  <2>1. DSPDecodeForm[c] \in {"CompareRR"}
    BY <1>3, SMT DEF DSPDecodeForm
  <2>2. FormTable[3] = DSPDecodeForm
    BY DEF FormTable
  <2> QED
    BY <1>1, <1>2, <1>5, <1>6, <2>1, <2>2, FormForClass
<1>9. Len(i.ops) = 2
      /\ HoldsKind("r", i.ops, 1)
      /\ HoldsKind("r", i.ops, 2)
  <2>1. Fills(i.ops, source, kinds, 0)
    BY <1>1, <1>2, <1>5 DEF Filled
  <2> QED
    BY <1>4, <2>1 DEF Fills, Place, Size
<1>10. PICK a, b : a = i.ops[1][2] /\ b = i.ops[2][2]
  BY Zenon
<1>11. /\ i.ops[1] = GPR(a) /\ a \in 0 .. 31 /\ a \in Byte
       /\ i.ops[2] = GPR(b) /\ b \in 0 .. 31 /\ b \in Byte
  BY <1>9, <1>10, RegisterKind, VectorKind
<1>12. PICK tail : tail = <<>>
  OBVIOUS
<1>13. body.bytes = RegForm(0, OpcodeBytes(i), a, b, tail)
  <2>1. PICK vec, extras : /\ vec = FALSE
                            /\ extras = ExtraBytes(i, vec)
    BY Zenon
  <2>2. extras = [k \in 1 .. 0 |-> Num(i, k + 2) + 0]
    BY <1>9, <2>1 DEF ExtraBytes
  <2>3. extras = <<>>
    BY <2>2 DEF Num
  <2>4. vec \in BOOLEAN /\ (vec <=> c \in {"DSPDot", "DSPSumDot"}) /\ FormOf(n) # "TernaryByte"
    BY <1>3, <1>7, <2>1, Zenon
  <2>50. GroupOf(i.name) = 3 /\ i.name \in DOMAIN Records /\ FormOf(i.name) # "TernaryByte"
         /\ (vec <=> ClassOf(i.name) \in {"DSPDot", "DSPSumDot"})
    BY <1>1, <1>2, <1>7, <2>4
  <2>5. body.bytes = RegForm(0, OpcodeBytes(i), Num(i, 1), Num(i, 2), <<>> \o extras)
    BY <1>2, <2>1, <2>4, <2>50, SignalBody
  <2>60. TRUE
    BY <1>10, <1>11 DEF Num
  <2>6. extras = tail
    BY <1>12, <2>3, <2>60
  <2>7. <<>> \o extras = tail
    BY <1>12, <2>6, ShortLists
  <2> QED
    BY <1>10, <2>1, <2>5, <2>7 DEF Num
<1>14. tail \in Seq(Byte)
  BY <1>12, NoBytes
<1>15. PICK p, g : RegLeft(g, bytes, i, a, b, FALSE, p, tail, end, r, is64)
  <2>1. RegisterRead(n)
    BY <1>8, RegisterForms
  <2>2. a \in 0 .. 31 /\ b \in 0 .. 31
    BY <1>11
  <2>3. PICK s : s = body.bytes
    OBVIOUS
  <2>4. Starts(bytes, i, is64, s, at, end, r) /\ s = RegForm(0, OpcodeBytes(i), a, b, tail)
    BY <1>2, <1>13, <2>3
  <2> QED
    BY <1>1, <1>5, <1>14, <2>1, <2>2, <2>4, PlainForm, Zenon
<1>16. /\ g.ok = TRUE /\ g.bytes = bytes /\ g.at = p /\ g.marker = i.marker /\ g.name = n
       /\ (g.vector <=> FALSE) /\ g.form = FormFor(n) /\ g.reg = a /\ g.rm = b
       /\ p \in Nat /\ Has(bytes, p, tail) /\ end = p + Len(tail) /\ r = ReadOperands(g, is64)
  BY <1>1, <1>15 DEF RegLeft, RegReady
<1>18. r = ReadRegisterPair(g)
  BY <1>8, <1>16 DEF ReadOperands, MemoryForms
<1>19. PICK ops : ops = <<GPR(a), GPR(b)>>
  BY Zenon
<1>20. r = Success(g, ops, end)
  <2>1. r = Success(g, <<>> \o <<GPR(a), GPR(b)>>, p)
    BY <1>8, <1>16, <1>18 DEF ReadRegisterPair
  <2>2. end = p
    BY <1>12, <1>16
  <2> QED
    BY <1>16, <1>19, <2>1, <2>2, ShortLists
<1>21. Len(ops) = Len(i.ops) /\ \A k \in 1 .. Len(i.ops) : Agrees(i.ops[k], ops[k], is64)
  BY <1>9, <1>11, <1>19 DEF Agrees
<1> QED
  BY <1>1, <1>16, <1>20, <1>21, SuccessSame, Zenon

\* A signal instruction of four registers comes back.
LEMMA ReadsSignalQuadruple ==
  ASSUME NEW bytes, NEW i, NEW source, NEW is64, NEW body, NEW at, NEW end, NEW r,
         Emits(bytes, i, source, is64, body, at, end, r),
         ClassOf(i.name) \in {"DSPQuaternary", "DSPPairOut"}
  PROVE SameAs(r, i, end, is64)
<1>1. PICK n, c, kinds : n = i.name /\ c = ClassOf(i.name) /\ kinds = OperandKinds[c]
  OBVIOUS
<1>2. /\ n \in DOMAIN Records /\ Filled(i, source) /\ is64 \in BOOLEAN /\ body = EmitBody(i, is64)
      /\ body.ok /\ bytes \in Seq(Byte) /\ Starts(bytes, i, is64, body.bytes, at, end, r)
  BY <1>1 DEF Emits, Starts
<1>3. c \in {"DSPQuaternary", "DSPPairOut"}
  BY <1>1
<1>4. kinds = <<"r", "r", "r", "r">>
  BY <1>1, <1>3, SMT DEF OperandKinds
<1>5. c \notin Tied /\ c # "CopyVV" /\ c \notin VariantClasses
  BY <1>3, SMT DEF Tied, VariantClasses
<1>6. Class[c][1] = 3 /\ Class[c][2] \in {"FPBinary"}
  BY <1>3, SMT DEF Class
<1>7. GroupOf(n) = 3 /\ FormOf(n) \in {"FPBinary"}
  BY <1>1, <1>6 DEF GroupOf, FormOf
<1>8. FormFor(n) \in {"DSPQuaternary"}
  <2>1. DSPDecodeForm[c] \in {"DSPQuaternary"}
    BY <1>3, SMT DEF DSPDecodeForm
  <2>2. FormTable[3] = DSPDecodeForm
    BY DEF FormTable
  <2> QED
    BY <1>1, <1>2, <1>5, <1>6, <2>1, <2>2, FormForClass
<1>9. Len(i.ops) = 4
      /\ HoldsKind("r", i.ops, 1)
      /\ HoldsKind("r", i.ops, 2)
      /\ HoldsKind("r", i.ops, 3)
      /\ HoldsKind("r", i.ops, 4)
  <2>1. Fills(i.ops, source, kinds, 0)
    BY <1>1, <1>2, <1>5 DEF Filled
  <2> QED
    BY <1>4, <2>1 DEF Fills, Place, Size
<1>10. PICK a, b, d, e : a = i.ops[1][2] /\ b = i.ops[2][2] /\ d = i.ops[3][2] /\ e = i.ops[4][2]
  BY Zenon
<1>11. /\ i.ops[1] = GPR(a) /\ a \in 0 .. 31 /\ a \in Byte
       /\ i.ops[2] = GPR(b) /\ b \in 0 .. 31 /\ b \in Byte
       /\ i.ops[3] = GPR(d) /\ d \in 0 .. 31 /\ d \in Byte
       /\ i.ops[4] = GPR(e) /\ e \in 0 .. 31 /\ e \in Byte
  BY <1>9, <1>10, RegisterKind, VectorKind
<1>12. PICK tail : tail = <<d, e>>
  BY Zenon
<1>13. body.bytes = RegForm(0, OpcodeBytes(i), a, b, tail)
  <2>1. PICK vec, extras : /\ vec = FALSE
                            /\ extras = ExtraBytes(i, vec)
    BY Zenon
  <2>2. extras = [k \in 1 .. 2 |-> Num(i, k + 2) + 0]
    BY <1>9, <2>1 DEF ExtraBytes
  <2>3. extras = <<Num(i, 3) + 0, Num(i, 4) + 0>>
    BY <2>2 DEF Num
  <2>4. vec \in BOOLEAN /\ (vec <=> c \in {"DSPDot", "DSPSumDot"}) /\ FormOf(n) # "TernaryByte"
    BY <1>3, <1>7, <2>1, Zenon
  <2>50. GroupOf(i.name) = 3 /\ i.name \in DOMAIN Records /\ FormOf(i.name) # "TernaryByte"
         /\ (vec <=> ClassOf(i.name) \in {"DSPDot", "DSPSumDot"})
    BY <1>1, <1>2, <1>7, <2>4
  <2>5. body.bytes = RegForm(0, OpcodeBytes(i), Num(i, 1), Num(i, 2), <<>> \o extras)
    BY <1>2, <2>1, <2>4, <2>50, SignalBody
  <2>60. Num(i, 3) + 0 = d /\ Num(i, 4) + 0 = e
    BY <1>10, <1>11 DEF Num
  <2>6. extras = tail
    BY <1>12, <2>3, <2>60
  <2>7. <<>> \o extras = tail
    BY <1>12, <2>6, ShortLists
  <2> QED
    BY <1>10, <2>1, <2>5, <2>7 DEF Num
<1>14. tail \in Seq(Byte)
  BY <1>11, <1>12, TwoBytes
<1>15. PICK p, g : RegLeft(g, bytes, i, a, b, FALSE, p, tail, end, r, is64)
  <2>1. RegisterRead(n)
    BY <1>8, RegisterForms
  <2>2. a \in 0 .. 31 /\ b \in 0 .. 31
    BY <1>11
  <2>3. PICK s : s = body.bytes
    OBVIOUS
  <2>4. Starts(bytes, i, is64, s, at, end, r) /\ s = RegForm(0, OpcodeBytes(i), a, b, tail)
    BY <1>2, <1>13, <2>3
  <2> QED
    BY <1>1, <1>5, <1>14, <2>1, <2>2, <2>4, PlainForm, Zenon
<1>16. /\ g.ok = TRUE /\ g.bytes = bytes /\ g.at = p /\ g.marker = i.marker /\ g.name = n
       /\ (g.vector <=> FALSE) /\ g.form = FormFor(n) /\ g.reg = a /\ g.rm = b
       /\ p \in Nat /\ Has(bytes, p, tail) /\ end = p + Len(tail) /\ r = ReadOperands(g, is64)
  BY <1>1, <1>15 DEF RegLeft, RegReady
<1>17. Holds(bytes, p, 2) /\ At(bytes, p) = d /\ At(bytes, p + 1) = e /\ end = p + 2
  BY <1>2, <1>12, <1>16, TwoTail
<1>18. r = ReadDSPRegisters(g)
  BY <1>8, <1>16 DEF ReadOperands, MemoryForms
<1>19. PICK ops : ops = <<GPR(a), GPR(b), GPR(d), GPR(e)>>
  BY Zenon
<1>20. r = Success(g, ops, end)
  <2>1. PICK extra : extra = [k \in 1 .. 2 |-> GPR(At(bytes, p + k - 1))]
    BY Zenon
  <2>10. p + 1 - 1 = p /\ p + 2 - 1 = p + 1
    BY <1>16
  <2>11. extra = <<GPR(At(bytes, p + 1 - 1)), GPR(At(bytes, p + 2 - 1))>>
    BY <2>1
  <2>2. extra = <<GPR(d), GPR(e)>>
    BY <1>17, <2>10, <2>11
  <2>12. ~(d > 31) /\ ~(e > 31)
    BY <1>11
  <2>3. \A k \in 1 .. 2 : ~(At(bytes, p + k - 1) > 31)
    <3>1. ASSUME NEW k \in 1 .. 2 PROVE ~(At(bytes, p + k - 1) > 31)
      <4>1. k = 1 \/ k = 2
        OBVIOUS
      <4> QED
        BY <1>17, <2>10, <2>12, <4>1
    <3> QED
      BY <3>1
  <2>4. r = Success(g, <<GPR(a), GPR(b)>> \o extra, end)
    BY <1>8, <1>16, <1>17, <1>18, <2>1, <2>3 DEF ReadDSPRegisters
  <2>5. PICK x, y, u, v : x = GPR(a) /\ y = GPR(b) /\ u = GPR(d) /\ v = GPR(e)
    OBVIOUS
  <2>6. <<x, y>> \o <<u, v>> = <<x, y, u, v>>
    BY ShortLists
  <2> QED
    BY <1>19, <2>2, <2>4, <2>5, <2>6, Zenon
<1>21. Len(ops) = Len(i.ops) /\ \A k \in 1 .. Len(i.ops) : Agrees(i.ops[k], ops[k], is64)
  BY <1>9, <1>11, <1>19 DEF Agrees
<1> QED
  BY <1>1, <1>16, <1>20, <1>21, SuccessSame, Zenon

\* A signal instruction of three registers comes back.
LEMMA ReadsSignalTriple ==
  ASSUME NEW bytes, NEW i, NEW source, NEW is64, NEW body, NEW at, NEW end, NEW r,
         Emits(bytes, i, source, is64, body, at, end, r),
         ClassOf(i.name) \in {"DSPTernary"}
  PROVE SameAs(r, i, end, is64)
<1>1. PICK n, c, kinds : n = i.name /\ c = ClassOf(i.name) /\ kinds = OperandKinds[c]
  OBVIOUS
<1>2. /\ n \in DOMAIN Records /\ Filled(i, source) /\ is64 \in BOOLEAN /\ body = EmitBody(i, is64)
      /\ body.ok /\ bytes \in Seq(Byte) /\ Starts(bytes, i, is64, body.bytes, at, end, r)
  BY <1>1 DEF Emits, Starts
<1>3. c \in {"DSPTernary"}
  BY <1>1
<1>4. kinds = <<"r", "r", "r">>
  BY <1>1, <1>3, SMT DEF OperandKinds
<1>5. c \notin Tied /\ c # "CopyVV" /\ c \notin VariantClasses
  BY <1>3, SMT DEF Tied, VariantClasses
<1>6. Class[c][1] = 3 /\ Class[c][2] \in {"FPBinary"}
  BY <1>3, SMT DEF Class
<1>7. GroupOf(n) = 3 /\ FormOf(n) \in {"FPBinary"}
  BY <1>1, <1>6 DEF GroupOf, FormOf
<1>8. FormFor(n) \in {"DSPTernary"}
  <2>1. DSPDecodeForm[c] \in {"DSPTernary"}
    BY <1>3, SMT DEF DSPDecodeForm
  <2>2. FormTable[3] = DSPDecodeForm
    BY DEF FormTable
  <2> QED
    BY <1>1, <1>2, <1>5, <1>6, <2>1, <2>2, FormForClass
<1>9. Len(i.ops) = 3
      /\ HoldsKind("r", i.ops, 1)
      /\ HoldsKind("r", i.ops, 2)
      /\ HoldsKind("r", i.ops, 3)
  <2>1. Fills(i.ops, source, kinds, 0)
    BY <1>1, <1>2, <1>5 DEF Filled
  <2> QED
    BY <1>4, <2>1 DEF Fills, Place, Size
<1>10. PICK a, b, d : a = i.ops[1][2] /\ b = i.ops[2][2] /\ d = i.ops[3][2]
  BY Zenon
<1>11. /\ i.ops[1] = GPR(a) /\ a \in 0 .. 31 /\ a \in Byte
       /\ i.ops[2] = GPR(b) /\ b \in 0 .. 31 /\ b \in Byte
       /\ i.ops[3] = GPR(d) /\ d \in 0 .. 31 /\ d \in Byte
  BY <1>9, <1>10, RegisterKind, VectorKind
<1>12. PICK tail : tail = <<d>>
  BY Zenon
<1>13. body.bytes = RegForm(0, OpcodeBytes(i), a, b, tail)
  <2>1. PICK vec, extras : /\ vec = FALSE
                            /\ extras = ExtraBytes(i, vec)
    BY Zenon
  <2>2. extras = [k \in 1 .. 1 |-> Num(i, k + 2) + 0]
    BY <1>9, <2>1 DEF ExtraBytes
  <2>3. extras = <<Num(i, 3) + 0>>
    BY <2>2 DEF Num
  <2>4. vec \in BOOLEAN /\ (vec <=> c \in {"DSPDot", "DSPSumDot"}) /\ FormOf(n) # "TernaryByte"
    BY <1>3, <1>7, <2>1, Zenon
  <2>50. GroupOf(i.name) = 3 /\ i.name \in DOMAIN Records /\ FormOf(i.name) # "TernaryByte"
         /\ (vec <=> ClassOf(i.name) \in {"DSPDot", "DSPSumDot"})
    BY <1>1, <1>2, <1>7, <2>4
  <2>5. body.bytes = RegForm(0, OpcodeBytes(i), Num(i, 1), Num(i, 2), <<>> \o extras)
    BY <1>2, <2>1, <2>4, <2>50, SignalBody
  <2>60. Num(i, 3) + 0 = d
    BY <1>10, <1>11 DEF Num
  <2>6. extras = tail
    BY <1>12, <2>3, <2>60
  <2>7. <<>> \o extras = tail
    BY <1>12, <2>6, ShortLists
  <2> QED
    BY <1>10, <2>1, <2>5, <2>7 DEF Num
<1>14. tail \in Seq(Byte)
  BY <1>11, <1>12, SingleByte
<1>15. PICK p, g : RegLeft(g, bytes, i, a, b, FALSE, p, tail, end, r, is64)
  <2>1. RegisterRead(n)
    BY <1>8, RegisterForms
  <2>2. a \in 0 .. 31 /\ b \in 0 .. 31
    BY <1>11
  <2>3. PICK s : s = body.bytes
    OBVIOUS
  <2>4. Starts(bytes, i, is64, s, at, end, r) /\ s = RegForm(0, OpcodeBytes(i), a, b, tail)
    BY <1>2, <1>13, <2>3
  <2> QED
    BY <1>1, <1>5, <1>14, <2>1, <2>2, <2>4, PlainForm, Zenon
<1>16. /\ g.ok = TRUE /\ g.bytes = bytes /\ g.at = p /\ g.marker = i.marker /\ g.name = n
       /\ (g.vector <=> FALSE) /\ g.form = FormFor(n) /\ g.reg = a /\ g.rm = b
       /\ p \in Nat /\ Has(bytes, p, tail) /\ end = p + Len(tail) /\ r = ReadOperands(g, is64)
  BY <1>1, <1>15 DEF RegLeft, RegReady
<1>17. Holds(bytes, p, 1) /\ At(bytes, p) = d /\ end = p + 1
  BY <1>2, <1>12, <1>16, ByteTail
<1>18. r = ReadDSPRegisters(g)
  BY <1>8, <1>16 DEF ReadOperands, MemoryForms
<1>19. PICK ops : ops = <<GPR(a), GPR(b), GPR(d)>>
  BY Zenon
<1>20. r = Success(g, ops, end)
  <2>1. PICK extra : extra = [k \in 1 .. 1 |-> GPR(At(bytes, p + k - 1))]
    BY Zenon
  <2>10. p + 1 - 1 = p /\ p + 2 - 1 = p + 1
    BY <1>16
  <2>11. extra = <<GPR(At(bytes, p + 1 - 1))>>
    BY <2>1
  <2>2. extra = <<GPR(d)>>
    BY <1>17, <2>10, <2>11
  <2>12. ~(d > 31)
    BY <1>11
  <2>3. \A k \in 1 .. 1 : ~(At(bytes, p + k - 1) > 31)
    <3>1. ASSUME NEW k \in 1 .. 1 PROVE ~(At(bytes, p + k - 1) > 31)
      <4>1. k = 1
        OBVIOUS
      <4> QED
        BY <1>17, <2>10, <2>12, <4>1
    <3> QED
      BY <3>1
  <2>4. r = Success(g, <<GPR(a), GPR(b)>> \o extra, end)
    BY <1>8, <1>16, <1>17, <1>18, <2>1, <2>3 DEF ReadDSPRegisters
  <2>5. PICK x, y, u : x = GPR(a) /\ y = GPR(b) /\ u = GPR(d)
    OBVIOUS
  <2>6. <<x, y>> \o <<u>> = <<x, y, u>>
    BY ShortLists
  <2> QED
    BY <1>19, <2>2, <2>4, <2>5, <2>6, Zenon
<1>21. Len(ops) = Len(i.ops) /\ \A k \in 1 .. Len(i.ops) : Agrees(i.ops[k], ops[k], is64)
  BY <1>9, <1>11, <1>19 DEF Agrees
<1> QED
  BY <1>1, <1>16, <1>20, <1>21, SuccessSame, Zenon

\* A sum of products comes back.
LEMMA ReadsSumDot ==
  ASSUME NEW bytes, NEW i, NEW source, NEW is64, NEW body, NEW at, NEW end, NEW r,
         Emits(bytes, i, source, is64, body, at, end, r),
         ClassOf(i.name) \in {"DSPSumDot"}
  PROVE SameAs(r, i, end, is64)
<1>1. PICK n, c, kinds : n = i.name /\ c = ClassOf(i.name) /\ kinds = OperandKinds[c]
  OBVIOUS
<1>2. /\ n \in DOMAIN Records /\ Filled(i, source) /\ is64 \in BOOLEAN /\ body = EmitBody(i, is64)
      /\ body.ok /\ bytes \in Seq(Byte) /\ Starts(bytes, i, is64, body.bytes, at, end, r)
  BY <1>1 DEF Emits, Starts
<1>3. c \in {"DSPSumDot"}
  BY <1>1
<1>4. kinds = <<"r", "v">>
  BY <1>1, <1>3, SMT DEF OperandKinds
<1>5. c \notin Tied /\ c # "CopyVV" /\ c \notin {"CopyRR", "FPXLoad", "FPXStore"}
  BY <1>3, SMT DEF Tied, VariantClasses
<1>6. Class[c][1] = 3 /\ Class[c][2] \in {"CopyVV"}
  BY <1>3, SMT DEF Class
<1>7. GroupOf(n) = 3 /\ FormOf(n) \in {"CopyVV"}
  BY <1>1, <1>6 DEF GroupOf, FormOf
<1>8. FormFor(n) \in {"DSPSumDot"}
  <2>1. DSPDecodeForm[c] \in {"DSPSumDot"}
    BY <1>3, SMT DEF DSPDecodeForm
  <2>2. FormTable[3] = DSPDecodeForm
    BY DEF FormTable
  <2> QED
    BY <1>1, <1>2, <1>5, <1>6, <2>1, <2>2, FormForClass
<1>9. Len(i.ops) = 2
      /\ HoldsKind("r", i.ops, 1)
      /\ HoldsKind("v", i.ops, 2)
  <2>1. Fills(i.ops, source, kinds, 0)
    BY <1>1, <1>2, <1>5 DEF Filled
  <2> QED
    BY <1>4, <2>1 DEF Fills, Place, Size
<1>10. PICK a, b : a = i.ops[1][2] /\ b = i.ops[2][2]
  BY Zenon
<1>11. /\ i.ops[1] = GPR(a) /\ a \in 0 .. 31 /\ a \in Byte
       /\ i.ops[2] = Vec(b) /\ b \in 0 .. 31 /\ b \in Byte
  BY <1>9, <1>10, RegisterKind, VectorKind
<1>12. PICK lanes, tail, rest : lanes = 8 * LaneOf(n) /\ tail = <<24>> \o ExtraBytes(i, TRUE) /\ rest = <<>>
  BY Zenon
<1>13. body.bytes = RegForm(64, OpcodeBytes(i), a, b, tail)
  <2>1. PICK extras : extras = ExtraBytes(i, TRUE)
    BY Zenon
  <2>2. GroupOf(i.name) = 3 /\ FormOf(i.name) # "TernaryByte" /\ i.name \in DOMAIN Records
        /\ ClassOf(i.name) \in {"DSPDot", "DSPSumDot"}
    BY <1>1, <1>2, <1>3, <1>7
  <2>3. body.bytes = RegForm(64, OpcodeBytes(i), Num(i, 1), Num(i, 2), <<24>> \o extras)
    BY <1>2, <2>1, <2>2, DotBody, Zenon
  <2> QED
    BY <1>10, <1>12, <2>1, <2>3 DEF Num
<1>130. lanes = 24
  <2>1. c \notin VariantClasses
    BY <1>3, SMT DEF VariantClasses
  <2> QED
    BY <1>1, <1>2, <1>12, <2>1, OwnLanes
<1>14. tail = <<lanes>> \o rest /\ rest \in Seq(Byte)
  <2>1. ExtraBytes(i, TRUE) = [k \in 1 .. 0 |-> Num(i, k + 2) + 32]
    BY <1>9 DEF ExtraBytes
  <2>2. [k \in 1 .. 0 |-> Num(i, k + 2) + 32] = <<>>
    OBVIOUS
  <2>3. tail = <<lanes>> \o <<>>
    BY <1>12, <1>130, <2>1, <2>2, Zenon
  <2> QED
    BY <1>12, <2>3, NoBytes, Zenon
<1>15. PICK p, g : RegLeft(g, bytes, i, a, b, TRUE, p, rest, end, r, is64)
  <2>1. RegisterRead(n)
    BY <1>8, RegisterForms
  <2>2. a \in 0 .. 31 /\ b \in 0 .. 31
    BY <1>11
  <2>3. PICK s : s = body.bytes
    OBVIOUS
  <2>4. Starts(bytes, i, is64, s, at, end, r) /\ s = RegForm(64, OpcodeBytes(i), a, b, <<lanes>> \o rest)
    BY <1>2, <1>13, <1>14, <2>3, Zenon
  <2> QED
    BY <1>1, <1>5, <1>12, <1>14, <2>1, <2>2, <2>4, VectorForm
<1>16. /\ g.ok = TRUE /\ g.bytes = bytes /\ g.at = p /\ g.marker = i.marker /\ g.name = n
       /\ (g.vector <=> TRUE) /\ g.form = FormFor(n) /\ g.reg = a /\ g.rm = b
       /\ p \in Nat /\ Has(bytes, p, rest) /\ end = p + Len(rest) /\ r = ReadOperands(g, is64)
  BY <1>1, <1>15 DEF RegLeft, RegReady
<1>17. end = p
  BY <1>12, <1>16
<1>18. r = ReadDSPDot(g)
  BY <1>8, <1>16 DEF ReadOperands, MemoryForms
<1>19. PICK ops : ops = <<GPR(a), Vec(b)>>
  BY Zenon
<1>20. r = Success(g, ops, end)
  BY <1>1, <1>3, <1>8, <1>11, <1>12, <1>16, <1>17, <1>18, <1>19 DEF ReadDSPDot
<1>21. Len(ops) = Len(i.ops) /\ \A k \in 1 .. Len(i.ops) : Agrees(i.ops[k], ops[k], is64)
  BY <1>9, <1>11, <1>19 DEF Agrees
<1> QED
  BY <1>1, <1>16, <1>20, <1>21, SuccessSame, Zenon

\* A system instruction of one register comes back.
LEMMA ReadsSystemOne ==
  ASSUME NEW bytes, NEW i, NEW source, NEW is64, NEW body, NEW at, NEW end, NEW r,
         Emits(bytes, i, source, is64, body, at, end, r),
         ClassOf(i.name) \in {"SysXReg", "SysXReadReg"}
  PROVE SameAs(r, i, end, is64)
<1>1. PICK n, c, kinds : n = i.name /\ c = ClassOf(i.name) /\ kinds = OperandKinds[c]
  OBVIOUS
<1>2. /\ n \in DOMAIN Records /\ Filled(i, source) /\ is64 \in BOOLEAN /\ body = EmitBody(i, is64)
      /\ body.ok /\ bytes \in Seq(Byte) /\ Starts(bytes, i, is64, body.bytes, at, end, r)
  BY <1>1 DEF Emits, Starts
<1>3. c \in {"SysXReg", "SysXReadReg"}
  BY <1>1
<1>4. kinds = <<"r">>
  BY <1>1, <1>3, SMT DEF OperandKinds
<1>5. c \notin Tied /\ c # "CopyVV" /\ c \notin VariantClasses
  BY <1>3, SMT DEF Tied, VariantClasses
<1>6. Class[c][1] = 4 /\ Class[c][2] \in {"StackReg", "ReadReg"}
  BY <1>3, SMT DEF Class
<1>7. GroupOf(n) = 4 /\ FormOf(n) \in {"StackReg", "ReadReg"}
  BY <1>1, <1>6 DEF GroupOf, FormOf
<1>8. FormFor(n) \in {"StackReg", "ReadReg"}
  <2>1. SysXDecodeForm[c] \in {"StackReg", "ReadReg"}
    BY <1>3, SMT DEF SysXDecodeForm
  <2>2. FormTable[4] = SysXDecodeForm
    BY DEF FormTable
  <2> QED
    BY <1>1, <1>2, <1>5, <1>6, <2>1, <2>2, FormForClass
<1>9. Len(i.ops) = 1
      /\ HoldsKind("r", i.ops, 1)
  <2>1. Fills(i.ops, source, kinds, 0)
    BY <1>1, <1>2, <1>5 DEF Filled
  <2> QED
    BY <1>4, <2>1 DEF Fills, Place, Size
<1>10. PICK a : a = i.ops[1][2]
  OBVIOUS
<1>11. /\ i.ops[1] = GPR(a) /\ a \in 0 .. 31 /\ a \in Byte
  BY <1>9, <1>10, RegisterKind, VectorKind
<1>12. PICK tail : tail = <<>>
  OBVIOUS
<1>13. body.bytes = RegForm(0, OpcodeBytes(i), 0, a, tail)
  <2>1. body = EmitSysX(i)
    BY <1>1, <1>2, <1>7 DEF EmitBody
  <2>2. body = EmitSysXReg(i)
    BY <1>1, <1>2, <1>3, <1>7, <2>1, NamedClasses3, NamedClasses4 DEF EmitSysX
  <2> QED
    BY <1>1, <1>2, <1>3, <1>7, <1>10, <1>12, <2>2, NamedClasses3, NamedClasses4 DEF EmitSysXReg, Bytes, EmitIf, Emitted, Rejected, Num
<1>14. tail \in Seq(Byte)
  BY <1>12, NoBytes
<1>15. PICK p, g : RegLeft(g, bytes, i, 0, a, FALSE, p, tail, end, r, is64)
  <2>1. RegisterRead(n)
    BY <1>8, RegisterForms
  <2>2. 0 \in 0 .. 31 /\ a \in 0 .. 31
    BY <1>11
  <2>3. PICK s : s = body.bytes
    OBVIOUS
  <2>4. Starts(bytes, i, is64, s, at, end, r) /\ s = RegForm(0, OpcodeBytes(i), 0, a, tail)
    BY <1>2, <1>13, <2>3
  <2> QED
    BY <1>1, <1>5, <1>14, <2>1, <2>2, <2>4, PlainForm, Zenon
<1>16. /\ g.ok = TRUE /\ g.bytes = bytes /\ g.at = p /\ g.marker = i.marker /\ g.name = n
       /\ (g.vector <=> FALSE) /\ g.form = FormFor(n) /\ g.reg = 0 /\ g.rm = a
       /\ p \in Nat /\ Has(bytes, p, tail) /\ end = p + Len(tail) /\ r = ReadOperands(g, is64)
  BY <1>1, <1>15 DEF RegLeft, RegReady
<1>18. r = ReadOneRegister(g)
  BY <1>8, <1>16 DEF ReadOperands, MemoryForms
<1>19. PICK ops : ops = <<GPR(a)>>
  BY Zenon
<1>20. r = Success(g, ops, end)
  BY <1>1, <1>3, <1>8, <1>11, <1>12, <1>16, <1>18, <1>19, <1>2, ReadByName DEF ReadOneRegister
<1>21. Len(ops) = Len(i.ops) /\ \A k \in 1 .. Len(i.ops) : Agrees(i.ops[k], ops[k], is64)
  BY <1>9, <1>11, <1>19 DEF Agrees
<1> QED
  BY <1>1, <1>16, <1>20, <1>21, SuccessSame

\* A system instruction of two registers comes back.
LEMMA ReadsSystemPair ==
  ASSUME NEW bytes, NEW i, NEW source, NEW is64, NEW body, NEW at, NEW end, NEW r,
         Emits(bytes, i, source, is64, body, at, end, r),
         ClassOf(i.name) \in {"SysXQuery", "SysXPair"}
  PROVE SameAs(r, i, end, is64)
<1>1. PICK n, c, kinds : n = i.name /\ c = ClassOf(i.name) /\ kinds = OperandKinds[c]
  OBVIOUS
<1>2. /\ n \in DOMAIN Records /\ Filled(i, source) /\ is64 \in BOOLEAN /\ body = EmitBody(i, is64)
      /\ body.ok /\ bytes \in Seq(Byte) /\ Starts(bytes, i, is64, body.bytes, at, end, r)
  BY <1>1 DEF Emits, Starts
<1>3. c \in {"SysXQuery", "SysXPair"}
  BY <1>1
<1>4. kinds = <<"r", "r">>
  BY <1>1, <1>3, SMT DEF OperandKinds
<1>5. c \notin Tied /\ c # "CopyVV" /\ c \notin VariantClasses
  BY <1>3, SMT DEF Tied, VariantClasses
<1>6. Class[c][1] = 4 /\ Class[c][2] \in {"CompareRR"}
  BY <1>3, SMT DEF Class
<1>7. GroupOf(n) = 4 /\ FormOf(n) \in {"CompareRR"}
  BY <1>1, <1>6 DEF GroupOf, FormOf
<1>8. FormFor(n) \in {"CompareRR"}
  <2>1. SysXDecodeForm[c] \in {"CompareRR"}
    BY <1>3, SMT DEF SysXDecodeForm
  <2>2. FormTable[4] = SysXDecodeForm
    BY DEF FormTable
  <2> QED
    BY <1>1, <1>2, <1>5, <1>6, <2>1, <2>2, FormForClass
<1>9. Len(i.ops) = 2
      /\ HoldsKind("r", i.ops, 1)
      /\ HoldsKind("r", i.ops, 2)
  <2>1. Fills(i.ops, source, kinds, 0)
    BY <1>1, <1>2, <1>5 DEF Filled
  <2> QED
    BY <1>4, <2>1 DEF Fills, Place, Size
<1>10. PICK a, b : a = i.ops[1][2] /\ b = i.ops[2][2]
  BY Zenon
<1>11. /\ i.ops[1] = GPR(a) /\ a \in 0 .. 31 /\ a \in Byte
       /\ i.ops[2] = GPR(b) /\ b \in 0 .. 31 /\ b \in Byte
  BY <1>9, <1>10, RegisterKind, VectorKind
<1>12. PICK tail : tail = <<>>
  OBVIOUS
<1>13. body.bytes = RegForm(0, OpcodeBytes(i), a, b, tail)
  <2>1. body = EmitSysX(i)
    BY <1>1, <1>2, <1>7 DEF EmitBody
  <2>2. body = EmitSysXPair(i)
    BY <1>1, <1>2, <1>3, <1>7, <2>1, NamedClasses3, NamedClasses4 DEF EmitSysX
  <2> QED
    BY <1>1, <1>2, <1>3, <1>7, <1>10, <1>12, <2>2, NamedClasses3, NamedClasses4 DEF EmitSysXPair, Bytes, EmitIf, Emitted, Rejected, Num
<1>14. tail \in Seq(Byte)
  BY <1>12, NoBytes
<1>15. PICK p, g : RegLeft(g, bytes, i, a, b, FALSE, p, tail, end, r, is64)
  <2>1. RegisterRead(n)
    BY <1>8, RegisterForms
  <2>2. a \in 0 .. 31 /\ b \in 0 .. 31
    BY <1>11
  <2>3. PICK s : s = body.bytes
    OBVIOUS
  <2>4. Starts(bytes, i, is64, s, at, end, r) /\ s = RegForm(0, OpcodeBytes(i), a, b, tail)
    BY <1>2, <1>13, <2>3
  <2> QED
    BY <1>1, <1>5, <1>14, <2>1, <2>2, <2>4, PlainForm, Zenon
<1>16. /\ g.ok = TRUE /\ g.bytes = bytes /\ g.at = p /\ g.marker = i.marker /\ g.name = n
       /\ (g.vector <=> FALSE) /\ g.form = FormFor(n) /\ g.reg = a /\ g.rm = b
       /\ p \in Nat /\ Has(bytes, p, tail) /\ end = p + Len(tail) /\ r = ReadOperands(g, is64)
  BY <1>1, <1>15 DEF RegLeft, RegReady
<1>18. r = ReadRegisterPair(g)
  BY <1>8, <1>16 DEF ReadOperands, MemoryForms
<1>19. PICK ops : ops = <<GPR(a), GPR(b)>>
  BY Zenon
<1>20. r = Success(g, ops, end)
  <2>1. r = Success(g, <<>> \o <<GPR(a), GPR(b)>>, p)
    BY <1>8, <1>16, <1>18 DEF ReadRegisterPair
  <2>2. end = p
    BY <1>12, <1>16
  <2> QED
    BY <1>16, <1>19, <2>1, <2>2, ShortLists
<1>21. Len(ops) = Len(i.ops) /\ \A k \in 1 .. Len(i.ops) : Agrees(i.ops[k], ops[k], is64)
  BY <1>9, <1>11, <1>19 DEF Agrees
<1> QED
  BY <1>1, <1>16, <1>20, <1>21, SuccessSame, Zenon

\* A system instruction of three registers comes back.
LEMMA ReadsSystemTriple ==
  ASSUME NEW bytes, NEW i, NEW source, NEW is64, NEW body, NEW at, NEW end, NEW r,
         Emits(bytes, i, source, is64, body, at, end, r),
         ClassOf(i.name) \in {"SysXTernary"}
  PROVE SameAs(r, i, end, is64)
<1>1. PICK n, c, kinds : n = i.name /\ c = ClassOf(i.name) /\ kinds = OperandKinds[c]
  OBVIOUS
<1>2. /\ n \in DOMAIN Records /\ Filled(i, source) /\ is64 \in BOOLEAN /\ body = EmitBody(i, is64)
      /\ body.ok /\ bytes \in Seq(Byte) /\ Starts(bytes, i, is64, body.bytes, at, end, r)
  BY <1>1 DEF Emits, Starts
<1>3. c \in {"SysXTernary"}
  BY <1>1
<1>4. kinds = <<"r", "r", "r">>
  BY <1>1, <1>3, SMT DEF OperandKinds
<1>5. c \notin Tied /\ c # "CopyVV" /\ c \notin VariantClasses
  BY <1>3, SMT DEF Tied, VariantClasses
<1>6. Class[c][1] = 4 /\ Class[c][2] \in {"FPBinary"}
  BY <1>3, SMT DEF Class
<1>7. GroupOf(n) = 4 /\ FormOf(n) \in {"FPBinary"}
  BY <1>1, <1>6 DEF GroupOf, FormOf
<1>8. FormFor(n) \in {"TernaryRR"}
  <2>1. SysXDecodeForm[c] \in {"TernaryRR"}
    BY <1>3, SMT DEF SysXDecodeForm
  <2>2. FormTable[4] = SysXDecodeForm
    BY DEF FormTable
  <2> QED
    BY <1>1, <1>2, <1>5, <1>6, <2>1, <2>2, FormForClass
<1>9. Len(i.ops) = 3
      /\ HoldsKind("r", i.ops, 1)
      /\ HoldsKind("r", i.ops, 2)
      /\ HoldsKind("r", i.ops, 3)
  <2>1. Fills(i.ops, source, kinds, 0)
    BY <1>1, <1>2, <1>5 DEF Filled
  <2> QED
    BY <1>4, <2>1 DEF Fills, Place, Size
<1>10. PICK a, b, d : a = i.ops[1][2] /\ b = i.ops[2][2] /\ d = i.ops[3][2]
  BY Zenon
<1>11. /\ i.ops[1] = GPR(a) /\ a \in 0 .. 31 /\ a \in Byte
       /\ i.ops[2] = GPR(b) /\ b \in 0 .. 31 /\ b \in Byte
       /\ i.ops[3] = GPR(d) /\ d \in 0 .. 31 /\ d \in Byte
  BY <1>9, <1>10, RegisterKind, VectorKind
<1>12. PICK tail : tail = <<d>>
  BY Zenon
<1>13. body.bytes = RegForm(0, OpcodeBytes(i), a, b, tail)
  <2>1. body = EmitSysX(i)
    BY <1>1, <1>2, <1>7 DEF EmitBody
  <2>2. body = EmitSendIPI(i)
    BY <1>1, <1>2, <1>3, <1>7, <2>1, NamedClasses3, NamedClasses4 DEF EmitSysX
  <2> QED
    BY <1>1, <1>2, <1>3, <1>7, <1>10, <1>12, <2>2, NamedClasses3, NamedClasses4 DEF EmitSendIPI, Bytes, EmitIf, Emitted, Rejected, Num
<1>14. tail \in Seq(Byte)
  BY <1>11, <1>12, SingleByte
<1>15. PICK p, g : RegLeft(g, bytes, i, a, b, FALSE, p, tail, end, r, is64)
  <2>1. RegisterRead(n)
    BY <1>8, RegisterForms
  <2>2. a \in 0 .. 31 /\ b \in 0 .. 31
    BY <1>11
  <2>3. PICK s : s = body.bytes
    OBVIOUS
  <2>4. Starts(bytes, i, is64, s, at, end, r) /\ s = RegForm(0, OpcodeBytes(i), a, b, tail)
    BY <1>2, <1>13, <2>3
  <2> QED
    BY <1>1, <1>5, <1>14, <2>1, <2>2, <2>4, PlainForm, Zenon
<1>16. /\ g.ok = TRUE /\ g.bytes = bytes /\ g.at = p /\ g.marker = i.marker /\ g.name = n
       /\ (g.vector <=> FALSE) /\ g.form = FormFor(n) /\ g.reg = a /\ g.rm = b
       /\ p \in Nat /\ Has(bytes, p, tail) /\ end = p + Len(tail) /\ r = ReadOperands(g, is64)
  BY <1>1, <1>15 DEF RegLeft, RegReady
<1>17. Holds(bytes, p, 1) /\ At(bytes, p) = d /\ end = p + 1
  BY <1>2, <1>12, <1>16, ByteTail
<1>18. r = ReadTernaryRR(g)
  BY <1>8, <1>16 DEF ReadOperands, MemoryForms
<1>19. PICK ops : ops = <<GPR(a), GPR(b), GPR(d)>>
  BY Zenon
<1>20. r = Success(g, ops, end)
  BY <1>1, <1>3, <1>8, <1>11, <1>12, <1>16, <1>17, <1>18, <1>19 DEF ReadTernaryRR
<1>21. Len(ops) = Len(i.ops) /\ \A k \in 1 .. Len(i.ops) : Agrees(i.ops[k], ops[k], is64)
  BY <1>9, <1>11, <1>19 DEF Agrees
<1> QED
  BY <1>1, <1>16, <1>20, <1>21, SuccessSame, Zenon

\* An operation of a register with an address-wide number comes back.
LEMMA ReadsTiedNumber ==
  ASSUME NEW bytes, NEW i, NEW source, Filled(i, source), NEW is64, NEW s, NEW at, NEW field, NEW r,
         Starts(bytes, i, is64, s, at, field, r),
         s = RegForm(0, OpcodeBytes(i), 0, Num(i, 1), <<>>),
         ClassOf(i.name) \in {"ALURI"},
         Holds(bytes, field, AddressWidth(is64)),
         \A high : Agrees(i.ops[3], ReadAddress(bytes, field, is64, high), is64)
  PROVE SameAs(r, i, field + AddressWidth(is64), is64)
<1>1. PICK n, c, kinds : n = i.name /\ c = ClassOf(i.name) /\ kinds = OperandKinds[c]
  OBVIOUS
<1>2. n \in DOMAIN Records /\ Filled(i, source) /\ bytes \in Seq(Byte)
  BY <1>1 DEF Starts
<1>3. c \in {"ALURI"}
  BY <1>1
<1>4. kinds = <<"r", "i">>
  BY <1>1, <1>3, SMT DEF OperandKinds
<1>5. c \in Tied /\ c # "CopyVV" /\ c \notin VariantClasses
  BY <1>3, SMT DEF Tied, VariantClasses
<1>6. Class[c][1] = 0 /\ Class[c][2] \in {"ALURI"}
  BY <1>3, SMT DEF Class
<1>7. GroupOf(n) = 0 /\ FormOf(n) \in {"ALURI"}
  BY <1>1, <1>6 DEF GroupOf, FormOf
<1>8. FormFor(n) \in {"ALURI"}
  <2>1. DecodeForm[c] \in {"ALURI"}
    BY <1>3, SMT DEF DecodeForm
  <2> QED
    BY <1>1, <1>2, <1>5, <1>6, <2>1, FormForClass
<1>9. Len(i.ops) = 3 /\ i.ops[1] = i.ops[2]
      /\ HoldsKind("r", i.ops, 2)
      /\ HoldsKind("i", i.ops, 3)
  <2>1. Fills(i.ops, source, kinds, 1)
    BY <1>1, <1>2, <1>5 DEF Filled
  <2> QED
    BY <1>4, <2>1 DEF Fills, Place, Size
<1>10. PICK a, tail : a = i.ops[1][2] /\ tail = <<>>
  OBVIOUS
<1>11. i.ops[1] = GPR(a) /\ a \in 0 .. 31
  <2>1. i.ops[2] = GPR(i.ops[2][2]) /\ i.ops[2][2] \in 0 .. 31
    BY <1>9, RegisterKind, Zenon
  <2> QED
    BY <1>9, <1>10, <2>1
<1>12. tail \in Seq(Byte) /\ Len(tail) = 0
  BY <1>10, NoBytes
<1>15. PICK p, g : RegLeft(g, bytes, i, 0, a, FALSE, p, tail, field, r, is64)
  <2>1. RegisterRead(n)
    BY <1>8, RegisterForms
  <2>2. 0 \in 0 .. 31 /\ a \in 0 .. 31
    BY <1>11
  <2>4. s = RegForm(0, OpcodeBytes(i), 0, a, tail)
    BY <1>10 DEF Num
  <2> QED
    BY <1>1, <1>5, <1>12, <2>1, <2>2, <2>4, PlainForm, Zenon
<1>16. /\ g.ok = TRUE /\ g.bytes = bytes /\ g.at = field /\ g.marker = i.marker /\ g.name = n
       /\ g.form = FormFor(n) /\ g.reg = 0 /\ g.rm = a /\ r = ReadOperands(g, is64)
  BY <1>1, <1>12, <1>15 DEF RegLeft, RegReady
<1>18. r = ReadAddressImm(g, is64)
  BY <1>8, <1>16 DEF ReadOperands, MemoryForms
<1>19. PICK high, w, end : /\ high = (IF g.form # "RI64" /\ Signed32(bytes, field) < 0 THEN -1 ELSE 0)
                           /\ w = ReadAddress(bytes, field, is64, high)
                           /\ end = field + AddressWidth(is64)
  OBVIOUS
<1>190. Agrees(i.ops[3], w, is64)
  BY <1>19
<1>191. PICK ops : ops = <<GPR(a), GPR(a), w>>
  BY Zenon
<1>20. r = Success(g, ops, end)
  <2>1. r = Success(g, <<GPR(a)>> \o <<GPR(a), w>>, end)
    BY <1>8, <1>16, <1>18, <1>19 DEF ReadAddressImm
  <2>2. PICK x : x = GPR(a)
    OBVIOUS
  <2>3. <<x>> \o <<x, w>> = <<x, x, w>>
    BY ShortLists
  <2> QED
    BY <1>191, <2>1, <2>2, <2>3, Zenon
<1>21. Len(ops) = Len(i.ops) /\ \A k \in 1 .. Len(i.ops) : Agrees(i.ops[k], ops[k], is64)
  <2>1. Agrees(i.ops[1], ops[1], is64) /\ Agrees(i.ops[2], ops[2], is64)
    BY <1>9, <1>11, <1>191, EqualAgree
  <2>2. Agrees(i.ops[3], ops[3], is64)
    BY <1>190, <1>191
  <2> QED
    BY <1>9, <1>191, <2>1, <2>2
<1>22. SameAs(r, i, end, is64)
  BY <1>1, <1>16, <1>20, <1>21, SuccessSame
<1> QED
  BY <1>19, <1>22

\* An operation on two registers with the result in the first comes back.
LEMMA ReadsTiedPair ==
  ASSUME NEW bytes, NEW i, NEW source, NEW is64, NEW body, NEW at, NEW end, NEW r,
         Emits(bytes, i, source, is64, body, at, end, r),
         ClassOf(i.name) \in {"ALURR", "CarryALURR"}
  PROVE SameAs(r, i, end, is64)
<1>1. PICK n, c, kinds : n = i.name /\ c = ClassOf(i.name) /\ kinds = OperandKinds[c]
  OBVIOUS
<1>2. /\ n \in DOMAIN Records /\ Filled(i, source) /\ is64 \in BOOLEAN /\ body = EmitBody(i, is64)
      /\ body.ok /\ bytes \in Seq(Byte) /\ Starts(bytes, i, is64, body.bytes, at, end, r)
  BY <1>1 DEF Emits, Starts
<1>3. c \in {"ALURR", "CarryALURR"}
  BY <1>1
<1>4. kinds = <<"r", "r">>
  BY <1>1, <1>3, SMT DEF OperandKinds
<1>5. c \in Tied /\ c # "CopyVV" /\ c \notin VariantClasses
  BY <1>3, SMT DEF Tied, VariantClasses
<1>6. Class[c][1] = 0 /\ Class[c][2] \in {"ALURR"}
  BY <1>3, SMT DEF Class
<1>7. GroupOf(n) = 0 /\ FormOf(n) \in {"ALURR"}
  BY <1>1, <1>6 DEF GroupOf, FormOf
<1>8. FormFor(n) \in {"ALURR"}
  <2>1. DecodeForm[c] \in {"ALURR"}
    BY <1>3, SMT DEF DecodeForm
  <2> QED
    BY <1>1, <1>2, <1>5, <1>6, <2>1, FormForClass
<1>9. Len(i.ops) = 3 /\ i.ops[1] = i.ops[2]
      /\ HoldsKind("r", i.ops, 2)
      /\ HoldsKind("r", i.ops, 3)
  <2>1. Fills(i.ops, source, kinds, 1)
    BY <1>1, <1>2, <1>5 DEF Filled
  <2> QED
    BY <1>4, <2>1 DEF Fills, Place, Size
<1>10. PICK a, b : a = i.ops[2][2] /\ b = i.ops[3][2]
  BY Zenon
<1>11. /\ i.ops[2] = GPR(a) /\ a \in 0 .. 31 /\ a \in Byte
       /\ i.ops[3] = GPR(b) /\ b \in 0 .. 31 /\ b \in Byte
  BY <1>9, <1>10, RegisterKind, VectorKind
<1>12. PICK tail : tail = <<>>
  OBVIOUS
<1>13. body.bytes = RegForm(0, OpcodeBytes(i), a, b, tail)
  <2>1. body = EmitBase(i, is64)
    BY <1>1, <1>2, <1>7 DEF EmitBody
  <2>2. body = EmitRegisterPair(i)
    BY <1>1, <1>2, <1>3, <1>7, <2>1 DEF EmitBase
  <2> QED
    BY <1>1, <1>2, <1>3, <1>7, <1>10, <1>12, <2>2, <1>9 DEF EmitRegisterPair, LastOp, Bytes, EmitIf, Emitted, Rejected, Num
<1>14. tail \in Seq(Byte)
  BY <1>12, NoBytes
<1>15. PICK p, g : RegLeft(g, bytes, i, a, b, FALSE, p, tail, end, r, is64)
  <2>1. RegisterRead(n)
    BY <1>8, RegisterForms
  <2>2. a \in 0 .. 31 /\ b \in 0 .. 31
    BY <1>11
  <2>3. PICK s : s = body.bytes
    OBVIOUS
  <2>4. Starts(bytes, i, is64, s, at, end, r) /\ s = RegForm(0, OpcodeBytes(i), a, b, tail)
    BY <1>2, <1>13, <2>3
  <2> QED
    BY <1>1, <1>5, <1>14, <2>1, <2>2, <2>4, PlainForm, Zenon
<1>16. /\ g.ok = TRUE /\ g.bytes = bytes /\ g.at = p /\ g.marker = i.marker /\ g.name = n
       /\ (g.vector <=> FALSE) /\ g.form = FormFor(n) /\ g.reg = a /\ g.rm = b
       /\ p \in Nat /\ Has(bytes, p, tail) /\ end = p + Len(tail) /\ r = ReadOperands(g, is64)
  BY <1>1, <1>15 DEF RegLeft, RegReady
<1>18. r = ReadRegisterPair(g)
  BY <1>8, <1>16 DEF ReadOperands, MemoryForms
<1>19. PICK ops : ops = <<GPR(a), GPR(a), GPR(b)>>
  BY Zenon
<1>20. r = Success(g, ops, end)
  <2>1. r = Success(g, <<GPR(a)>> \o <<GPR(a), GPR(b)>>, p)
    BY <1>8, <1>16, <1>18 DEF ReadRegisterPair
  <2>2. end = p
    BY <1>12, <1>16
  <2>3. PICK x, y : x = GPR(a) /\ y = GPR(b)
    OBVIOUS
  <2>4. <<x>> \o <<x, y>> = <<x, x, y>>
    BY ShortLists
  <2> QED
    BY <1>16, <1>19, <2>1, <2>2, <2>3, <2>4, Zenon
<1>21. Len(ops) = Len(i.ops) /\ \A k \in 1 .. Len(i.ops) : Agrees(i.ops[k], ops[k], is64)
  BY <1>9, <1>11, <1>19 DEF Agrees
<1> QED
  BY <1>1, <1>16, <1>20, <1>21, SuccessSame, Zenon

\* An instruction of one byte comes back.
LEMMA ReadsTrap ==
  ASSUME NEW bytes, NEW i, NEW source, NEW is64, NEW body, NEW at, NEW end, NEW r,
         Emits(bytes, i, source, is64, body, at, end, r),
         ClassOf(i.name) \in {"TrapImm", "TxnAbortImm", "SysXImm"}
  PROVE SameAs(r, i, end, is64)
<1>1. PICK n, c, kinds : n = i.name /\ c = ClassOf(i.name) /\ kinds = OperandKinds[c]
  OBVIOUS
<1>2. /\ n \in DOMAIN Records /\ Filled(i, source) /\ is64 \in BOOLEAN /\ body = EmitBody(i, is64)
      /\ body.ok /\ bytes \in Seq(Byte) /\ Starts(bytes, i, is64, body.bytes, at, end, r)
  BY <1>1 DEF Emits, Starts
<1>3. c \in {"TrapImm", "TxnAbortImm", "SysXImm"}
  BY <1>1
<1>4. kinds = << "i" >>
  BY <1>1, <1>3, SMT DEF OperandKinds
<1>5. c \notin Tied /\ c # "CopyVV" /\ c \notin VariantClasses
  BY <1>3, SMT DEF Tied, VariantClasses
<1>6. Class[c][1] \in {0, 4} /\ Class[c][2] = "TrapImm"
  BY <1>3, SMT DEF Class
<1>7. GroupOf(n) \in {0, 4} /\ FormOf(n) = "TrapImm"
  BY <1>1, <1>6 DEF GroupOf, FormOf
<1>8. FormFor(n) = "TrapImm"
  <2>1. (IF Class[c][1] = 0 THEN DecodeForm[c] ELSE FormTable[Class[c][1]][c]) = "TrapImm"
    <3>1. CASE c \in {"TrapImm", "TxnAbortImm"}
      <4>1. TRUE
        OBVIOUS
      <4>2. DecodeForm[c] = "TrapImm"
        BY <3>1, SMT DEF DecodeForm
      <4>3. Class[c][1] = 0
        BY <3>1, SMT DEF Class
      <4> QED
        BY <4>1, <4>2, <4>3
    <3>2. CASE c \in {"SysXImm"}
      <4>1. FormTable[4] = SysXDecodeForm
        BY DEF FormTable
      <4>2. SysXDecodeForm[c] = "TrapImm"
        BY <3>2, SMT DEF SysXDecodeForm
      <4>3. Class[c][1] = 4
        BY <3>2, SMT DEF Class
      <4> QED
        BY <4>1, <4>2, <4>3
    <3> QED
      BY <1>3, <3>1, <3>2
  <2> QED
    BY <1>1, <1>2, <1>5, <2>1, FormForClass
<1>9. Len(i.ops) = 1 /\ HoldsKind("i", i.ops, 1)
  <2>1. Fills(i.ops, source, kinds, 0)
    BY <1>1, <1>2, <1>5 DEF Filled
  <2> QED
    BY <1>4, <2>1 DEF Fills, Place, Size
<1>10. PICK s : s = body.bytes
  OBVIOUS
<1>11. UInt(i.ops[1], 8) /\ s = OpcodeBytes(i) \o <<Num(i, 1) % 256>>
  <2>1. body = EmitIf(UInt(i.ops[1], 8), OpcodeBytes(i) \o <<Num(i, 1) % 256>>)
    <3>1. CASE GroupOf(n) = 0
      <4>1. body = EmitBase(i, is64)
        BY <1>1, <1>2, <3>1 DEF EmitBody
      <4> QED
        BY <1>1, <1>7, <4>1 DEF EmitBase, EmitTrapImm
    <3>2. CASE GroupOf(n) = 4
      <4>1. body = EmitSysX(i)
        BY <1>1, <1>2, <3>2 DEF EmitBody
      <4>2. c = "SysXImm"
        <5>1. c \in {"TrapImm", "TxnAbortImm"} => Class[c][1] = 0
          BY SMT DEF Class
        <5> QED
          BY <1>1, <1>3, <3>2, <5>1 DEF GroupOf
      <4> QED
        BY <1>1, <1>2, <1>7, <4>1, <4>2, NamedClasses3, NamedClasses4 DEF EmitSysX, EmitSetMode
    <3> QED
      BY <1>7, <3>1, <3>2
  <2>2. UInt(i.ops[1], 8)
    BY <1>2, <2>1 DEF EmitIf, Rejected
  <2> QED
    BY <1>10, <2>1, <2>2 DEF EmitIf, Bytes, Emitted
<1>110. PICK v : v = i.ops[1][2]
  OBVIOUS
<1>111. i.ops[1] = Imm(v) /\ v \in Byte /\ v % 256 = v
  BY <1>9, <1>11, <1>110, ByteImmediate
<1>12. PICK tail : tail = <<v>>
  BY Zenon
<1>13. tail \in Seq(Byte) /\ s = OpcodeBytes(i) \o tail
  BY <1>11, <1>110, <1>111, <1>12, SingleByte, Zenon DEF Num
<1>14. PICK p, g : ShortLeft(g, bytes, i, p, tail, end, r, is64)
  BY <1>1, <1>2, <1>5, <1>8, <1>10, <1>12, <1>13, ShortBody, Zenon DEF ShortBodys
<1>15. /\ r = ReadTrapImm(g) /\ end = p + Len(tail) /\ g.name = i.name /\ g.marker = i.marker
       /\ g.at = p /\ g.bytes = bytes /\ ~g.extended /\ ~g.vector /\ p \in Nat /\ Has(bytes, p, tail)
  BY <1>1, <1>8, <1>14 DEF ShortLeft, ReadInstruction
<1>16. Holds(bytes, p, 1) /\ At(bytes, p) = v /\ end = p + 1
  BY <1>2, <1>12, <1>15, ByteTail
<1>17. PICK ops : ops = <<Imm(v)>>
  BY Zenon
<1>20. r = Success(g, ops, end)
  BY <1>15, <1>16, <1>17 DEF ReadTrapImm
<1>21. Len(ops) = Len(i.ops) /\ \A k \in 1 .. Len(i.ops) : Agrees(i.ops[k], ops[k], is64)
  BY <1>9, <1>17, <1>111 DEF Agrees
<1>22. g.name = i.name /\ g.marker = i.marker
  BY <1>15
<1> QED
  BY <1>20, <1>21, <1>22, SuccessSame

\* An operation on three registers comes back.
LEMMA ReadsTriple ==
  ASSUME NEW bytes, NEW i, NEW source, NEW is64, NEW body, NEW at, NEW end, NEW r,
         Emits(bytes, i, source, is64, body, at, end, r),
         ClassOf(i.name) \in {"TernaryRR", "StringCopy", "StringFill"}
  PROVE SameAs(r, i, end, is64)
<1>1. PICK n, c, kinds : n = i.name /\ c = ClassOf(i.name) /\ kinds = OperandKinds[c]
  OBVIOUS
<1>2. /\ n \in DOMAIN Records /\ Filled(i, source) /\ is64 \in BOOLEAN /\ body = EmitBody(i, is64)
      /\ body.ok /\ bytes \in Seq(Byte) /\ Starts(bytes, i, is64, body.bytes, at, end, r)
  BY <1>1 DEF Emits, Starts
<1>3. c \in {"TernaryRR", "StringCopy", "StringFill"}
  BY <1>1
<1>4. kinds = <<"r", "r", "r">>
  BY <1>1, <1>3, SMT DEF OperandKinds
<1>5. c \notin Tied /\ c # "CopyVV" /\ c \notin VariantClasses
  BY <1>3, SMT DEF Tied, VariantClasses
<1>6. Class[c][1] = 0 /\ Class[c][2] \in {"FPBinary"}
  BY <1>3, SMT DEF Class
<1>7. GroupOf(n) = 0 /\ FormOf(n) \in {"FPBinary"}
  BY <1>1, <1>6 DEF GroupOf, FormOf
<1>8. FormFor(n) \in {"TernaryRR"}
  <2>1. DecodeForm[c] \in {"TernaryRR"}
    BY <1>3, SMT DEF DecodeForm
  <2> QED
    BY <1>1, <1>2, <1>5, <1>6, <2>1, FormForClass
<1>9. Len(i.ops) = 3
      /\ HoldsKind("r", i.ops, 1)
      /\ HoldsKind("r", i.ops, 2)
      /\ HoldsKind("r", i.ops, 3)
  <2>1. Fills(i.ops, source, kinds, 0)
    BY <1>1, <1>2, <1>5 DEF Filled
  <2> QED
    BY <1>4, <2>1 DEF Fills, Place, Size
<1>10. PICK a, b, d : a = i.ops[1][2] /\ b = i.ops[2][2] /\ d = i.ops[3][2]
  BY Zenon
<1>11. /\ i.ops[1] = GPR(a) /\ a \in 0 .. 31 /\ a \in Byte
       /\ i.ops[2] = GPR(b) /\ b \in 0 .. 31 /\ b \in Byte
       /\ i.ops[3] = GPR(d) /\ d \in 0 .. 31 /\ d \in Byte
  BY <1>9, <1>10, RegisterKind, VectorKind
<1>12. PICK tail : tail = <<d>>
  BY Zenon
<1>13. body.bytes = RegForm(0, OpcodeBytes(i), a, b, tail)
  <2>1. body = EmitBase(i, is64)
    BY <1>1, <1>2, <1>7 DEF EmitBody
  <2>2. body = EmitTernaryRegister(i)
    BY <1>1, <1>2, <1>3, <1>7, <2>1, NamedClasses1 DEF EmitBase
  <2> QED
    BY <1>1, <1>2, <1>3, <1>7, <1>10, <1>12, <2>2, NamedClasses1 DEF EmitTernaryRegister, Bytes, EmitIf, Emitted, Rejected, Num
<1>14. tail \in Seq(Byte)
  BY <1>11, <1>12, SingleByte
<1>15. PICK p, g : RegLeft(g, bytes, i, a, b, FALSE, p, tail, end, r, is64)
  <2>1. RegisterRead(n)
    BY <1>8, RegisterForms
  <2>2. a \in 0 .. 31 /\ b \in 0 .. 31
    BY <1>11
  <2>3. PICK s : s = body.bytes
    OBVIOUS
  <2>4. Starts(bytes, i, is64, s, at, end, r) /\ s = RegForm(0, OpcodeBytes(i), a, b, tail)
    BY <1>2, <1>13, <2>3
  <2> QED
    BY <1>1, <1>5, <1>14, <2>1, <2>2, <2>4, PlainForm, Zenon
<1>16. /\ g.ok = TRUE /\ g.bytes = bytes /\ g.at = p /\ g.marker = i.marker /\ g.name = n
       /\ (g.vector <=> FALSE) /\ g.form = FormFor(n) /\ g.reg = a /\ g.rm = b
       /\ p \in Nat /\ Has(bytes, p, tail) /\ end = p + Len(tail) /\ r = ReadOperands(g, is64)
  BY <1>1, <1>15 DEF RegLeft, RegReady
<1>17. Holds(bytes, p, 1) /\ At(bytes, p) = d /\ end = p + 1
  BY <1>2, <1>12, <1>16, ByteTail
<1>18. r = ReadTernaryRR(g)
  BY <1>8, <1>16 DEF ReadOperands, MemoryForms
<1>19. PICK ops : ops = <<GPR(a), GPR(b), GPR(d)>>
  BY Zenon
<1>20. r = Success(g, ops, end)
  BY <1>1, <1>3, <1>8, <1>11, <1>12, <1>16, <1>17, <1>18, <1>19 DEF ReadTernaryRR
<1>21. Len(ops) = Len(i.ops) /\ \A k \in 1 .. Len(i.ops) : Agrees(i.ops[k], ops[k], is64)
  BY <1>9, <1>11, <1>19 DEF Agrees
<1> QED
  BY <1>1, <1>16, <1>20, <1>21, SuccessSame

\* An operation on two vectors and a byte comes back.
LEMMA ReadsVectorByte ==
  ASSUME NEW bytes, NEW i, NEW source, NEW is64, NEW body, NEW at, NEW end, NEW r,
         Emits(bytes, i, source, is64, body, at, end, r),
         ClassOf(i.name) \in {"AVXRegImm"}
  PROVE SameAs(r, i, end, is64)
<1>1. PICK n, c, kinds : n = i.name /\ c = ClassOf(i.name) /\ kinds = OperandKinds[c]
  OBVIOUS
<1>2. /\ n \in DOMAIN Records /\ Filled(i, source) /\ is64 \in BOOLEAN /\ body = EmitBody(i, is64)
      /\ body.ok /\ bytes \in Seq(Byte) /\ Starts(bytes, i, is64, body.bytes, at, end, r)
  BY <1>1 DEF Emits, Starts
<1>3. c \in {"AVXRegImm"}
  BY <1>1
<1>4. kinds = <<"v", "v", "i">>
  BY <1>1, <1>3, SMT DEF OperandKinds
<1>5. c \notin Tied /\ c # "CopyVV" /\ c \notin {"CopyRR", "FPXLoad", "FPXStore"}
  BY <1>3, SMT DEF Tied, VariantClasses
<1>6. Class[c][1] = 1 /\ Class[c][2] \in {"TernaryByte"}
  BY <1>3, SMT DEF Class
<1>7. GroupOf(n) = 1 /\ FormOf(n) \in {"TernaryByte"}
  BY <1>1, <1>6 DEF GroupOf, FormOf
<1>8. FormFor(n) \in {"AVXRegImm"}
  <2>1. AVXDecodeForm[c] \in {"AVXRegImm"}
    BY <1>3, SMT DEF AVXDecodeForm
  <2>2. FormTable[1] = AVXDecodeForm
    BY DEF FormTable
  <2> QED
    BY <1>1, <1>2, <1>5, <1>6, <2>1, <2>2, FormForClass
<1>9. Len(i.ops) = 3
      /\ HoldsKind("v", i.ops, 1)
      /\ HoldsKind("v", i.ops, 2)
      /\ HoldsKind("i", i.ops, 3)
  <2>1. Fills(i.ops, source, kinds, 0)
    BY <1>1, <1>2, <1>5 DEF Filled
  <2> QED
    BY <1>4, <2>1 DEF Fills, Place, Size
<1>10. PICK a, b, v : a = i.ops[1][2] /\ b = i.ops[2][2] /\ v = i.ops[3][2]
  BY Zenon
<1>11. /\ i.ops[1] = Vec(a) /\ a \in 0 .. 31 /\ a \in Byte
       /\ i.ops[2] = Vec(b) /\ b \in 0 .. 31 /\ b \in Byte
  BY <1>9, <1>10, RegisterKind, VectorKind
<1>12. PICK lanes, tail, rest : lanes = 8 * LaneOf(n) /\ tail = <<24>> \o <<>> \o <<v % 256>> /\ rest = <<v>>
  BY Zenon
<1>13. body.bytes = RegForm(64, OpcodeBytes(i), a, b, tail) /\ (UInt(i.ops[3], 8))
  <2>1. body = EmitAVX(i)
    BY <1>1, <1>2, <1>7 DEF EmitBody
  <2>2. body = EmitAVXRegister(i) /\ FormOf(n) = "TernaryByte"
    BY <1>1, <1>2, <1>3, <1>7, <2>1 DEF EmitAVX
  <2>3. PICK xop, w : xop = <<>> /\ w = LastOp(i)[2] % 256
    OBVIOUS
  <2>4. body = EmitIf(UInt(LastOp(i), 8), RegForm(64, OpcodeBytes(i), Num(i, 1), Num(i, 2), <<24>> \o xop \o <<w>>))
    BY <1>1, <2>2, <2>3 DEF EmitAVXRegister
  <2>5. UInt(LastOp(i), 8)
    BY <1>2, <2>4 DEF EmitIf, Rejected
  <2>6. LastOp(i) = i.ops[Len(i.ops)]
    BY DEF LastOp
  <2> QED
    BY <1>9, <1>10, <1>12, <2>3, <2>4, <2>5, <2>6 DEF EmitIf, Bytes, Emitted, Num
<1>131. i.ops[3] = Imm(v) /\ v \in Byte /\ v % 256 = v
  BY <1>9, <1>10, <1>13, ByteImmediate
<1>130. lanes = 24
  <2>1. c \notin VariantClasses
    BY <1>3, SMT DEF VariantClasses
  <2> QED
    BY <1>1, <1>2, <1>12, <2>1, OwnLanes
<1>14. tail = <<lanes>> \o rest /\ rest \in Seq(Byte)
  <2>1. tail = <<lanes>> \o <<v>>
    BY <1>12, <1>130, <1>131, LaneLists
  <2> QED
    BY <1>12, <1>131, <2>1, SingleByte
<1>15. PICK p, g : RegLeft(g, bytes, i, a, b, TRUE, p, rest, end, r, is64)
  <2>1. RegisterRead(n)
    BY <1>8, RegisterForms
  <2>2. a \in 0 .. 31 /\ b \in 0 .. 31
    BY <1>11
  <2>3. PICK s : s = body.bytes
    OBVIOUS
  <2>4. Starts(bytes, i, is64, s, at, end, r) /\ s = RegForm(64, OpcodeBytes(i), a, b, <<lanes>> \o rest)
    BY <1>2, <1>13, <1>14, <2>3, Zenon
  <2> QED
    BY <1>1, <1>5, <1>12, <1>14, <2>1, <2>2, <2>4, VectorForm
<1>16. /\ g.ok = TRUE /\ g.bytes = bytes /\ g.at = p /\ g.marker = i.marker /\ g.name = n
       /\ (g.vector <=> TRUE) /\ g.form = FormFor(n) /\ g.reg = a /\ g.rm = b
       /\ p \in Nat /\ Has(bytes, p, rest) /\ end = p + Len(rest) /\ r = ReadOperands(g, is64)
  BY <1>1, <1>15 DEF RegLeft, RegReady
<1>17. Holds(bytes, p, 1) /\ At(bytes, p) = v /\ end = p + 1
  BY <1>2, <1>12, <1>16, ByteTail
<1>18. r = ReadAVXRegImm(g)
  BY <1>8, <1>16 DEF ReadOperands, MemoryForms
<1>19. PICK ops : ops = <<Vec(a), Vec(b), Imm(v)>>
  BY Zenon
<1>20. r = Success(g, ops, end)
  BY <1>1, <1>3, <1>8, <1>11, <1>12, <1>13, <1>16, <1>17, <1>18, <1>19 DEF ReadAVXRegImm
<1>21. Len(ops) = Len(i.ops) /\ \A k \in 1 .. Len(i.ops) : Agrees(i.ops[k], ops[k], is64)
  BY <1>9, <1>11, <1>131, <1>19 DEF Agrees
<1> QED
  BY <1>1, <1>16, <1>20, <1>21, SuccessSame, Zenon

\* A wide operation on three vectors comes back.
LEMMA ReadsVectorFused ==
  ASSUME NEW bytes, NEW i, NEW source, NEW is64, NEW body, NEW at, NEW end, NEW r,
         Emits(bytes, i, source, is64, body, at, end, r),
         ClassOf(i.name) \in {"AVXBinary"}
  PROVE SameAs(r, i, end, is64)
<1>1. PICK n, c, kinds : n = i.name /\ c = ClassOf(i.name) /\ kinds = OperandKinds[c]
  OBVIOUS
<1>2. /\ n \in DOMAIN Records /\ Filled(i, source) /\ is64 \in BOOLEAN /\ body = EmitBody(i, is64)
      /\ body.ok /\ bytes \in Seq(Byte) /\ Starts(bytes, i, is64, body.bytes, at, end, r)
  BY <1>1 DEF Emits, Starts
<1>3. c \in {"AVXBinary"}
  BY <1>1
<1>4. kinds = <<"v", "v", "v">>
  BY <1>1, <1>3, SMT DEF OperandKinds
<1>5. c \notin Tied /\ c # "CopyVV" /\ c \notin {"CopyRR", "FPXLoad", "FPXStore"}
  BY <1>3, SMT DEF Tied, VariantClasses
<1>6. Class[c][1] = 1 /\ Class[c][2] \in {"VBinary"}
  BY <1>3, SMT DEF Class
<1>7. GroupOf(n) = 1 /\ FormOf(n) \in {"VBinary"}
  BY <1>1, <1>6 DEF GroupOf, FormOf
<1>8. FormFor(n) \in {"VBinary"}
  <2>1. AVXDecodeForm[c] \in {"VBinary"}
    BY <1>3, SMT DEF AVXDecodeForm
  <2>2. FormTable[1] = AVXDecodeForm
    BY DEF FormTable
  <2> QED
    BY <1>1, <1>2, <1>5, <1>6, <2>1, <2>2, FormForClass
<1>9. Len(i.ops) = 3
      /\ HoldsKind("v", i.ops, 1)
      /\ HoldsKind("v", i.ops, 2)
      /\ HoldsKind("v", i.ops, 3)
  <2>1. Fills(i.ops, source, kinds, 0)
    BY <1>1, <1>2, <1>5 DEF Filled
  <2> QED
    BY <1>4, <2>1 DEF Fills, Place, Size
<1>10. PICK a, b, d : a = i.ops[1][2] /\ b = i.ops[2][2] /\ d = i.ops[3][2]
  BY Zenon
<1>11. /\ i.ops[1] = Vec(a) /\ a \in 0 .. 31 /\ a \in Byte
       /\ i.ops[2] = Vec(b) /\ b \in 0 .. 31 /\ b \in Byte
       /\ i.ops[3] = Vec(d) /\ d \in 0 .. 31 /\ d \in Byte
  BY <1>9, <1>10, RegisterKind, VectorKind
<1>12. PICK lanes, tail, rest : lanes = 8 * LaneOf(n) /\ tail = <<24>> \o <<Xop(Num(i, 3))>> \o <<>> /\ rest = <<Xop(d)>>
  BY Zenon
<1>13. body.bytes = RegForm(64, OpcodeBytes(i), a, b, tail)
  <2>1. body = EmitAVX(i)
    BY <1>1, <1>2, <1>7 DEF EmitBody
  <2>2. body = EmitAVXRegister(i)
    BY <1>1, <1>2, <1>3, <1>7, <2>1 DEF EmitAVX
  <2> QED
    BY <1>1, <1>2, <1>3, <1>7, <1>10, <1>12, <2>2 DEF EmitAVXRegister, Bytes, EmitIf, Emitted, Rejected, Num
<1>130. lanes = 24
  <2>1. c \notin VariantClasses
    BY <1>3, SMT DEF VariantClasses
  <2> QED
    BY <1>1, <1>2, <1>12, <2>1, OwnLanes
<1>14. tail = <<lanes>> \o rest /\ rest \in Seq(Byte)
  <2>1. Num(i, 3) = d
    BY <1>10 DEF Num
  <2>2. tail = <<lanes>> \o <<Xop(d)>>
    BY <2>1, <1>12, <1>130, LaneLists
  <2>3. Xop(d) \in Byte
    BY <1>11, XopRead
  <2> QED
    BY <1>12, <2>2, <2>3, SingleByte
<1>15. PICK p, g : RegLeft(g, bytes, i, a, b, TRUE, p, rest, end, r, is64)
  <2>1. RegisterRead(n)
    BY <1>8, RegisterForms
  <2>2. a \in 0 .. 31 /\ b \in 0 .. 31
    BY <1>11
  <2>3. PICK s : s = body.bytes
    OBVIOUS
  <2>4. Starts(bytes, i, is64, s, at, end, r) /\ s = RegForm(64, OpcodeBytes(i), a, b, <<lanes>> \o rest)
    BY <1>2, <1>13, <1>14, <2>3, Zenon
  <2> QED
    BY <1>1, <1>5, <1>12, <1>14, <2>1, <2>2, <2>4, VectorForm
<1>16. /\ g.ok = TRUE /\ g.bytes = bytes /\ g.at = p /\ g.marker = i.marker /\ g.name = n
       /\ (g.vector <=> TRUE) /\ g.form = FormFor(n) /\ g.reg = a /\ g.rm = b
       /\ p \in Nat /\ Has(bytes, p, rest) /\ end = p + Len(rest) /\ r = ReadOperands(g, is64)
  BY <1>1, <1>15 DEF RegLeft, RegReady
<1>17. Holds(bytes, p, 1) /\ At(bytes, p) = Xop(d) /\ end = p + 1 /\ IsXop(Xop(d)) /\ Xop(d) % 32 = d
  BY <1>2, <1>11, <1>12, <1>16, ByteTail, XopRead, Zenon
<1>18. r = ReadVectorBinary(g)
  BY <1>8, <1>16 DEF ReadOperands, MemoryForms
<1>19. PICK ops : ops = <<Vec(a), Vec(b), Vec(d)>>
  BY Zenon
<1>20. r = Success(g, ops, end)
  BY <1>1, <1>3, <1>8, <1>11, <1>12, <1>16, <1>17, <1>18, <1>19 DEF ReadVectorBinary
<1>21. Len(ops) = Len(i.ops) /\ \A k \in 1 .. Len(i.ops) : Agrees(i.ops[k], ops[k], is64)
  BY <1>9, <1>11, <1>19 DEF Agrees
<1> QED
  BY <1>1, <1>16, <1>20, <1>21, SuccessSame, Zenon

\* An operation on two vectors comes back.
LEMMA ReadsVectorPair ==
  ASSUME NEW bytes, NEW i, NEW source, NEW is64, NEW body, NEW at, NEW end, NEW r,
         Emits(bytes, i, source, is64, body, at, end, r),
         ClassOf(i.name) \in {"CopyVV", "FPUnary", "FPCompare", "VUnary"}
  PROVE SameAs(r, i, end, is64)
<1>1. PICK n, c, kinds : n = i.name /\ c = ClassOf(i.name) /\ kinds = OperandKinds[c]
  OBVIOUS
<1>2. /\ n \in DOMAIN Records /\ Filled(i, source) /\ is64 \in BOOLEAN /\ body = EmitBody(i, is64)
      /\ body.ok /\ bytes \in Seq(Byte) /\ Starts(bytes, i, is64, body.bytes, at, end, r)
  BY <1>1 DEF Emits, Starts
<1>3. c \in {"CopyVV", "FPUnary", "FPCompare", "VUnary"}
  BY <1>1
<1>4. kinds = <<"v", "v">>
  BY <1>1, <1>3, SMT DEF OperandKinds
<1>5. c \notin Tied /\ c \notin {"CopyRR", "FPXLoad", "FPXStore"}
  BY <1>3, SMT DEF Tied, VariantClasses
<1>6. Class[c][1] = 0 /\ Class[c][2] \in {"CopyVV"}
  BY <1>3, SMT DEF Class
<1>7. GroupOf(n) = 0 /\ FormOf(n) \in {"CopyVV"}
  BY <1>1, <1>6 DEF GroupOf, FormOf
<1>8. FormFor(n) = "CopyVV"
  <2>1. CASE c = "CopyVV"
    BY <1>1, <1>2, <2>1, NamedRecords, Zenon DEF FormFor
  <2>2. CASE c # "CopyVV"
    <3>1. DecodeForm[c] = "CopyVV"
      BY <1>3, <2>2, SMT DEF DecodeForm
    <3> QED
      BY <1>1, <1>2, <1>6, <2>2, <3>1, FormForClass
  <2> QED
    BY <2>1, <2>2
<1>9. Len(i.ops) = 2
      /\ HoldsKind("v", i.ops, 1)
      /\ HoldsKind("v", i.ops, 2)
  <2>1. Fills(i.ops, source, kinds, 0)
    BY <1>1, <1>2, <1>5 DEF Filled
  <2> QED
    BY <1>4, <2>1 DEF Fills, Place, Size
<1>10. PICK a, b : a = i.ops[1][2] /\ b = i.ops[2][2]
  BY Zenon
<1>11. /\ i.ops[1] = Vec(a) /\ a \in 0 .. 31 /\ a \in Byte
       /\ i.ops[2] = Vec(b) /\ b \in 0 .. 31 /\ b \in Byte
  BY <1>9, <1>10, RegisterKind, VectorKind
<1>12. PICK lanes, tail, rest : lanes = 8 * LaneOf(n) /\ tail = <<ScalarVectorCtl(i)>> /\ rest = <<>>
  BY Zenon
<1>13. body.bytes = RegForm(64, OpcodeBytes(i), a, b, tail)
  <2>1. body = EmitBase(i, is64)
    BY <1>1, <1>2, <1>7 DEF EmitBody
  <2>2. body = EmitVectorUnary(i)
    BY <1>1, <1>2, <1>3, <1>7, <2>1 DEF EmitBase
  <2> QED
    BY <1>1, <1>2, <1>3, <1>7, <1>10, <1>12, <2>2 DEF EmitVectorUnary, Bytes, EmitIf, Emitted, Rejected, Num
<1>14. tail = <<lanes>> \o rest /\ rest \in Seq(Byte)
  <2>1. tail = <<lanes>> \o <<>>
    BY <1>1, <1>2, <1>12, LaneByte, LaneLists
  <2> QED
    BY <1>12, <2>1, NoBytes
<1>15. PICK p, g : RegLeft(g, bytes, i, a, b, TRUE, p, rest, end, r, is64)
  <2>1. RegisterRead(n)
    BY <1>8, RegisterForms
  <2>2. a \in 0 .. 31 /\ b \in 0 .. 31
    BY <1>11
  <2>3. PICK s : s = body.bytes
    OBVIOUS
  <2>4. Starts(bytes, i, is64, s, at, end, r) /\ s = RegForm(64, OpcodeBytes(i), a, b, <<lanes>> \o rest)
    BY <1>2, <1>13, <1>14, <2>3, Zenon
  <2> QED
    BY <1>1, <1>5, <1>12, <1>14, <2>1, <2>2, <2>4, VectorForm
<1>16. /\ g.ok = TRUE /\ g.bytes = bytes /\ g.at = p /\ g.marker = i.marker /\ g.name = n
       /\ (g.vector <=> TRUE) /\ g.form = FormFor(n) /\ g.reg = a /\ g.rm = b
       /\ p \in Nat /\ Has(bytes, p, rest) /\ end = p + Len(rest) /\ r = ReadOperands(g, is64)
  BY <1>1, <1>15 DEF RegLeft, RegReady
<1>17. end = p
  BY <1>12, <1>16
<1>18. r = ReadCopyVV(g)
  BY <1>8, <1>16 DEF ReadOperands, MemoryForms
<1>19. PICK ops : ops = <<Vec(a), Vec(b)>>
  BY Zenon
<1>20. r = Success(g, ops, end)
  BY <1>1, <1>3, <1>8, <1>11, <1>12, <1>16, <1>17, <1>18, <1>19 DEF ReadCopyVV
<1>21. Len(ops) = Len(i.ops) /\ \A k \in 1 .. Len(i.ops) : Agrees(i.ops[k], ops[k], is64)
  BY <1>9, <1>11, <1>19 DEF Agrees
<1> QED
  BY <1>1, <1>16, <1>20, <1>21, SuccessSame, Zenon

\* A shift of a vector by a byte comes back.
LEMMA ReadsVectorShift ==
  ASSUME NEW bytes, NEW i, NEW source, NEW is64, NEW body, NEW at, NEW end, NEW r,
         Emits(bytes, i, source, is64, body, at, end, r),
         ClassOf(i.name) \in {"VShiftImm"}
  PROVE SameAs(r, i, end, is64)
<1>1. PICK n, c, kinds : n = i.name /\ c = ClassOf(i.name) /\ kinds = OperandKinds[c]
  OBVIOUS
<1>2. /\ n \in DOMAIN Records /\ Filled(i, source) /\ is64 \in BOOLEAN /\ body = EmitBody(i, is64)
      /\ body.ok /\ bytes \in Seq(Byte) /\ Starts(bytes, i, is64, body.bytes, at, end, r)
  BY <1>1 DEF Emits, Starts
<1>3. c \in {"VShiftImm"}
  BY <1>1
<1>4. kinds = <<"v", "v", "i">>
  BY <1>1, <1>3, SMT DEF OperandKinds
<1>5. c \notin Tied /\ c # "CopyVV" /\ c \notin {"CopyRR", "FPXLoad", "FPXStore"}
  BY <1>3, SMT DEF Tied, VariantClasses
<1>6. Class[c][1] = 0 /\ Class[c][2] \in {"TernaryByte"}
  BY <1>3, SMT DEF Class
<1>7. GroupOf(n) = 0 /\ FormOf(n) \in {"TernaryByte"}
  BY <1>1, <1>6 DEF GroupOf, FormOf
<1>8. FormFor(n) \in {"TernaryByte"}
  <2>1. DecodeForm[c] \in {"TernaryByte"}
    BY <1>3, SMT DEF DecodeForm
  <2> QED
    BY <1>1, <1>2, <1>5, <1>6, <2>1, FormForClass
<1>9. Len(i.ops) = 3
      /\ HoldsKind("v", i.ops, 1)
      /\ HoldsKind("v", i.ops, 2)
      /\ HoldsKind("i", i.ops, 3)
  <2>1. Fills(i.ops, source, kinds, 0)
    BY <1>1, <1>2, <1>5 DEF Filled
  <2> QED
    BY <1>4, <2>1 DEF Fills, Place, Size
<1>10. PICK a, b, v : a = i.ops[1][2] /\ b = i.ops[2][2] /\ v = i.ops[3][2]
  BY Zenon
<1>11. /\ i.ops[1] = Vec(a) /\ a \in 0 .. 31 /\ a \in Byte
       /\ i.ops[2] = Vec(b) /\ b \in 0 .. 31 /\ b \in Byte
  BY <1>9, <1>10, RegisterKind, VectorKind
<1>12. PICK lanes, tail, rest : lanes = 8 * LaneOf(n) /\ tail = <<24>> \o LittleEndian(v, 1) /\ rest = <<v>>
  BY Zenon
<1>13. body.bytes = RegForm(64, OpcodeBytes(i), a, b, tail) /\ (UInt(i.ops[3], 8))
  <2>1. body = EmitBase(i, is64)
    BY <1>1, <1>2, <1>7 DEF EmitBody
  <2>2. body = EmitTernaryImm(i, is64)
    BY <1>1, <1>7, <2>1 DEF EmitBase
  <2>3. i.name \in {"VSHL128", "VSHR128"}
    BY <1>1, <1>2, <1>3, ReadByName
  <2>4. body = EmitIf(IsImm(i.ops[3]) /\ (FormOf(n) = "TernaryByte" => UInt(i.ops[3], 8)),
                      RegForm(64, OpcodeBytes(i), Num(i, 1), Num(i, 2), <<24>> \o LittleEndian(i.ops[3][2], 1)))
    BY <1>1, <1>7, <2>2, <2>3 DEF EmitTernaryImm, Bit
  <2>5. UInt(i.ops[3], 8)
    BY <1>2, <1>7, <2>4 DEF EmitIf, Rejected, UInt
  <2>6. IsImm(i.ops[3])
    BY <2>5 DEF UInt
  <2> QED
    BY <1>2, <1>10, <1>12, <2>4, <2>5, <2>6 DEF EmitIf, Bytes, Emitted, Rejected, Num
<1>131. i.ops[3] = Imm(v) /\ v \in Byte /\ v % 256 = v
  BY <1>9, <1>10, <1>13, ByteImmediate
<1>130. lanes = 24
  <2>1. c \notin VariantClasses
    BY <1>3, SMT DEF VariantClasses
  <2> QED
    BY <1>1, <1>2, <1>12, <2>1, OwnLanes
<1>14. tail = <<lanes>> \o rest /\ rest \in Seq(Byte)
  <2>1. tail = <<lanes>> \o <<v>>
    BY <1>12, <1>130, <1>131, ByteString, Zenon
  <2> QED
    BY <1>12, <1>131, <2>1, SingleByte, Zenon
<1>15. PICK p, g : RegLeft(g, bytes, i, a, b, TRUE, p, rest, end, r, is64)
  <2>1. RegisterRead(n)
    BY <1>8, RegisterForms
  <2>2. a \in 0 .. 31 /\ b \in 0 .. 31
    BY <1>11
  <2>3. PICK s : s = body.bytes
    OBVIOUS
  <2>4. Starts(bytes, i, is64, s, at, end, r) /\ s = RegForm(64, OpcodeBytes(i), a, b, <<lanes>> \o rest)
    BY <1>2, <1>13, <1>14, <2>3, Zenon
  <2> QED
    BY <1>1, <1>5, <1>12, <1>14, <2>1, <2>2, <2>4, VectorForm
<1>16. /\ g.ok = TRUE /\ g.bytes = bytes /\ g.at = p /\ g.marker = i.marker /\ g.name = n
       /\ (g.vector <=> TRUE) /\ g.form = FormFor(n) /\ g.reg = a /\ g.rm = b
       /\ p \in Nat /\ Has(bytes, p, rest) /\ end = p + Len(rest) /\ r = ReadOperands(g, is64)
  BY <1>1, <1>15 DEF RegLeft, RegReady
<1>17. Holds(bytes, p, 1) /\ At(bytes, p) = v /\ end = p + 1
  BY <1>2, <1>12, <1>16, ByteTail
<1>18. r = ReadTernaryImm(g, is64)
  BY <1>8, <1>16 DEF ReadOperands, MemoryForms
<1>19. PICK ops : ops = <<Vec(a), Vec(b), Imm(v)>>
  BY Zenon
<1>20. r = Success(g, ops, end)
  <2>1. g.name \in {"VSHL128", "VSHR128"} /\ g.form = "TernaryByte" /\ g.vector
    BY <1>1, <1>2, <1>3, <1>8, <1>16, ReadByName
  <2>2. ReadTernaryImm(g, is64) = Success(g, <<Vec(a), Vec(b)>> \o <<Imm(At(bytes, p))>>, p + 1)
    BY <1>16, <1>17, <2>1 DEF ReadTernaryImm
  <2>3. PICK x, y, z : x = Vec(a) /\ y = Vec(b) /\ z = Imm(v)
    OBVIOUS
  <2>4. <<x, y>> \o <<z>> = <<x, y, z>>
    BY ShortLists
  <2> QED
    BY <1>17, <1>18, <1>19, <2>2, <2>3, <2>4, Zenon
<1>21. Len(ops) = Len(i.ops) /\ \A k \in 1 .. Len(i.ops) : Agrees(i.ops[k], ops[k], is64)
  BY <1>9, <1>11, <1>131, <1>19 DEF Agrees
<1> QED
  BY <1>1, <1>16, <1>20, <1>21, SuccessSame, Zenon

\* A test of two vectors comes back.
LEMMA ReadsVectorTest ==
  ASSUME NEW bytes, NEW i, NEW source, NEW is64, NEW body, NEW at, NEW end, NEW r,
         Emits(bytes, i, source, is64, body, at, end, r),
         ClassOf(i.name) \in {"AVXUnary"}
  PROVE SameAs(r, i, end, is64)
<1>1. PICK n, c, kinds : n = i.name /\ c = ClassOf(i.name) /\ kinds = OperandKinds[c]
  OBVIOUS
<1>2. /\ n \in DOMAIN Records /\ Filled(i, source) /\ is64 \in BOOLEAN /\ body = EmitBody(i, is64)
      /\ body.ok /\ bytes \in Seq(Byte) /\ Starts(bytes, i, is64, body.bytes, at, end, r)
  BY <1>1 DEF Emits, Starts
<1>3. c \in {"AVXUnary"}
  BY <1>1
<1>4. kinds = <<"v", "v">>
  BY <1>1, <1>3, SMT DEF OperandKinds
<1>5. c \notin Tied /\ c # "CopyVV" /\ c \notin {"CopyRR", "FPXLoad", "FPXStore"}
  BY <1>3, SMT DEF Tied, VariantClasses
<1>6. Class[c][1] = 1 /\ Class[c][2] \in {"CopyVV"}
  BY <1>3, SMT DEF Class
<1>7. GroupOf(n) = 1 /\ FormOf(n) \in {"CopyVV"}
  BY <1>1, <1>6 DEF GroupOf, FormOf
<1>8. FormFor(n) \in {"CopyVV"}
  <2>1. AVXDecodeForm[c] \in {"CopyVV"}
    BY <1>3, SMT DEF AVXDecodeForm
  <2>2. FormTable[1] = AVXDecodeForm
    BY DEF FormTable
  <2> QED
    BY <1>1, <1>2, <1>5, <1>6, <2>1, <2>2, FormForClass
<1>9. Len(i.ops) = 2
      /\ HoldsKind("v", i.ops, 1)
      /\ HoldsKind("v", i.ops, 2)
  <2>1. Fills(i.ops, source, kinds, 0)
    BY <1>1, <1>2, <1>5 DEF Filled
  <2> QED
    BY <1>4, <2>1 DEF Fills, Place, Size
<1>10. PICK a, b : a = i.ops[1][2] /\ b = i.ops[2][2]
  BY Zenon
<1>11. /\ i.ops[1] = Vec(a) /\ a \in 0 .. 31 /\ a \in Byte
       /\ i.ops[2] = Vec(b) /\ b \in 0 .. 31 /\ b \in Byte
  BY <1>9, <1>10, RegisterKind, VectorKind
<1>12. PICK lanes, tail, rest : lanes = 8 * LaneOf(n) /\ tail = <<24>> \o <<>> \o <<>> /\ rest = <<>>
  BY Zenon
<1>13. body.bytes = RegForm(64, OpcodeBytes(i), a, b, tail)
  <2>1. body = EmitAVX(i)
    BY <1>1, <1>2, <1>7 DEF EmitBody
  <2>2. body = EmitAVXRegister(i) /\ FormOf(n) = "CopyVV"
    BY <1>1, <1>2, <1>3, <1>7, <2>1 DEF EmitAVX
  <2>3. PICK nil : nil = <<>>
    OBVIOUS
  <2>4. body = Bytes(RegForm(64, OpcodeBytes(i), Num(i, 1), Num(i, 2), <<24>> \o nil \o nil))
    BY <1>1, <2>2, <2>3 DEF EmitAVXRegister
  <2> QED
    BY <1>10, <1>12, <2>3, <2>4 DEF Bytes, Emitted, Num
<1>130. lanes = 24
  <2>1. c \notin VariantClasses
    BY <1>3, SMT DEF VariantClasses
  <2> QED
    BY <1>1, <1>2, <1>12, <2>1, OwnLanes
<1>14. tail = <<lanes>> \o rest /\ rest \in Seq(Byte)
  <2>1. tail = <<lanes>> \o <<>>
    BY <1>12, <1>130, LaneLists
  <2> QED
    BY <1>12, <2>1, NoBytes
<1>15. PICK p, g : RegLeft(g, bytes, i, a, b, TRUE, p, rest, end, r, is64)
  <2>1. RegisterRead(n)
    BY <1>8, RegisterForms
  <2>2. a \in 0 .. 31 /\ b \in 0 .. 31
    BY <1>11
  <2>3. PICK s : s = body.bytes
    OBVIOUS
  <2>4. Starts(bytes, i, is64, s, at, end, r) /\ s = RegForm(64, OpcodeBytes(i), a, b, <<lanes>> \o rest)
    BY <1>2, <1>13, <1>14, <2>3, Zenon
  <2> QED
    BY <1>1, <1>5, <1>12, <1>14, <2>1, <2>2, <2>4, VectorForm
<1>16. /\ g.ok = TRUE /\ g.bytes = bytes /\ g.at = p /\ g.marker = i.marker /\ g.name = n
       /\ (g.vector <=> TRUE) /\ g.form = FormFor(n) /\ g.reg = a /\ g.rm = b
       /\ p \in Nat /\ Has(bytes, p, rest) /\ end = p + Len(rest) /\ r = ReadOperands(g, is64)
  BY <1>1, <1>15 DEF RegLeft, RegReady
<1>17. end = p
  BY <1>12, <1>16
<1>18. r = ReadCopyVV(g)
  BY <1>8, <1>16 DEF ReadOperands, MemoryForms
<1>19. PICK ops : ops = <<Vec(a), Vec(b)>>
  BY Zenon
<1>20. r = Success(g, ops, end)
  BY <1>1, <1>3, <1>8, <1>11, <1>12, <1>16, <1>17, <1>18, <1>19 DEF ReadCopyVV
<1>21. Len(ops) = Len(i.ops) /\ \A k \in 1 .. Len(i.ops) : Agrees(i.ops[k], ops[k], is64)
  BY <1>9, <1>11, <1>19 DEF Agrees
<1> QED
  BY <1>1, <1>16, <1>20, <1>21, SuccessSame, Zenon

\* An operation on three vectors comes back.
LEMMA ReadsVectorTriple ==
  ASSUME NEW bytes, NEW i, NEW source, NEW is64, NEW body, NEW at, NEW end, NEW r,
         Emits(bytes, i, source, is64, body, at, end, r),
         ClassOf(i.name) \in {"FPBinary", "VBinary"}
  PROVE SameAs(r, i, end, is64)
<1>1. PICK n, c, kinds : n = i.name /\ c = ClassOf(i.name) /\ kinds = OperandKinds[c]
  OBVIOUS
<1>2. /\ n \in DOMAIN Records /\ Filled(i, source) /\ is64 \in BOOLEAN /\ body = EmitBody(i, is64)
      /\ body.ok /\ bytes \in Seq(Byte) /\ Starts(bytes, i, is64, body.bytes, at, end, r)
  BY <1>1 DEF Emits, Starts
<1>3. c \in {"FPBinary", "VBinary"}
  BY <1>1
<1>4. kinds = <<"v", "v", "v">>
  BY <1>1, <1>3, SMT DEF OperandKinds
<1>5. c \notin Tied /\ c # "CopyVV" /\ c \notin {"CopyRR", "FPXLoad", "FPXStore"}
  BY <1>3, SMT DEF Tied, VariantClasses
<1>6. Class[c][1] = 0 /\ Class[c][2] \in {"FPBinary", "VBinary"}
  BY <1>3, SMT DEF Class
<1>7. GroupOf(n) = 0 /\ FormOf(n) \in {"FPBinary", "VBinary"}
  BY <1>1, <1>6 DEF GroupOf, FormOf
<1>8. FormFor(n) \in {"FPBinary", "VBinary"}
  <2>1. DecodeForm[c] \in {"FPBinary", "VBinary"}
    BY <1>3, SMT DEF DecodeForm
  <2> QED
    BY <1>1, <1>2, <1>5, <1>6, <2>1, FormForClass
<1>9. Len(i.ops) = 3
      /\ HoldsKind("v", i.ops, 1)
      /\ HoldsKind("v", i.ops, 2)
      /\ HoldsKind("v", i.ops, 3)
  <2>1. Fills(i.ops, source, kinds, 0)
    BY <1>1, <1>2, <1>5 DEF Filled
  <2> QED
    BY <1>4, <2>1 DEF Fills, Place, Size
<1>10. PICK a, b, d : a = i.ops[1][2] /\ b = i.ops[2][2] /\ d = i.ops[3][2]
  BY Zenon
<1>11. /\ i.ops[1] = Vec(a) /\ a \in 0 .. 31 /\ a \in Byte
       /\ i.ops[2] = Vec(b) /\ b \in 0 .. 31 /\ b \in Byte
       /\ i.ops[3] = Vec(d) /\ d \in 0 .. 31 /\ d \in Byte
  BY <1>9, <1>10, RegisterKind, VectorKind
<1>12. PICK lanes, tail, rest : lanes = 8 * LaneOf(n) /\ tail = <<ScalarVectorCtl(i), Xop(Num(i, 3))>> /\ rest = <<Xop(d)>>
  BY Zenon
<1>13. body.bytes = RegForm(64, OpcodeBytes(i), a, b, tail)
  <2>1. body = EmitBase(i, is64)
    BY <1>1, <1>2, <1>7 DEF EmitBody
  <2>2. body = EmitVectorBinary(i)
    BY <1>1, <1>2, <1>3, <1>7, <2>1, NamedClasses1, NamedClasses2 DEF EmitBase
  <2> QED
    BY <1>1, <1>2, <1>3, <1>7, <1>10, <1>12, <2>2, NamedClasses1, NamedClasses2 DEF EmitVectorBinary, Bytes, EmitIf, Emitted, Rejected, Num
<1>14. tail = <<lanes>> \o rest /\ rest \in Seq(Byte)
  <2>1. Num(i, 3) = d
    BY <1>10 DEF Num
  <2>2. tail = <<lanes>> \o <<Xop(d)>>
    BY <2>1, <1>1, <1>2, <1>12, LaneByte, LaneLists
  <2>3. Xop(d) \in Byte
    BY <1>11, XopRead
  <2> QED
    BY <1>12, <2>2, <2>3, SingleByte
<1>15. PICK p, g : RegLeft(g, bytes, i, a, b, TRUE, p, rest, end, r, is64)
  <2>1. RegisterRead(n)
    BY <1>8, RegisterForms
  <2>2. a \in 0 .. 31 /\ b \in 0 .. 31
    BY <1>11
  <2>3. PICK s : s = body.bytes
    OBVIOUS
  <2>4. Starts(bytes, i, is64, s, at, end, r) /\ s = RegForm(64, OpcodeBytes(i), a, b, <<lanes>> \o rest)
    BY <1>2, <1>13, <1>14, <2>3, Zenon
  <2> QED
    BY <1>1, <1>5, <1>12, <1>14, <2>1, <2>2, <2>4, VectorForm
<1>16. /\ g.ok = TRUE /\ g.bytes = bytes /\ g.at = p /\ g.marker = i.marker /\ g.name = n
       /\ (g.vector <=> TRUE) /\ g.form = FormFor(n) /\ g.reg = a /\ g.rm = b
       /\ p \in Nat /\ Has(bytes, p, rest) /\ end = p + Len(rest) /\ r = ReadOperands(g, is64)
  BY <1>1, <1>15 DEF RegLeft, RegReady
<1>17. Holds(bytes, p, 1) /\ At(bytes, p) = Xop(d) /\ end = p + 1 /\ IsXop(Xop(d)) /\ Xop(d) % 32 = d
  BY <1>2, <1>11, <1>12, <1>16, ByteTail, XopRead, Zenon
<1>18. r = ReadVectorBinary(g)
  BY <1>8, <1>16 DEF ReadOperands, MemoryForms
<1>19. PICK ops : ops = <<Vec(a), Vec(b), Vec(d)>>
  BY Zenon
<1>20. r = Success(g, ops, end)
  BY <1>1, <1>3, <1>8, <1>11, <1>12, <1>16, <1>17, <1>18, <1>19 DEF ReadVectorBinary
<1>21. Len(ops) = Len(i.ops) /\ \A k \in 1 .. Len(i.ops) : Agrees(i.ops[k], ops[k], is64)
  BY <1>9, <1>11, <1>19 DEF Agrees
<1> QED
  BY <1>1, <1>16, <1>20, <1>21, SuccessSame

\* An operation on three vectors and a byte comes back.
LEMMA ReadsVectorTripleByte ==
  ASSUME NEW bytes, NEW i, NEW source, NEW is64, NEW body, NEW at, NEW end, NEW r,
         Emits(bytes, i, source, is64, body, at, end, r),
         ClassOf(i.name) \in {"AVXBinaryImm"}
  PROVE SameAs(r, i, end, is64)
<1>1. PICK n, c, kinds : n = i.name /\ c = ClassOf(i.name) /\ kinds = OperandKinds[c]
  OBVIOUS
<1>2. /\ n \in DOMAIN Records /\ Filled(i, source) /\ is64 \in BOOLEAN /\ body = EmitBody(i, is64)
      /\ body.ok /\ bytes \in Seq(Byte) /\ Starts(bytes, i, is64, body.bytes, at, end, r)
  BY <1>1 DEF Emits, Starts
<1>3. c \in {"AVXBinaryImm"}
  BY <1>1
<1>4. kinds = <<"v", "v", "v", "i">>
  BY <1>1, <1>3, SMT DEF OperandKinds
<1>5. c \notin Tied /\ c # "CopyVV" /\ c \notin {"CopyRR", "FPXLoad", "FPXStore"}
  BY <1>3, SMT DEF Tied, VariantClasses
<1>6. Class[c][1] = 1 /\ Class[c][2] \in {"FPBinary"}
  BY <1>3, SMT DEF Class
<1>7. GroupOf(n) = 1 /\ FormOf(n) \in {"FPBinary"}
  BY <1>1, <1>6 DEF GroupOf, FormOf
<1>8. FormFor(n) \in {"AVXBinaryImm"}
  <2>1. AVXDecodeForm[c] \in {"AVXBinaryImm"}
    BY <1>3, SMT DEF AVXDecodeForm
  <2>2. FormTable[1] = AVXDecodeForm
    BY DEF FormTable
  <2> QED
    BY <1>1, <1>2, <1>5, <1>6, <2>1, <2>2, FormForClass
<1>9. Len(i.ops) = 4
      /\ HoldsKind("v", i.ops, 1)
      /\ HoldsKind("v", i.ops, 2)
      /\ HoldsKind("v", i.ops, 3)
      /\ HoldsKind("i", i.ops, 4)
  <2>1. Fills(i.ops, source, kinds, 0)
    BY <1>1, <1>2, <1>5 DEF Filled
  <2> QED
    BY <1>4, <2>1 DEF Fills, Place, Size
<1>10. PICK a, b, d, v : a = i.ops[1][2] /\ b = i.ops[2][2] /\ d = i.ops[3][2] /\ v = i.ops[4][2]
  BY Zenon
<1>11. /\ i.ops[1] = Vec(a) /\ a \in 0 .. 31 /\ a \in Byte
       /\ i.ops[2] = Vec(b) /\ b \in 0 .. 31 /\ b \in Byte
       /\ i.ops[3] = Vec(d) /\ d \in 0 .. 31 /\ d \in Byte
  BY <1>9, <1>10, RegisterKind, VectorKind
<1>12. PICK lanes, tail, rest : lanes = 8 * LaneOf(n) /\ tail = <<24>> \o <<Xop(d)>> \o <<v % 256>> /\ rest = <<Xop(d), v>>
  BY Zenon
<1>13. body.bytes = RegForm(64, OpcodeBytes(i), a, b, tail) /\ (UInt(i.ops[4], 8))
  <2>1. body = EmitAVX(i)
    BY <1>1, <1>2, <1>7 DEF EmitBody
  <2>2. body = EmitAVXRegister(i) /\ FormOf(n) = "FPBinary"
    BY <1>1, <1>2, <1>3, <1>7, <2>1 DEF EmitAVX
  <2>3. PICK xop, w : xop = <<Xop(Num(i, 3))>> /\ w = LastOp(i)[2] % 256
    BY Zenon
  <2>4. body = EmitIf(UInt(LastOp(i), 8), RegForm(64, OpcodeBytes(i), Num(i, 1), Num(i, 2), <<24>> \o xop \o <<w>>))
    BY <1>1, <2>2, <2>3 DEF EmitAVXRegister
  <2>5. UInt(LastOp(i), 8)
    BY <1>2, <2>4 DEF EmitIf, Rejected
  <2>6. LastOp(i) = i.ops[Len(i.ops)]
    BY DEF LastOp
  <2> QED
    BY <1>9, <1>10, <1>12, <2>3, <2>4, <2>5, <2>6 DEF EmitIf, Bytes, Emitted, Num
<1>131. i.ops[4] = Imm(v) /\ v \in Byte /\ v % 256 = v
  BY <1>9, <1>10, <1>13, ByteImmediate
<1>130. lanes = 24
  <2>1. c \notin VariantClasses
    BY <1>3, SMT DEF VariantClasses
  <2> QED
    BY <1>1, <1>2, <1>12, <2>1, OwnLanes
<1>14. tail = <<lanes>> \o rest /\ rest \in Seq(Byte)
  <2>1. PICK z : z = Xop(d)
    OBVIOUS
  <2>2. tail = <<lanes>> \o <<z, v>>
    BY <1>12, <1>130, <1>131, <2>1, LaneLists
  <2>3. Xop(d) \in Byte
    BY <1>11, XopRead
  <2> QED
    BY <1>12, <1>131, <2>1, <2>2, <2>3, TwoBytes
<1>15. PICK p, g : RegLeft(g, bytes, i, a, b, TRUE, p, rest, end, r, is64)
  <2>1. RegisterRead(n)
    BY <1>8, RegisterForms
  <2>2. a \in 0 .. 31 /\ b \in 0 .. 31
    BY <1>11
  <2>3. PICK s : s = body.bytes
    OBVIOUS
  <2>4. Starts(bytes, i, is64, s, at, end, r) /\ s = RegForm(64, OpcodeBytes(i), a, b, <<lanes>> \o rest)
    BY <1>2, <1>13, <1>14, <2>3, Zenon
  <2> QED
    BY <1>1, <1>5, <1>12, <1>14, <2>1, <2>2, <2>4, VectorForm
<1>16. /\ g.ok = TRUE /\ g.bytes = bytes /\ g.at = p /\ g.marker = i.marker /\ g.name = n
       /\ (g.vector <=> TRUE) /\ g.form = FormFor(n) /\ g.reg = a /\ g.rm = b
       /\ p \in Nat /\ Has(bytes, p, rest) /\ end = p + Len(rest) /\ r = ReadOperands(g, is64)
  BY <1>1, <1>15 DEF RegLeft, RegReady
<1>17. /\ Holds(bytes, p, 2) /\ At(bytes, p) = Xop(d) /\ At(bytes, p + 1) = v /\ end = p + 2
       /\ IsXop(Xop(d)) /\ Xop(d) % 32 = d
  <2>1. PICK y : y = Xop(d)
    OBVIOUS
  <2>2. rest = <<y, v>> /\ Has(bytes, p, rest) /\ end = p + Len(rest) /\ p \in Nat /\ bytes \in Seq(Byte)
    BY <1>2, <1>12, <1>16, <2>1
  <2>3. Holds(bytes, p, 2) /\ At(bytes, p) = y /\ At(bytes, p + 1) = v /\ end = p + 2
    BY <2>2, TwoTail
  <2> QED
    BY <1>11, <2>1, <2>3, XopRead
<1>18. r = ReadAVXBinaryImm(g)
  BY <1>8, <1>16 DEF ReadOperands, MemoryForms
<1>19. PICK ops : ops = <<Vec(a), Vec(b), Vec(d), Imm(v)>>
  BY Zenon
<1>20. r = Success(g, ops, end)
  BY <1>1, <1>3, <1>8, <1>11, <1>12, <1>13, <1>16, <1>17, <1>18, <1>19 DEF ReadAVXBinaryImm
<1>21. Len(ops) = Len(i.ops) /\ \A k \in 1 .. Len(i.ops) : Agrees(i.ops[k], ops[k], is64)
  BY <1>9, <1>11, <1>131, <1>19 DEF Agrees
<1> QED
  BY <1>1, <1>16, <1>20, <1>21, SuccessSame, Zenon
==============================================================================
